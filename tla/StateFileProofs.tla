-------------------------- MODULE StateFileProofs --------------------------
(***************************************************************************)
(* Proofs about StateFile for every bound: types, what becomes of a silence *)
(* across restarts, and when a restart may repeat a message.                *)
(***************************************************************************)
EXTENDS StateFile, TLAPS

-----------------------------------------------------------------------------
(* Types *)

\* Ages stay ages, and remaining times stay within their bound.
LEMMA AgeTypes ==
    /\ \A a \in Ages \cup {Nil} : Older(a) \in Ages \cup {Nil} /\ Restored(a) \in Ages \cup {Nil}
    /\ \A n \in 0..MaxSilence : Sooner(n) \in 0..MaxSilence
BY StateFileAssumption DEF Ages, Older, Restored, Sooner

\* What is read from the file, or taken for it, has the type of a file.
LEMMA SavedType == TypeOK => Saved \in Files
BY StateFileAssumption DEF TypeOK, Saved, Files, Ages

\* A file that grows older stays a file.
LEMMA AgedType == \A r \in Files : Aged(r) \in Files
BY AgeTypes DEF Aged, Files

\* A capture exists exactly between the two halves of the save, and nothing is under way
\* while the process is down.
SavingInv ==
    /\ process = "half" <=> captured # Nil
    /\ process = "down" => Quiet

TypeInv == TypeOK /\ SavingInv

\* The types are inductive together with SavingInv: Write reads the capture.
LEMMA TypeStep == TypeInv /\ [Next]_vars => TypeInv'
<1> SUFFICES ASSUME TypeOK, SavingInv, [Next]_vars PROVE TypeOK' /\ SavingInv'
  BY DEF TypeInv
<1> USE StateFileAssumption DEF memory, setting, notices, requests, bounds, Quiet
<1>0. ASSUME NEW says \in Says, Acts, Emit(says) PROVE TypeOK' /\ SavingInv'
  <2>1. message' \in Messages \cup {Nil} /\ booking' \in Says
    BY <1>0 DEF Emit, Messages
  <2>2. QED
    BY <1>0, <2>1 DEF Acts, Running, Emit, TypeOK, SavingInv
<1>1. CASE Raise \/ Resolve
  BY <1>0, <1>1 DEF Raise, Resolve, Says
<1>3. CASE Book
  BY <1>3 DEF Book, TypeOK, Ages, SavingInv
<1>4. CASE Approve
  <2>1. message' \in Messages /\ last' \in Says
    BY <1>4 DEF Approve, TypeOK, Messages
  <2>2. Sent' \in Ages \cup {Nil}
    BY <1>4 DEF Approve, Ages
  <2>3. flapping' \in BOOLEAN /\ failed' \in BOOLEAN
    BY <1>4, Zenon DEF Approve
  <2>4. behind' \subseteq {"capture", "file"} /\ excused' \subseteq {"stale", "unsaved"}
    BY <1>4 DEF Approve
  <2>5. QED
    BY <1>4, <2>1, <2>2, <2>3, <2>4 DEF Approve, TypeOK, SavingInv
<1>2. CASE Reject
  BY <1>2 DEF Reject, TypeOK, SavingInv
<1>5. CASE Post
  <2>1. PICK success \in BOOLEAN : Posted(success)
    BY <1>5 DEF Post
  <2>2. told' \in BOOLEAN
    BY <2>1, Zenon DEF Posted, TypeOK
  <2>3. failed' \in BOOLEAN
    BY <2>1, Zenon DEF Posted, TypeOK
  <2>4. QED
    BY <2>1, <2>2, <2>3 DEF Posted, TypeOK, SavingInv
<1>18. CASE FlapEnds
  BY <1>18 DEF FlapEnds, TypeOK, SavingInv
<1>6. CASE Silence
  BY <1>6 DEF Silence, SetSilence, TypeOK, SavingInv
<1>7. CASE Unsilence
  BY <1>7 DEF Unsilence, SetSilence, TypeOK, SavingInv
<1>8. CASE Stop
  BY <1>8 DEF Stop, TypeOK, SavingInv
<1>9. CASE MarshalSent
  <2>1. [silence |-> silence, Sent |-> Sent] \in Captures
    BY DEF TypeOK, Captures
  <2>2. QED
    BY <1>9, <2>1 DEF MarshalSent, Capture, TypeOK, SavingInv
<1>10. CASE Write
  BY <1>10 DEF Write, TypeOK, Captures, Files, SavingInv
<1>11. CASE Forget /\ (Exit \/ Crash)
  <2>1. failed' \in BOOLEAN
    BY <1>11, Zenon DEF Forget, TypeOK
  <2>2. behind' \subseteq {"capture", "file"}
    BY <1>11 DEF Forget, TypeOK
  <2>3. stops' \in 0..MaxStops
    BY <1>11 DEF Exit, Crash, TypeOK
  <2>4. /\ AllAlarms' = Nil /\ Sent' = Nil /\ flapping' = FALSE /\ message' = Nil
        /\ booking' = Nil /\ silence' = 0 /\ captured' = Nil /\ process' = "down"
        /\ UNCHANGED <<setting, condition, file, told, last, excused, requests, silences>>
    BY <1>11 DEF Forget, Exit, Crash
  <2>5. SavingInv'
    BY <2>4 DEF SavingInv
  <2>6. 0 \in 0..MaxSilence
    OBVIOUS
  <2>7. {silence, asked, longest}' \subseteq 0..MaxSilence
    BY <2>4, <2>6 DEF TypeOK
  <2>8. TypeOK'
    BY <2>1, <2>2, <2>3, <2>4, <2>7, Zenon DEF TypeOK
  <2>9. QED
    BY <2>5, <2>8
<1>13. CASE Start
  <2>1. excused' \subseteq {"stale", "unsaved"}
    BY <1>13 DEF Start, TypeOK
  <2>2. /\ AllAlarms' \in Ages \cup {Nil} /\ Sent' \in Ages \cup {Nil}
        /\ silence' \in 0..MaxSilence
    BY <1>13, SavedType, AgeTypes DEF Start, RestoredSilence, Files
  <2>3. QED
    BY <1>13, <2>1, <2>2 DEF Start, TypeOK, SavingInv
<1>14. CASE Tick
  BY <1>14, AgeTypes, AgedType DEF Tick, TypeOK, SavingInv
<1>15. CASE Change
  BY <1>15 DEF Change, TypeOK, SavingInv
<1>16. CASE UNCHANGED vars
  BY <1>16 DEF vars, TypeOK, SavingInv
<1>17. QED
  BY <1>1, <1>2, <1>3, <1>4, <1>5, <1>6, <1>7, <1>8, <1>9, <1>10, <1>11,
     <1>13, <1>14, <1>15, <1>16, <1>18 DEF Next, Exit, Crash

LEMMA TypeInvariant == Spec => []TypeInv
<1>1. Init => TypeOK
  <2>1. 0 \in 0..MaxSilence /\ 0 \in 0..MaxStops /\ 0 \in 0..MaxSilences
    BY StateFileAssumption
  <2>2. "resolve" \in Says /\ {} \subseteq {"capture", "file"} /\ {} \subseteq {"stale", "unsaved"}
    BY DEF Says
  <2>3. ASSUME Init PROVE {silence, asked, longest} \subseteq 0..MaxSilence
    BY <2>1, <2>3 DEF Init
  <2>4. QED
    BY <2>1, <2>2, <2>3, Zenon DEF Init, TypeOK
<1>2. Init => SavingInv
  BY DEF Init, SavingInv, Quiet
<1>3. QED
  BY <1>1, <1>2, TypeStep, PTL DEF Spec, TypeInv

\* Every variable keeps its type, whatever the process was doing when it ended and
\* whatever the file held when it started.
THEOREM StateTypeCorrect == Spec => []TypeOK
BY TypeInvariant, PTL DEF TypeInv

-----------------------------------------------------------------------------
(* Silences *)

\* No silence, in memory, on its way to the file or in it, outlasts the longest one
\* asked for.
BoundedInv ==
    /\ silence <= longest
    /\ captured # Nil => captured.silence <= longest
    /\ file # Nil => file.silence <= longest

\* Where the silence last asked for is kept while an orderly process is up, saves itself
\* and is down.
KeptInv ==
    orderly =>
        /\ process \in {"up", "opened"} => silence = asked
        /\ process = "half" => captured.silence = asked
        /\ process \in {"exiting", "down"} => file # Nil /\ file.silence = asked

SilenceInv == BoundedInv /\ KeptInv

\* A step that leaves the silences and the save alone preserves SilenceInv.
LEMMA SilenceUntouched ==
    ASSUME SilenceInv, UNCHANGED <<orderly, process, silence, file, captured, asked, longest>>
    PROVE  SilenceInv'
BY DEF SilenceInv, BoundedInv, KeptInv

LEMMA SilenceStep == TypeInv /\ SilenceInv /\ [Next]_vars => SilenceInv'
<1> SUFFICES ASSUME TypeOK, SavingInv, SilenceInv, [Next]_vars PROVE SilenceInv'
  BY DEF TypeInv
<1> USE StateFileAssumption DEF memory, setting, notices, requests, bounds
<1>1. CASE \/ Raise \/ Resolve \/ Book \/ Approve \/ Reject \/ Post \/ FlapEnds
           \/ Change \/ UNCHANGED vars
  <2>1. UNCHANGED <<orderly, process, silence, file, captured, asked, longest>>
    BY <1>1 DEF Raise, Resolve, Emit, Book, Approve, Reject, Post, Posted, FlapEnds, Change, vars
  <2>2. QED
    BY <2>1, SilenceUntouched
<1>2. ASSUME NEW n \in 0..MaxSilence, SetSilence(n), Serves PROVE SilenceInv'
  <2>1. longest' >= longest /\ longest' >= n /\ longest' \in Nat /\ longest \in Nat
    BY <1>2 DEF SetSilence, TypeOK
  <2>2. BoundedInv'
    BY <1>2, <2>1 DEF SetSilence, SilenceInv, BoundedInv, TypeOK, Captures, Files
  <2>3. KeptInv'
    BY <1>2 DEF SetSilence, Serves, SilenceInv, KeptInv
  <2>4. QED
    BY <2>2, <2>3 DEF SilenceInv
<1>3. CASE Silence
  BY <1>2, <1>3 DEF Silence
<1>4. CASE Unsilence
  BY <1>2, <1>4 DEF Unsilence
<1>5. CASE Stop
  BY <1>5 DEF Stop, SilenceInv, BoundedInv, KeptInv
<1>6. CASE MarshalSent
  BY <1>6 DEF MarshalSent, Capture, SilenceInv, BoundedInv, KeptInv
<1>7. CASE Write
  <2>1. file' \in Files /\ file'.silence = captured.silence
    BY <1>7 DEF Write, SavingInv, TypeOK, Captures, Files
  <2>2. QED
    BY <1>7, <2>1 DEF Write, SavingInv, SilenceInv, BoundedInv, KeptInv
<1>8. CASE Exit
  BY <1>8 DEF Exit, Forget, SilenceInv, BoundedInv, KeptInv, TypeOK
<1>9. CASE Crash
  BY <1>9 DEF Crash, Forget, SilenceInv, BoundedInv, KeptInv, TypeOK
<1>10. CASE Start
  <2>1. Saved.silence <= longest
    BY DEF Saved, SilenceInv, BoundedInv, TypeOK
  <2>2. orderly => Saved.silence = asked
    BY <1>10 DEF Start, Saved, SilenceInv, KeptInv
  <2>3. QED
    BY <1>10, <2>1, <2>2 DEF Start, RestoredSilence, SilenceInv, BoundedInv, KeptInv, SavingInv
<1>11. CASE Tick
  <2>1. \A m, n \in 0..MaxSilence : m <= n => Sooner(m) <= Sooner(n)
    BY DEF Sooner
  <2>2. file # Nil => file' # Nil /\ file'.silence = Sooner(file.silence)
    <3> SUFFICES ASSUME file # Nil PROVE file' # Nil /\ file'.silence = Sooner(file.silence)
      OBVIOUS
    <3>1. file' = Aged(file) /\ Aged(file) \in Files
      BY <1>11, AgedType DEF Tick, TypeOK
    <3>2. QED
      BY <3>1 DEF Aged, TypeOK, Files
  <2>3. captured = Nil /\ captured' = Nil
    BY <1>11 DEF Tick, SavingInv
  <2>4. BoundedInv'
    BY <1>11, <2>1, <2>2, <2>3 DEF Tick, SilenceInv, BoundedInv, TypeOK, Files
  <2>5. KeptInv'
    BY <1>11, <2>2 DEF Tick, SilenceInv, KeptInv
  <2>6. QED
    BY <2>4, <2>5 DEF SilenceInv
<1>12. QED
  BY <1>1, <1>3, <1>4, <1>5, <1>6, <1>7, <1>8, <1>9, <1>10, <1>11 DEF Next

\* A silence survives every orderly restart to the tick, and whatever a crash brings
\* back from an older file, no silence lasts longer than it was asked for.
THEOREM SilenceTheorem == Spec => []SilenceSurvives
<1>1. Init => SilenceInv
  BY DEF Init, SilenceInv, BoundedInv, KeptInv
<1>2. Spec => []SilenceInv
  BY <1>1, SilenceStep, TypeInvariant, PTL DEF Spec
<1>3. SilenceInv => SilenceSurvives
  BY DEF SilenceInv, BoundedInv, KeptInv, SilenceSurvives
<1>4. QED
  BY <1>2, <1>3, PTL

-----------------------------------------------------------------------------
(* Messages *)

\* The entry of a Sent map, in memory, captured or in the file, is what was approved last.
Agrees(sent) == sent # Nil <=> last = "alert"

\* The maps agree with it, unless something excuses them; of the capture and the file,
\* those that were made since.
MapInv ==
    \/ excused # {}
    \/ /\ process # "down" => Agrees(Sent)
       /\ process = "half" /\ "capture" \notin behind => Agrees(captured.Sent)
       /\ "file" \notin behind => Agrees(Saved.Sent)

\* In an orderly behaviour nothing is under way once the save has begun, so that the file
\* has it all.
OrderlyInv ==
    orderly =>
        /\ process # "up" => Quiet
        /\ process = "half" => "capture" \notin behind
        /\ process \in {"exiting", "down"} => "file" \notin behind
        /\ "unsaved" \notin excused

MessageInv == MapInv /\ OrderlyInv

\* A step that leaves the maps and the histories alone, and starts no message once the
\* save of an orderly process has begun.
LEMMA MapsUntouched ==
    ASSUME MessageInv, UNCHANGED <<orderly, process, Sent, file, captured, last, excused, behind>>,
           orderly /\ process # "up" => (Quiet => Quiet')
    PROVE  MessageInv'
BY DEF MessageInv, MapInv, OrderlyInv, Agrees, Saved

LEMMA MessageStep == TypeInv /\ MessageInv /\ [Next]_vars => MessageInv'
<1> SUFFICES ASSUME TypeOK, SavingInv, MessageInv, [Next]_vars PROVE MessageInv'
  BY DEF TypeInv
<1> USE StateFileAssumption DEF memory, setting, notices, requests, bounds
<1>1. CASE Raise \/ Resolve
  BY <1>1, MapsUntouched DEF Raise, Resolve, Emit, Acts
<1>2. CASE Reject \/ Post \/ FlapEnds \/ Silence \/ Unsilence \/ Change \/ UNCHANGED vars
  <2>1. /\ UNCHANGED <<orderly, process, Sent, file, captured, last, excused, behind>>
        /\ Quiet => Quiet'
    BY <1>2 DEF Reject, Post, Posted, FlapEnds, Silence, Unsilence, SetSilence, Change, vars, Quiet
  <2>2. QED
    BY <2>1, MapsUntouched
<1>3. CASE Book
  <2>1. orderly => process = "up"
    BY <1>3 DEF Book, MessageInv, OrderlyInv, Quiet
  <2>2. MapInv'
    BY <1>3 DEF Book, MessageInv, MapInv, Agrees, Saved
  <2>3. OrderlyInv'
    BY <1>3, <2>1 DEF Book, MessageInv, OrderlyInv
  <2>4. QED
    BY <2>2, <2>3 DEF MessageInv
<1>4. CASE Approve
  <2>1. orderly => process = "up"
    BY <1>4 DEF Approve, MessageInv, OrderlyInv, Quiet
  <2>2. Agrees(Sent)'
    BY <1>4 DEF Approve, Agrees, TypeOK, Messages, Says
  <2>3. MapInv'
    BY <1>4, <2>2 DEF Approve, MapInv
  <2>4. OrderlyInv'
    BY <1>4, <2>1 DEF Approve, OrderlyInv
  <2>5. QED
    BY <2>3, <2>4 DEF MessageInv
<1>5. CASE Stop
  <2>1. MapInv'
    BY <1>5 DEF Stop, MessageInv, MapInv, Agrees
  <2>2. OrderlyInv'
    BY <1>5 DEF Stop, MessageInv, OrderlyInv, Quiet
  <2>3. QED
    BY <2>1, <2>2 DEF MessageInv
<1>6. CASE MarshalSent
  <2>1. MapInv'
    BY <1>6 DEF MarshalSent, Capture, MessageInv, MapInv, Agrees, Saved
  <2>2. OrderlyInv'
    BY <1>6 DEF MarshalSent, Capture, MessageInv, OrderlyInv, Quiet
  <2>3. QED
    BY <2>1, <2>2 DEF MessageInv
<1>7. CASE Write
  <2>1. file' \in Files /\ file'.Sent = captured.Sent /\ file' # Nil
    BY <1>7 DEF Write, SavingInv, TypeOK, Captures, Files
  <2>2. Saved' = file'
    BY <2>1 DEF Saved
  <2>3. MapInv'
    BY <1>7, <2>1, <2>2 DEF Write, MessageInv, MapInv, Agrees
  <2>4. OrderlyInv'
    BY <1>7 DEF Write, MessageInv, OrderlyInv, Quiet
  <2>5. QED
    BY <2>3, <2>4 DEF MessageInv
<1>8. CASE Exit \/ Crash
  <2>1. MapInv'
    BY <1>8 DEF Exit, Crash, Forget, MessageInv, MapInv, Agrees, Saved
  <2>2. OrderlyInv'
    BY <1>8 DEF Exit, Crash, Forget, MessageInv, OrderlyInv, Quiet
  <2>3. QED
    BY <2>1, <2>2 DEF MessageInv
<1>9. CASE Start
  <2>1. "unsaved" \in excused' <=> "unsaved" \in excused \/ "file" \in behind
    BY <1>9 DEF Start
  <2>2. "stale" \in excused' <=> "stale" \in excused \/ Saved.Sent = StaleHours
    BY <1>9 DEF Start
  <2>3. OrderlyInv'
    BY <1>9, <2>1 DEF Start, MessageInv, OrderlyInv
  <2>4. MapInv'
    <3> SUFFICES ASSUME excused' = {} PROVE MapInv'
      BY DEF MapInv
    <3>1. excused = {} /\ "file" \notin behind /\ Saved.Sent # StaleHours
      BY <1>9, <2>1, <2>2 DEF Start
    <3>2. Agrees(Saved.Sent) /\ Restored(Saved.Sent) = Saved.Sent
      BY <3>1 DEF MessageInv, MapInv, Restored
    <3>3. QED
      BY <1>9, <3>1, <3>2 DEF Start, MapInv, Agrees, Saved
  <2>5. QED
    BY <2>3, <2>4 DEF MessageInv
<1>10. CASE Tick
  <2>1. \A a \in Ages \cup {Nil} : Older(a) = Nil <=> a = Nil
    BY DEF Ages, Older
  <2>2. Saved.Sent \in Ages \cup {Nil} /\ (Saved.Sent)' = Older(Saved.Sent)
    <3>1. CASE file = Nil
      BY <1>10, <3>1 DEF Tick, Saved, Older
    <3>2. CASE file # Nil
      <4>1. file' = Aged(file) /\ Aged(file) \in Files /\ file \in Files
        BY <1>10, <3>2, AgedType DEF Tick, TypeOK
      <4>2. file' # Nil /\ file'.Sent = Older(file.Sent) /\ file.Sent \in Ages \cup {Nil}
        BY <4>1 DEF Aged, Files
      <4>3. QED
        BY <3>2, <4>2 DEF Saved
    <3>3. QED
      BY <3>1, <3>2
  <2>3. MapInv'
    BY <1>10, <2>1, <2>2 DEF Tick, TypeOK, MessageInv, MapInv, Agrees
  <2>4. OrderlyInv'
    BY <1>10 DEF Tick, MessageInv, OrderlyInv, Quiet
  <2>5. QED
    BY <2>3, <2>4 DEF MessageInv
<1>11. QED
  BY <1>1, <1>2, <1>3, <1>4, <1>5, <1>6, <1>7, <1>8, <1>9, <1>10 DEF Next

\* However often the process is restarted or killed and the chain silenced, alerts and
\* resolves are approved in turns, unless an entry was dropped as stale or, where the end
\* was not orderly, the file did not have the last approval or booking.
THEOREM NothingTwiceTheorem == Spec => NothingTwice
<1>1. Init => MessageInv
  BY DEF Init, MessageInv, MapInv, OrderlyInv, Agrees, Saved, Quiet
<1>2. Spec => []MessageInv
  BY <1>1, MessageStep, TypeInvariant, PTL DEF Spec
<1> DEFINE InTurn == Approves => \/ message.says # last
                                 \/ "stale" \in excused
                                 \/ "unsaved" \in excused /\ ~orderly
<1>3. TypeInv /\ MessageInv /\ [Next]_vars => [InTurn]_vars
  <2> SUFFICES ASSUME TypeOK, SavingInv, MessageInv, Next, Approves, message.says = last
               PROVE  "stale" \in excused \/ ("unsaved" \in excused /\ ~orderly)
    BY DEF TypeInv
  <2> USE StateFileAssumption
  <2>1. Approve
    BY DEF Next, Approves, Raise, Resolve, Emit, Acts, Quiet, Book, Reject, Post, Posted,
           FlapEnds, Silence, Unsilence, SetSilence, Stop, MarshalSent, Capture, Write, Exit,
           Crash, Forget, Start, Tick, Change, memory
  <2>2. message.says = "alert" <=> Sent = Nil
    BY <2>1 DEF Approve, shouldNotify
  <2>3. ~Agrees(Sent)
    BY <2>2 DEF Agrees
  <2>4. excused # {} /\ excused \subseteq {"stale", "unsaved"}
    <3>1. process # "down" => excused # {}
      BY <2>3 DEF MessageInv, MapInv
    <3>2. process = "down" => message = Nil
      BY DEF SavingInv, Quiet
    <3>3. QED
      BY <3>1, <3>2 DEF Approves, TypeOK
  <2>5. QED
    BY <2>4 DEF MessageInv, OrderlyInv
<1>4. QED
  BY <1>2, <1>3, TypeInvariant, PTL DEF Spec, NothingTwice
=============================================================================
