-------------------------- MODULE DashboardProofs --------------------------
(***************************************************************************)
(* Proof that the alert history of the dashboard never says that an active  *)
(* alarm is over, for any number of chains whose goroutines, and the        *)
(* escalation sweep, hand their entries to the aggregator in any order.     *)
(*                                                                          *)
(* The history changes before the alarm does, so the property alone is not  *)
(* inductive. StoryInv adds what a call of alert() that is about to book an *)
(* alarm can rely on: the entry it has handed over is still the newest of   *)
(* its chain, or one of the sweep is, which is an alert too.                *)
(***************************************************************************)
EXTENDS Dashboard, SequenceTheorems, TLAPS

HistoryEntries == [chain : Chains, resolved : BOOLEAN]

\* The types the argument needs: those of the alarms, the calls and the history.
TypeInv ==
    /\ setup \in SetupType
    /\ alarm \in [Chains -> BOOLEAN] /\ silenced \in [Chains -> BOOLEAN]
    /\ condition \in [Chains -> BOOLEAN]
    /\ call \in [Chains -> Calls \cup {Nil}]
    /\ escalation \in Chains \cup {Nil} /\ due \subseteq Chains
    /\ alertHistory \in Seq(HistoryEntries)

\* The slice never outgrows its length.
LengthInv == Len(alertHistory) <= HistoryLength

\* A call that has told the history of an alert and is about to book it.
Booking(c) == call[c] # Nil /\ call[c].at = "book" /\ ~call[c].resolved

\* An active alarm is not over unless a call is ending it, and has been mentioned if this
\* run has booked it; the same is true of an alarm about to be booked.
Story(c) ==
    /\ alarm[c] => (Over(c) => Ending(c)) /\ (c \in restored \/ Mentioned(c))
    /\ Booking(c) => ~Over(c) /\ Mentioned(c)

StoryInv == ~setup.hideLogs => \A c \in Watched : Story(c)

-----------------------------------------------------------------------------
(* The history slice *)

\* A new entry is put first and the others move down, the last one out if there is no room.
LEMMA PushedEntries ==
    ASSUME TypeInv, LengthInv, NEW entry \in HistoryEntries
    PROVE  /\ Pushed(entry) \in Seq(HistoryEntries)
           /\ Len(Pushed(entry)) = IF Len(alertHistory) < HistoryLength
                                   THEN Len(alertHistory) + 1 ELSE HistoryLength
           /\ Pushed(entry)[1] = entry
           /\ \A i \in 2..Len(Pushed(entry)) : Pushed(entry)[i] = alertHistory[i - 1]
<1> DEFINE kept == IF Len(alertHistory) < HistoryLength
                   THEN Len(alertHistory) ELSE HistoryLength - 1
           rest == SubSeq(alertHistory, 1, kept)
<1>1. alertHistory \in Seq(HistoryEntries) /\ Len(alertHistory) \in Nat
  BY DEF TypeInv
<1>2. kept \in 0..Len(alertHistory)
  BY <1>1, DashboardAssumption DEF LengthInv
<1>3. /\ rest \in Seq(HistoryEntries) /\ Len(rest) = kept
      /\ \A i \in 1..kept : rest[i] = alertHistory[i]
  BY <1>1, <1>2
<1>4. <<entry>> \in Seq(HistoryEntries) /\ Len(<<entry>>) = 1 /\ <<entry>>[1] = entry
  OBVIOUS
<1>5. Pushed(entry) = <<entry>> \o rest
  BY DEF Pushed
<1> HIDE DEF rest
<1>6. /\ Pushed(entry) \in Seq(HistoryEntries) /\ Len(Pushed(entry)) = kept + 1
      /\ Pushed(entry)[1] = entry
      /\ \A i \in 2..(kept + 1) : Pushed(entry)[i] = rest[i - 1]
  BY <1>2, <1>3, <1>4, <1>5
<1>7. \A i \in 2..(kept + 1) : i - 1 \in 1..kept
  BY <1>2
<1>8. kept + 1 = IF Len(alertHistory) < HistoryLength
                 THEN Len(alertHistory) + 1 ELSE HistoryLength
  BY <1>1, DashboardAssumption
<1> HIDE DEF kept
<1>9. QED
  BY <1>3, <1>6, <1>7, <1>8

\* Pushing an entry: what the history says of its chain is what the entry says, and of the
\* others it says what it said before; no chain that was mentioned no longer counts as such.
LEMMA PushTells ==
    ASSUME TypeInv, LengthInv, NEW c \in Chains, NEW b \in BOOLEAN,
           alertHistory' = Pushed([chain |-> c, resolved |-> b]), NEW d
    PROVE  /\ Over(d)' => IF d = c THEN b ELSE Over(d)
           /\ d = c \/ Mentioned(d) => Mentioned(d)'
<1> DEFINE entry == [chain |-> c, resolved |-> b]
           n == Len(alertHistory)
           m == Len(alertHistory')
<1>1. entry \in HistoryEntries
  BY DEF HistoryEntries
<1>2. /\ alertHistory' \in Seq(HistoryEntries)
      /\ m = IF n < HistoryLength THEN n + 1 ELSE HistoryLength
      /\ alertHistory'[1] = entry
      /\ \A i \in 2..m : alertHistory'[i] = alertHistory[i - 1]
  BY <1>1, PushedEntries
<1>3. n \in Nat /\ m \in Nat /\ n <= HistoryLength /\ HistoryLength \in Nat \ {0} /\ m >= 1
  BY <1>2, DashboardAssumption DEF TypeInv, LengthInv
<1>4. DOMAIN alertHistory' = 1..m /\ DOMAIN alertHistory = 1..n
  BY <1>2 DEF TypeInv
<1>5. \A i \in 2..m : i - 1 \in 1..n
  BY <1>2, <1>3
<1>6. /\ About(d, 1)' = (d = c)
      /\ \A i \in 2..m : About(d, i)' = About(d, i - 1)
      /\ alertHistory'[1].resolved = b
  BY <1>2 DEF About
<1> HIDE DEF m, n
<1>7. ASSUME Over(d)' PROVE IF d = c THEN b ELSE Over(d)
  <2>1. PICK i \in 1..m : NewestAbout(d, i)' /\ alertHistory'[i].resolved
    BY <1>4, <1>7 DEF Over
  <2>2. CASE i = 1
    BY <1>6, <2>1, <2>2 DEF NewestAbout
  <2>3. CASE i # 1
    <3>1. i \in 2..m /\ 1 \in 1..(i - 1)
      BY <1>3, <2>3
    <3>2. d # c
      BY <1>6, <2>1, <3>1 DEF NewestAbout
    <3>3. ASSUME NEW k \in 1..((i - 1) - 1) PROVE ~About(d, k)
      <4>1. k + 1 \in 1..(i - 1) /\ k + 1 \in 2..m /\ (k + 1) - 1 = k
        BY <1>3, <3>1, <3>3
      <4>2. QED
        BY <1>6, <2>1, <4>1 DEF NewestAbout
    <3>4. NewestAbout(d, i - 1)
      BY <1>6, <2>1, <3>1, <3>3 DEF NewestAbout
    <3>5. alertHistory[i - 1].resolved /\ i - 1 \in 1..n
      BY <1>2, <1>5, <2>1, <3>1
    <3>6. QED
      BY <1>4, <3>2, <3>4, <3>5 DEF Over
  <2>4. QED
    BY <2>2, <2>3
<1>8. ASSUME d = c PROVE Mentioned(d)'
  <2>1. 1 \in 1..m
    BY <1>3
  <2>2. QED
    BY <1>4, <1>6, <1>8, <2>1 DEF Mentioned
<1>9. ASSUME Mentioned(d) PROVE Mentioned(d)'
  <2>1. CASE n = HistoryLength
    <3>1. m = HistoryLength
      BY <1>2, <1>3, <2>1
    <3>2. QED
      BY <3>1 DEF Mentioned, m
  <2>2. CASE n # HistoryLength
    <3>1. PICK i \in 1..n : About(d, i)
      BY <1>4, <1>9, <2>2 DEF Mentioned, n
    <3>2. m = n + 1
      BY <1>2, <1>3, <2>2
    <3>3. i + 1 \in 2..m /\ i + 1 \in 1..m /\ (i + 1) - 1 = i
      BY <1>3, <3>1, <3>2
    <3>4. About(d, i + 1)'
      BY <1>6, <3>1, <3>3
    <3>5. QED
      BY <1>4, <3>3, <3>4 DEF Mentioned
  <2>3. QED
    BY <2>1, <2>2
<1>10. QED
  BY <1>7, <1>8, <1>9

\* A history that does not change says the same.
LEMMA SameHistory ==
    ASSUME UNCHANGED alertHistory, NEW c
    PROVE  Over(c)' = Over(c) /\ Mentioned(c)' = Mentioned(c)
BY DEF Over, Mentioned, About, NewestAbout

\* A record of Calls moved on is one of Calls.
LEMMA CallMoves ==
    ASSUME TypeInv, NEW c \in Chains, call[c] # Nil, NEW where \in {"history", "book"},
           call' = [call EXCEPT ![c].at = where]
    PROVE  /\ call' \in [Chains -> Calls \cup {Nil}] /\ call'[c] # Nil /\ call'[c].at = where
           /\ call'[c].resolved = call[c].resolved /\ call[c].resolved \in BOOLEAN
           /\ \A d \in Chains \ {c} : call'[d] = call[d]
<1>1. call[c] \in Calls
  BY DEF TypeInv
<1>2. /\ [call[c] EXCEPT !.at = where] \in Calls
      /\ [call[c] EXCEPT !.at = where].at = where
      /\ [call[c] EXCEPT !.at = where].resolved = call[c].resolved
      /\ call[c].resolved \in BOOLEAN
  BY <1>1 DEF Calls
<1>3. /\ call'[c] = [call[c] EXCEPT !.at = where]
      /\ \A d \in Chains \ {c} : call'[d] = call[d]
      /\ call' = [call EXCEPT ![c] = [call[c] EXCEPT !.at = where]]
  BY DEF TypeInv
<1>4. call' \in [Chains -> Calls \cup {Nil}]
  BY <1>2, <1>3 DEF TypeInv
<1>5. QED
  BY <1>2, <1>3, <1>4, DashboardAssumption

-----------------------------------------------------------------------------
(* The steps *)

\* A call begins.
LEMMA BeginTypes ==
    ASSUME TypeInv, NEW c \in Chains, NEW resolved \in BOOLEAN, Begin(c, resolved)
    PROVE  /\ TypeInv'
           /\ UNCHANGED <<setup, alarm, restored, alertHistory>>
           /\ call[c] = Nil /\ \A d \in Chains \ {c} : call'[d] = call[d]
           /\ ~setup.hideLogs => call'[c].at # "book"
<1> DEFINE begun == [at |-> IF silenced[c] THEN "log" ELSE AfterLog, resolved |-> resolved,
                     silenced |-> silenced[c]]
<1>1. begun \in Calls
  BY DEF Calls, TypeInv, AfterLog
<1>2. ~setup.hideLogs => begun.at # "book"
  BY DEF AfterLog
<1>3. call' = [call EXCEPT ![c] = begun]
  BY DEF Begin
<1> HIDE DEF begun
<1>4. /\ call' \in [Chains -> Calls \cup {Nil}] /\ call'[c] = begun
      /\ \A d \in Chains \ {c} : call'[d] = call[d]
  BY <1>1, <1>3 DEF TypeInv
<1>5. TypeInv'
  BY <1>4 DEF Begin, TypeInv, world, alarms, sweep, aggregator
<1>6. QED
  BY <1>2, <1>4, <1>5 DEF Begin, alarms, aggregator

\* What the evaluators do is to begin a call.
LEMMA Evaluators ==
    ASSUME TypeInv, NEW c \in Chains, Evaluate(c) \/ EvaluateUngated(c)
    PROVE  \E resolved \in BOOLEAN : Begin(c, resolved)
<1>1. CASE Evaluate(c)
  BY <1>1 DEF Evaluate, TypeInv
<1>2. CASE EvaluateUngated(c)
  <2>1. (~condition[c]) \in BOOLEAN
    OBVIOUS
  <2>2. QED
    BY <1>2, <2>1 DEF EvaluateUngated
<1>3. QED
  BY <1>1, <1>2

\* The types are preserved, and so is the length of the slice.
LEMMA TypeStep ==
    ASSUME TypeInv, LengthInv, [Next]_vars
    PROVE  TypeInv' /\ LengthInv'
<1> USE DEF world, alarms, sweep, aggregator
<1>1. CASE UNCHANGED vars
  BY <1>1 DEF vars, TypeInv, LengthInv
<1>2. ASSUME NEW c \in Chains, Evaluate(c) \/ EvaluateUngated(c) PROVE TypeInv' /\ LengthInv'
  BY <1>2, Evaluators, BeginTypes DEF LengthInv
<1>3. ASSUME NEW c \in Chains, Book(c) PROVE TypeInv' /\ LengthInv'
  <2>1. Booked(c) \in BOOLEAN
    BY <1>3 DEF Booked, TypeInv
  <2>2. alarm' \in [Chains -> BOOLEAN] /\ call' \in [Chains -> Calls \cup {Nil}]
    BY <1>3, <2>1 DEF Book, TypeInv
  <2>3. QED
    BY <1>3, <2>2 DEF Book, TypeInv, LengthInv
<1>4. ASSUME NEW c \in Chains, LogSilenced(c) PROVE TypeInv' /\ LengthInv'
  <2>1. call' \in [Chains -> Calls \cup {Nil}]
    BY <1>4, CallMoves DEF LogSilenced, AfterLog
  <2>2. QED
    BY <1>4, <2>1 DEF LogSilenced, TypeInv, LengthInv
<1>5. ASSUME NEW entry \in HistoryEntries, alertHistory' = Pushed(entry)
      PROVE  alertHistory' \in Seq(HistoryEntries) /\ LengthInv'
  <2>1. Len(alertHistory) \in Nat
    BY DEF TypeInv
  <2>2. QED
    BY <1>5, <2>1, PushedEntries, DashboardAssumption DEF LengthInv
<1>6. ASSUME NEW c \in Chains, TakeHistory(c) PROVE TypeInv' /\ LengthInv'
  <2>1. call' \in [Chains -> Calls \cup {Nil}] /\ call[c].resolved \in BOOLEAN
    BY <1>6, CallMoves DEF TakeHistory
  <2>2. [chain |-> c, resolved |-> call[c].resolved] \in HistoryEntries
    BY <2>1 DEF HistoryEntries
  <2>3. alertHistory' \in Seq(HistoryEntries) /\ LengthInv'
    BY <1>5, <1>6, <2>2 DEF TakeHistory
  <2>4. QED
    BY <1>6, <2>1, <2>3 DEF TakeHistory, TypeInv
<1>7. CASE TakeEscalation
  <2>1. escalation \in Chains
    BY <1>7 DEF TakeEscalation, TypeInv
  <2>2. [chain |-> escalation, resolved |-> FALSE] \in HistoryEntries
    BY <2>1 DEF HistoryEntries
  <2>3. alertHistory' \in Seq(HistoryEntries) /\ LengthInv'
    BY <1>5, <1>7, <2>2 DEF TakeEscalation
  <2>4. QED
    BY <1>7, <2>3 DEF TakeEscalation, TypeInv
<1>8. ASSUME NEW c \in Chains, Escalate(c) PROVE TypeInv' /\ LengthInv'
  <2>1. escalation' \in Chains \cup {Nil} /\ due' \subseteq Chains
    BY <1>8 DEF Escalate, TypeInv
  <2>2. QED
    BY <1>8, <2>1 DEF Escalate, TypeInv, LengthInv
<1>9. ASSUME NEW found \in SUBSET Watched, Scan(found) PROVE TypeInv' /\ LengthInv'
  BY <1>9, DashboardAssumption DEF Scan, TypeInv, LengthInv
<1>10. ASSUME NEW c \in Chains, RpcFails(c) PROVE TypeInv' /\ LengthInv'
  BY <1>10 DEF RpcFails, TypeInv, LengthInv
<1>11. ASSUME NEW c \in Chains, ToggleSilence(c) PROVE TypeInv' /\ LengthInv'
  <2>1. silenced' \in [Chains -> BOOLEAN]
    BY <1>11 DEF ToggleSilence, TypeInv
  <2>2. QED
    BY <1>11, <2>1 DEF ToggleSilence, TypeInv, LengthInv
<1>12. ASSUME NEW c \in Chains, Change(c) PROVE TypeInv' /\ LengthInv'
  <2>1. condition' \in [Chains -> BOOLEAN]
    BY <1>12 DEF Change, TypeInv
  <2>2. QED
    BY <1>12, <2>1 DEF Change, TypeInv, LengthInv
<1>13. ASSUME NEW c \in Chains,
              Publish(c) \/ \E poolOk, infoOk, directory \in BOOLEAN :
                                Refresh(c, poolOk, infoOk, directory)
       PROVE  TypeInv' /\ LengthInv'
  BY <1>13 DEF Publish, Refresh, TypeInv, LengthInv
<1>14. ASSUME Notify \/ NotifyLogs \/ OtherLine \/ TakeStatus \/ TakeLog
       PROVE  TypeInv' /\ LengthInv'
  BY <1>14 DEF Notify, NotifyLogs, OtherLine, TakeStatus, TakeLog, TypeInv, LengthInv
<1>15. QED
  BY <1>1, <1>2, <1>3, <1>4, <1>6, <1>7, <1>8, <1>9, <1>10, <1>11, <1>12, <1>13, <1>14 DEF Next

\* A step that changes neither alarms, calls nor the history.
LEMMA StoryUntouched ==
    ASSUME StoryInv, UNCHANGED <<setup, alarm, restored, call, alertHistory>>
    PROVE  StoryInv'
BY SameHistory DEF StoryInv, Story, Ending, Booking

\* A step of one chain that leaves the history and the other chains alone.
LEMMA StoryOfOne ==
    ASSUME StoryInv, UNCHANGED <<setup, alertHistory>>, NEW c \in Chains,
           \A d \in Chains \ {c} : alarm'[d] = alarm[d] /\ call'[d] = call[d],
           restored' \cup {c} = restored \cup {c},
           c \in Watched /\ ~setup.hideLogs => Story(c)'
    PROVE  StoryInv'
<1> SUFFICES ASSUME ~setup.hideLogs, NEW d \in Watched PROVE Story(d)'
  BY DEF StoryInv
<1>1. CASE d = c
  BY <1>1
<1>2. CASE d # c
  <2>1. d \in Chains /\ (d \in restored' <=> d \in restored)
    BY <1>2, DashboardAssumption
  <2>2. QED
    BY <1>2, <2>1, SameHistory DEF StoryInv, Story, Ending, Booking
<1>3. QED
  BY <1>1, <1>2

\* An entry of the sweep is an alert: it can only make the history say less is over.
LEMMA TakeEscalationStep ==
    ASSUME TypeInv, LengthInv, StoryInv, TakeEscalation
    PROVE  StoryInv'
<1>1. escalation \in Chains /\ UNCHANGED <<setup, alarm, restored, call>>
  BY DEF TakeEscalation, TypeInv, alarms
<1>2. alertHistory' = Pushed([chain |-> escalation, resolved |-> FALSE])
  BY DEF TakeEscalation
<1>3. \A d : (Over(d)' => Over(d)) /\ (Mentioned(d) => Mentioned(d)')
  <2>1. PICK c \in Chains : c = escalation
    BY <1>1
  <2>2. TAKE d
  <2>3. alertHistory' = Pushed([chain |-> c, resolved |-> FALSE]) /\ FALSE \in BOOLEAN
    BY <1>2, <2>1
  <2>4. QED
    BY <2>3, PushTells
<1>4. QED
  BY <1>1, <1>3 DEF StoryInv, Story, Ending, Booking

\* The aggregator has the entry of a call: an alert is not over, and a resolution is one
\* that the call is about to book.
LEMMA TakeHistoryStep ==
    ASSUME TypeInv, LengthInv, StoryInv, NEW c \in Chains, TakeHistory(c)
    PROVE  StoryInv'
<1>1. UNCHANGED <<setup, alarm, restored>>
  BY DEF TakeHistory, alarms
<1>2. /\ call'[c] # Nil /\ call'[c].at = "book" /\ call'[c].resolved = call[c].resolved
      /\ call[c].resolved \in BOOLEAN
      /\ \A d \in Chains \ {c} : call'[d] = call[d]
  BY CallMoves DEF TakeHistory
<1>3. \A d : /\ Over(d)' => IF d = c THEN call[c].resolved ELSE Over(d)
             /\ d = c \/ Mentioned(d) => Mentioned(d)'
  <2>1. PICK b \in BOOLEAN : b = call[c].resolved
    BY <1>2
  <2>2. TAKE d
  <2>3. alertHistory' = Pushed([chain |-> c, resolved |-> b])
    BY <2>1 DEF TakeHistory
  <2>4. QED
    BY <2>1, <2>3, PushTells
<1> SUFFICES ASSUME ~setup.hideLogs, NEW d \in Watched PROVE Story(d)'
  BY <1>1 DEF StoryInv
<1>4. CASE d = c
  <2>1. Mentioned(d)'
    BY <1>3, <1>4
  <2>2. Over(d)' => Ending(d)'
    BY <1>2, <1>3, <1>4 DEF Ending
  <2>3. Booking(d)' => ~Over(d)'
    BY <1>2, <1>3, <1>4 DEF Booking
  <2>4. QED
    BY <2>1, <2>2, <2>3 DEF Story
<1>5. CASE d # c
  <2>1. d \in Chains
    BY DashboardAssumption
  <2>2. call'[d] = call[d]
    BY <1>2, <1>5, <2>1
  <2>3. QED
    BY <1>1, <1>3, <1>5, <2>2 DEF StoryInv, Story, Ending, Booking
<1>6. QED
  BY <1>4, <1>5

\* The call books what it told: a resolve removes the alarm, an alert was told of as such.
LEMMA BookStep ==
    ASSUME TypeInv, StoryInv, NEW c \in Chains, Book(c)
    PROVE  StoryInv'
<1>1. /\ UNCHANGED <<setup, alertHistory>>
      /\ call[c] # Nil /\ call[c].at = "book" /\ call'[c] = Nil
      /\ alarm'[c] = Booked(c)
      /\ \A d \in Chains \ {c} : call'[d] = call[d] /\ alarm'[d] = alarm[d]
  BY DEF Book, TypeInv, aggregator
<1>2. restored' \cup {c} = restored \cup {c}
  BY DEF Book
<1>3. ASSUME c \in Watched, ~setup.hideLogs PROVE Story(c)'
  <2>1. Story(c)
    BY <1>3 DEF StoryInv
  <2>2. alarm'[c] => Booking(c)
    BY <1>1 DEF Booked, Booking
  <2>3. alarm'[c] => ~Over(c)' /\ Mentioned(c)'
    BY <1>1, <2>1, <2>2, SameHistory DEF Story
  <2>4. ~Booking(c)'
    BY <1>1 DEF Booking
  <2>5. QED
    BY <2>3, <2>4 DEF Story
<1>4. QED
  BY <1>1, <1>2, <1>3, StoryOfOne

\* A call that begins, or logs that it is silenced, is not yet about to book.
LEMMA CallStep ==
    ASSUME TypeInv, StoryInv, NEW c \in Chains,
           Evaluate(c) \/ EvaluateUngated(c) \/ LogSilenced(c)
    PROVE  StoryInv'
<1>1. /\ UNCHANGED <<setup, alarm, restored, alertHistory>>
      /\ \A d \in Chains \ {c} : call'[d] = call[d]
      /\ ~Ending(c) /\ (~setup.hideLogs => call'[c].at # "book")
  <2>1. CASE Evaluate(c) \/ EvaluateUngated(c)
    BY <2>1, Evaluators, BeginTypes DEF Ending
  <2>2. CASE LogSilenced(c)
    <3>1. AfterLog \in {"history", "book"} /\ (~setup.hideLogs => AfterLog # "book")
      BY DEF AfterLog
    <3>2. call[c] # Nil /\ call[c].at = "log" /\ call' = [call EXCEPT ![c].at = AfterLog]
      BY <2>2 DEF LogSilenced
    <3>3. call'[c].at = AfterLog /\ \A d \in Chains \ {c} : call'[d] = call[d]
      BY <3>1, <3>2, CallMoves
    <3>4. QED
      BY <2>2, <3>1, <3>2, <3>3 DEF LogSilenced, alarms, aggregator, Ending
  <2>3. QED
    BY <2>1, <2>2
<1>2. ASSUME c \in Watched, ~setup.hideLogs PROVE Story(c)'
  <2>1. Story(c) /\ ~Ending(c)
    BY <1>1, <1>2 DEF StoryInv
  <2>2. ~Booking(c)'
    BY <1>1, <1>2 DEF Booking
  <2>3. QED
    BY <1>1, <2>1, <2>2, SameHistory DEF Story
<1>3. \A d \in Chains \ {c} : alarm'[d] = alarm[d] /\ call'[d] = call[d]
  BY <1>1
<1>4. QED
  BY <1>1, <1>2, <1>3, StoryOfOne

\* clearAll: there is no alarm to be told of.
LEMMA RpcFailsStep ==
    ASSUME TypeInv, StoryInv, NEW c \in Chains, RpcFails(c)
    PROVE  StoryInv'
<1>1. /\ UNCHANGED <<setup, alertHistory, call>>
      /\ ~alarm'[c] /\ \A d \in Chains \ {c} : alarm'[d] = alarm[d]
      /\ restored' \cup {c} = restored \cup {c}
  BY DEF RpcFails, TypeInv, aggregator
<1>2. ASSUME c \in Watched, ~setup.hideLogs PROVE Story(c)'
  BY <1>1, <1>2, SameHistory DEF StoryInv, Story, Booking
<1>3. QED
  BY <1>1, <1>2, StoryOfOne

\* Every step preserves the story.
LEMMA StoryStep ==
    ASSUME TypeInv, LengthInv, StoryInv, [Next]_vars
    PROVE  StoryInv'
<1>1. CASE UNCHANGED vars
  BY <1>1, StoryUntouched DEF vars, alarms, aggregator
<1>2. ASSUME NEW c \in Chains,
             Escalate(c) \/ Publish(c) \/ ToggleSilence(c) \/ Change(c)
                \/ \E poolOk, infoOk, directory \in BOOLEAN : Refresh(c, poolOk, infoOk, directory)
      PROVE  StoryInv'
  BY <1>2, StoryUntouched DEF Escalate, Publish, ToggleSilence, Change, Refresh, alarms,
                              aggregator
<1>3. ASSUME NEW found, Scan(found) PROVE StoryInv'
  BY <1>3, StoryUntouched DEF Scan, alarms, aggregator
<1>4. ASSUME Notify \/ NotifyLogs \/ OtherLine \/ TakeStatus \/ TakeLog PROVE StoryInv'
  BY <1>4, StoryUntouched DEF Notify, NotifyLogs, OtherLine, TakeStatus, TakeLog, alarms,
                              aggregator
<1>5. QED
  BY <1>1, <1>2, <1>3, <1>4, CallStep, BookStep, RpcFailsStep, TakeHistoryStep,
     TakeEscalationStep DEF Next

\* At the start the history is empty and every alarm is a restored one.
LEMMA InitHolds == Init => TypeInv /\ LengthInv /\ StoryInv
<1> SUFFICES ASSUME Init PROVE TypeInv /\ LengthInv /\ StoryInv
  OBVIOUS
<1>1. alarm \in [Chains -> BOOLEAN]
  BY DEF Init
<1>2. TypeInv
  BY <1>1, DashboardAssumption DEF Init, TypeInv
<1>3. Len(alertHistory) = 0 /\ DOMAIN alertHistory = {}
  BY DEF Init
<1>4. LengthInv
  BY <1>3, DashboardAssumption DEF LengthInv
<1>5. ASSUME NEW c \in Watched PROVE Story(c)
  <2>1. ~Over(c) /\ call[c] = Nil /\ (alarm[c] => c \in restored)
    BY <1>3, DashboardAssumption DEF Init, Over
  <2>2. QED
    BY <2>1 DEF Story, Booking
<1>6. QED
  BY <1>2, <1>4, <1>5 DEF StoryInv

-----------------------------------------------------------------------------
(* The theorem *)

\* The alert history never says of an active alarm that it is over, except while the call
\* of alert() that ends it is under way, and it mentions every active alarm of this run that
\* has not been pushed out: for any number of chains and any length of the history, whoever
\* hands in entries, in whatever order, through silences, clearAll and restarts.
THEOREM HistoryTheorem == Spec => []ActiveIsNotReportedOver
<1>1. Spec => [](TypeInv /\ LengthInv /\ StoryInv)
  <2>1. TypeInv /\ LengthInv /\ StoryInv /\ [Next]_vars => (TypeInv /\ LengthInv /\ StoryInv)'
    BY TypeStep, StoryStep
  <2>2. QED
    BY <2>1, InitHolds, PTL DEF Spec
<1>2. LengthInv /\ StoryInv => ActiveIsNotReportedOver
  BY DEF LengthInv, StoryInv, Story, ActiveIsNotReportedOver
<1>3. QED
  BY <1>1, <1>2, PTL
=============================================================================
