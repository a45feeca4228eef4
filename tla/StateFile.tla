----------------------------- MODULE StateFile -----------------------------
(***************************************************************************)
(* What outlives the process: saveOnExit writes the alarm maps and the      *)
(* silence windows to the state file, loadConfig reads them back. Whatever  *)
(* else is restored (nodes, blocks) belongs to NodeHealth and BlockStream.  *)
(*                                                                          *)
(* One alarm of one chain, other than a proposal's, is followed through one *)
(* channel. A message is approved by shouldNotify, which records it in the  *)
(* Sent map, and posted later: much later if the digester buffers it. A     *)
(* post that fails is logged and not tried again. Messages do not overtake  *)
(* each other here; that they can is AlertPipeline's matter.                *)
(*                                                                          *)
(* A behaviour is orderly if the process only ends on a signal that arrives *)
(* while no message is on its way, and no message and no request for a      *)
(* silence comes in between the save and the exit. If not, it may end in    *)
(* any state, also in the middle of the save, as it does when a map is      *)
(* written while it is being marshalled.                                    *)
(***************************************************************************)
EXTENDS Naturals

CONSTANTS
    StaleHours,   \* staleHours, in ticks
    MaxSilence,   \* maxSilenceMinutes, in ticks
    Nil,          \* no entry in a map, no message, no usable file
    MaxStops,     \* bound: ends of the process
    MaxSilences   \* bound: calls of silenceChain

\* Ages of entries, a message, what is marshalled first, and a whole state file.
Ages == 0..StaleHours
Says == {"alert", "resolve"}
Messages == [says : Says, at : {"new", "approved"}]
Captures == [silence : 0..MaxSilence, Sent : Ages \cup {Nil}]
Files == [silence : 0..MaxSilence, Sent : Ages \cup {Nil}, AllAlarms : Ages \cup {Nil}]

\* PagerDuty, another channel, and one whose threshold the alarm's severity does not reach.
Channels == {"pd", "text", "filtered"}

ASSUME StateFileAssumption ==
    /\ StaleHours \in Nat \ {0} /\ MaxSilence \in Nat
    /\ MaxStops \in Nat /\ MaxSilences \in Nat
    /\ Nil \notin Nat \cup Says /\ Nil \notin Messages
    /\ Nil \notin Captures /\ Nil \notin Files

VARIABLES
    orderly,    \* the kind of behaviour
    channel,    \* the kind of channel
    condition,  \* what the evaluator of the alarm reads
    process,    \* "up", the stages of its exit, or "down"
    AllAlarms,  \* age of the alarm's entry in AllAlarms
    Sent,       \* age of its entry in the channel's Sent map
    flapping,   \* PagerDuty was alerted in the last five minutes
    message,    \* the message on its way
    booking,    \* alert() has still to update AllAlarms
    told,       \* the last the channel was told is that the alarm is on
    silence,    \* ticks until silencedUntil
    file,       \* the state file
    captured,   \* what has been marshalled so far
    last,       \* history: what shouldNotify approved last
    behind,     \* history: which of capture and file do not have that, or the last booking
    excused,    \* history: why the maps may since have lost or regained an entry
    failed,     \* history: a message, none having been approved since, was lost
    asked,      \* history: ticks until the end of the silence last asked for
    longest,    \* history: the same for the one that ends last
    stops, silences

setting == <<orderly, channel>>
memory == <<AllAlarms, Sent, flapping, message, booking, silence>>
notices == <<told, last, behind, excused, failed>>
requests == <<asked, longest>>
bounds == <<stops, silences>>
vars == <<setting, condition, process, memory, file, captured, notices, requests, bounds>>

Older(age) == IF age \in Nat /\ age < StaleHours THEN age + 1 ELSE age
Sooner(n) == IF n > 0 THEN n - 1 ELSE 0

Running == process # "down"
Quiet == message = Nil /\ booking = Nil

-----------------------------------------------------------------------------
(* alert(), shouldNotify and the post *)

Acts == Quiet /\ (process = "up" \/ (Running /\ ~orderly))

\* alert() passes a message on, unless the chain is silenced, and will book it.
Emit(says) ==
    /\ message' = IF silence = 0 THEN [says |-> says, at |-> "new"] ELSE Nil
    /\ booking' = says
    /\ UNCHANGED <<setting, condition, process, AllAlarms, Sent, flapping, silence, file,
                   captured, notices, requests, bounds>>

\* Mutated: a silenced alert is not sent but is booked all the same.
RaiseMutant == Acts /\ condition /\ AllAlarms = Nil /\ Emit("alert")

\* A silenced alert leaves no trace and is tried again at the next turn of watch.
Raise == Acts /\ condition /\ AllAlarms = Nil /\ silence = 0 /\ Emit("alert")

\* Mutated: only what the channel was told of is resolved.
ResolveMutant == Acts /\ ~condition /\ AllAlarms # Nil /\ Sent # Nil /\ Emit("resolve")

\* A silenced resolve still removes the alarm.
Resolve == Acts /\ ~condition /\ AllAlarms # Nil /\ Emit("resolve")

Book ==
    /\ booking # Nil
    /\ AllAlarms' = IF booking = "alert" THEN 0 ELSE Nil
    /\ booking' = Nil
    /\ behind' = behind \cup {"file"}
    /\ UNCHANGED <<setting, condition, process, Sent, flapping, message, silence, file,
                   captured, told, last, excused, failed, requests, bounds>>

\* shouldNotify approves an alert that was not sent, and a resolve of one that was, if
\* the severity reaches the threshold. PagerDuty is not alerted twice in five minutes.
shouldNotify(says) ==
    /\ channel # "filtered"
    /\ says = "alert" <=> Sent = Nil
    /\ ~(channel = "pd" /\ says = "alert" /\ flapping)

Approve ==
    /\ message # Nil /\ message.at = "new" /\ shouldNotify(message.says)
    /\ Sent' = IF message.says = "alert" THEN 0 ELSE Nil
    /\ flapping' = (flapping \/ (channel = "pd" /\ message.says = "alert"))
    /\ message' = [message EXCEPT !.at = "approved"]
    /\ last' = message.says /\ behind' = {"capture", "file"}
    /\ excused' = {} /\ failed' = FALSE
    /\ UNCHANGED <<setting, condition, process, AllAlarms, booking, told, silence, file,
                   captured, requests, bounds>>

Reject ==
    /\ message # Nil /\ message.at = "new" /\ ~shouldNotify(message.says)
    /\ message' = Nil
    /\ UNCHANGED <<setting, condition, process, AllAlarms, Sent, flapping, booking, silence,
                   file, captured, notices, requests, bounds>>

\* The notifier, or a flush of the digester. A webhook's resolves may be disabled.
Posted(success) ==
    /\ message # Nil /\ message.at = "approved"
    /\ message' = Nil
    /\ IF success THEN told' = (message.says = "alert") /\ UNCHANGED failed
                  ELSE failed' = TRUE /\ UNCHANGED told
    /\ UNCHANGED <<setting, condition, process, AllAlarms, Sent, flapping, booking, silence,
                   file, captured, last, behind, excused, requests, bounds>>

Post == \E success \in BOOLEAN : Posted(success)

FlapEnds ==
    /\ flapping
    /\ flapping' = FALSE
    /\ UNCHANGED <<setting, condition, process, AllAlarms, Sent, message, booking, silence,
                   file, captured, notices, requests, bounds>>

-----------------------------------------------------------------------------
(* silenceChain and unsilenceChain *)

SetSilence(n) ==
    /\ silence' = n /\ asked' = n
    /\ longest' = IF n > longest THEN n ELSE longest
    /\ UNCHANGED <<setting, condition, process, AllAlarms, Sent, flapping, message, booking,
                   file, captured, notices, stops>>

\* The save holds chainsMux from its capture to its end; a request that has waited for it
\* is served before the exit, too late for the file.
Serves == process \in {"up", "opened"} \/ (process = "exiting" /\ ~orderly)

\* Mutated: the limit of maxSilenceMinutes is off by one.
SilenceMutant ==
    /\ Serves /\ silences < MaxSilences
    /\ silences' = silences + 1
    /\ \E n \in 1..(MaxSilence + 1) : SetSilence(n)

Silence ==
    /\ Serves /\ silences < MaxSilences
    /\ silences' = silences + 1
    /\ \E n \in 1..MaxSilence : SetSilence(n)

Unsilence == Serves /\ silence > 0 /\ SetSilence(0) /\ UNCHANGED silences

-----------------------------------------------------------------------------
(* saveOnExit: the process is at work until td.cancel, after the save *)

Stop ==
    /\ process = "up" /\ stops < MaxStops
    /\ orderly => Quiet
    /\ stops' = stops + 1
    /\ \/ process' = "opened" /\ file' = Nil                      \* O_TRUNC
       \/ ~orderly /\ process' = "exiting" /\ UNCHANGED file      \* it cannot be opened
    /\ behind' = behind \cup {"file"}
    /\ UNCHANGED <<setting, condition, memory, captured, told, last, excused, failed, requests,
                   silences>>

\* What is captured of memory: the silences still in force, and the Sent maps.
Capture(sent) ==
    /\ process = "opened"
    /\ captured' = [silence |-> silence, Sent |-> sent]
    /\ behind' = behind \ {"capture"}
    /\ process' = "half"
    /\ UNCHANGED <<setting, condition, memory, file, told, last, excused, failed, requests,
                   bounds>>

\* Mutated: the Sent maps are not exported, like flappingAlarms.
MarshalSentMutant == Capture(Nil)

\* AllAlarms is marshalled last. notifyMux is not taken.
MarshalSent == Capture(Sent)

Write ==
    /\ process = "half"
    /\ file' = [silence |-> captured.silence, Sent |-> captured.Sent, AllAlarms |-> AllAlarms]
    /\ captured' = Nil
    /\ behind' = IF "capture" \in behind THEN {"capture", "file"} ELSE {}
    /\ process' = "exiting"
    /\ UNCHANGED <<setting, condition, memory, told, last, excused, failed, requests, bounds>>

Forget ==
    /\ AllAlarms' = Nil /\ Sent' = Nil /\ flapping' = FALSE
    /\ message' = Nil /\ booking' = Nil /\ silence' = 0
    /\ captured' = Nil
    /\ failed' = (failed \/ message # Nil)
    /\ behind' = IF booking = Nil THEN behind ELSE behind \cup {"file"}
    /\ process' = "down"

\* Run returns; messages that are still on their way, or buffered, are lost.
Exit ==
    /\ process = "exiting"
    /\ Forget
    /\ UNCHANGED <<setting, condition, file, told, last, excused, requests, bounds>>

\* The process is killed or panics, before or during the save.
Crash ==
    /\ ~orderly /\ process \in {"up", "opened", "half"}
    /\ process = "up" => stops < MaxStops
    /\ stops' = IF process = "up" THEN stops + 1 ELSE stops
    /\ Forget
    /\ UNCHANGED <<setting, condition, file, told, last, excused, requests, silences>>

-----------------------------------------------------------------------------
(* loadConfig *)

\* clearStale
Restored(age) == IF age = StaleHours THEN Nil ELSE age

Saved == IF file = Nil THEN [silence |-> 0, Sent |-> Nil, AllAlarms |-> Nil] ELSE file

\* Mutated: the end of a silence is counted from the start of the process.
RestoredSilenceMutant == IF Saved.silence > 0 THEN MaxSilence ELSE 0

RestoredSilence == Saved.silence

\* A file that is missing, empty or damaged restores nothing. It is not removed.
\* The maps stray from what was approved and booked if an entry is dropped as stale, or if
\* the file does not have the last approval or booking.
Start ==
    /\ process = "down"
    /\ process' = "up"
    /\ AllAlarms' = Restored(Saved.AllAlarms) /\ Sent' = Restored(Saved.Sent)
    /\ silence' = RestoredSilence
    /\ excused' = excused \cup {why \in {"stale", "unsaved"} :
                                IF why = "stale" THEN Saved.Sent = StaleHours
                                                 ELSE "file" \in behind}
    /\ UNCHANGED <<setting, condition, flapping, message, booking, file, captured, told, last,
                   behind, failed, requests, bounds>>

-----------------------------------------------------------------------------
(* Time and the monitored condition *)

Aged(r) == [r EXCEPT !.silence = Sooner(@), !.Sent = Older(@), !.AllAlarms = Older(@)]

\* The save takes no time.
Tick ==
    /\ process \in {"up", "down"}
    /\ AllAlarms' = Older(AllAlarms) /\ Sent' = Older(Sent)
    /\ silence' = Sooner(silence) /\ asked' = Sooner(asked) /\ longest' = Sooner(longest)
    /\ file' = IF file = Nil THEN Nil ELSE Aged(file)
    /\ UNCHANGED <<setting, condition, process, flapping, message, booking, captured, notices,
                   bounds>>

Change ==
    /\ condition' = ~condition
    /\ UNCHANGED <<setting, process, memory, file, captured, notices, requests, bounds>>

Init ==
    /\ orderly \in BOOLEAN /\ channel \in Channels /\ condition \in BOOLEAN
    /\ process = "up" /\ file = Nil /\ captured = Nil
    /\ AllAlarms = Nil /\ Sent = Nil /\ flapping = FALSE /\ message = Nil /\ booking = Nil
    /\ told = FALSE /\ last = "resolve" /\ behind = {} /\ excused = {} /\ failed = FALSE
    /\ silence = 0 /\ asked = 0 /\ longest = 0
    /\ stops = 0 /\ silences = 0

Next ==
    \/ Raise \/ Resolve \/ Book \/ Approve \/ Reject \/ Post \/ FlapEnds
    \/ Silence \/ Unsilence
    \/ Stop \/ MarshalSent \/ Write \/ Exit \/ Crash \/ Start
    \/ Tick \/ Change

Spec == Init /\ [][Next]_vars

\* The goroutines run, a save that has begun ends, the process is started again by its
\* supervisor, and time passes.
FairSpec ==
    /\ Spec
    /\ WF_vars(Raise) /\ WF_vars(Resolve) /\ WF_vars(Book)
    /\ WF_vars(Approve) /\ WF_vars(Reject) /\ WF_vars(Post)
    /\ WF_vars(MarshalSent) /\ WF_vars(Write) /\ WF_vars(Exit) /\ WF_vars(Start)
    /\ WF_vars(Tick)

-----------------------------------------------------------------------------
(* Properties *)

\* Every variable keeps its type.
TypeOK ==
    /\ orderly \in BOOLEAN /\ condition \in BOOLEAN /\ flapping \in BOOLEAN
    /\ channel \in Channels
    /\ told \in BOOLEAN /\ failed \in BOOLEAN
    /\ last \in Says /\ behind \subseteq {"capture", "file"} /\ excused \subseteq {"stale", "unsaved"}
    /\ process \in {"up", "opened", "half", "exiting", "down"}
    /\ AllAlarms \in Ages \cup {Nil} /\ Sent \in Ages \cup {Nil}
    /\ message \in Messages \cup {Nil}
    /\ booking \in Says \cup {Nil}
    /\ {silence, asked, longest} \subseteq 0..MaxSilence
    /\ file \in Files \cup {Nil} /\ captured \in Captures \cup {Nil}
    /\ stops \in 0..MaxStops /\ silences \in 0..MaxSilences

Approves == message # Nil /\ message.at = "new" /\ message' # Nil /\ message'.at = "approved"

\* "restore alarm state to prevent duplicate alerts": across all restarts, alerts and
\* resolves are approved in turns. The same is approved twice only if an entry has gone
\* stale in the file, or, in a behaviour that is not orderly, if the last approval is not
\* in the file.
NothingTwice ==
    [][Approves => \/ message.says # last
                   \/ "stale" \in excused
                   \/ "unsaved" \in excused /\ ~orderly]_vars

\* The channel is told of a condition that lasts, unless the message about it is lost in
\* a post that fails or with the process, or, in a behaviour that is not orderly, the file
\* that the process started with does not have the last approval: an alert that was
\* resolved meanwhile is then taken for sent. (PagerDuty may suppress the alert as
\* flapping for good.)
ConditionIsTold ==
    <>[](channel = "text" /\ condition) =>
        <>[](told \/ failed \/ ("unsaved" \in excused /\ ~orderly))

\* However the process ends and whatever the file then holds (nothing, an old state, or
\* maps taken at different times), the alarm follows a condition that lasts.
AlarmFollowsCondition ==
    /\ <>[]condition => <>[](AllAlarms # Nil)
    /\ <>[]~condition => <>[](AllAlarms = Nil)

\* A silence survives an orderly restart unchanged, the time the process was down
\* included. After a crash it may be gone, and one that was lifted may be back from an
\* older file, but none lasts longer than it was asked for.
SilenceSurvives ==
    process = "up" => /\ silence <= longest
                      /\ orderly => silence = asked
=============================================================================
