------------------------------ MODULE Console ------------------------------
(***************************************************************************)
(* The console tool: a command is queued for the main thread, between two  *)
(* fences when its output is to be captured; a later read cuts the lines   *)
(* between the fences out of the console's log.  The back end publishes an *)
(* event for every command, the player's own ones included.                *)
(***************************************************************************)
EXTENDS Integers, Sequences, FiniteSets, SequencesExt

CONSTANTS
    Requests,    \* the exec requests, each made once
    Captured,    \* those with capture=true
    MaxCaptures, MaxPending, MaxLines,
    MaxLog,      \* the entries the native log keeps
    MaxTyped,    \* bound on what the player types and the game prints
    None

VARIABLES
    observer,  \* the back end: "fallout4", or "skyrimse" whose hook sees all commands
    captures,  \* captureOrder, with the captures
    pending,   \* pendingSubmissions
    at,        \* at[r]: "idle", "admitted", "queued", "fenced", "executed", "run" or "refused"
    tasks,     \* the main thread's tasks: the submissions, first in first out
    log,       \* the native log: fences and lines
    brokered,  \* pendingBroker_ of the Skyrim back end
    typed,     \* how often the player has typed a command
    lines,     \* how often the game has printed a line
    reading,   \* reading[r]: a capture was looked up, and not yet read
    read,      \* read[r]: what a read of the capture has last returned
    window,    \* history: the lines logged between the fences of r
    events     \* history: events[source]: the commands published

toolVars == <<captures, pending, at>>
logVars == <<log, brokered, window, events>>
vars == <<observer, toolVars, tasks, logVars, typed, lines, reading, read>>

Init ==
    /\ observer \in {"fallout4", "skyrimse"}
    /\ captures = <<>> /\ pending = 0
    /\ at = [r \in Requests |-> "idle"]
    /\ tasks = <<>> /\ log = <<>> /\ brokered = <<>> /\ typed = 0 /\ lines = 0
    /\ reading = [r \in Requests |-> FALSE]
    /\ read = [r \in Requests |-> None]
    /\ window = [r \in Requests |-> None]
    /\ events = [broker |-> <<>>, typed |-> <<>>]

-----------------------------------------------------------------------------
Begin(r) == [kind |-> "begin", of |-> r]
End(r) == [kind |-> "end", of |-> r]
Line(r) == [kind |-> "line", of |-> r]

Places(buffer, entry) == {i \in DOMAIN buffer : buffer[i] = entry}

\* The reader keeps the latest lines.
Latest(all) == SubSeq(all, Max({1, Len(all) - MaxLines + 1}), Len(all))

\* Slip: fences that do not carry the number of their capture.
ExtractAny(buffer, r) ==
    LET begin == Max({i \in DOMAIN buffer : buffer[i].kind = "begin"} \union {0})
        ends == {i \in DOMAIN buffer : buffer[i].kind = "end" /\ i > begin}
    IN IF begin = 0 \/ ends = {} THEN None ELSE Latest(SubSeq(buffer, begin + 1, Min(ends) - 1))

\* ExtractConsoleCapture: from the last begin fence to the first end after it.
Extract(buffer, r) ==
    LET begins == Places(buffer, Begin(r))
        begin == Max(begins)
        ends == {i \in Places(buffer, End(r)) : i > begin}
        cut == SubSeq(buffer, begin + 1, Min(ends) - 1)
    IN IF begins = {} \/ ends = {} THEN None
       ELSE Latest(cut)

\* AddCapture, which lets the oldest captures go, and RemoveCapture; no number is there twice.
AddCapture(r) ==
    LET order == Append(captures, r)
    IN SubSeq(order, Max({1, Len(order) - MaxCaptures + 1}), Len(order))

RemoveCapture(r) == RemoveFirst(captures, r)

-----------------------------------------------------------------------------
(* HandleConsole: exec.                                                    *)

Admit(r) ==
    /\ at[r] = "idle" /\ pending < MaxPending
    /\ pending' = pending + 1
    /\ captures' = IF r \in Captured THEN AddCapture(r) ELSE captures
    /\ at' = [at EXCEPT ![r] = "admitted"]
    /\ UNCHANGED <<observer, tasks, logVars, typed, reading, read>>

TooMany(r) ==
    /\ at[r] = "idle" /\ pending >= MaxPending
    /\ at' = [at EXCEPT ![r] = "refused"]
    /\ UNCHANGED <<observer, captures, pending, tasks, logVars, typed, reading, read>>

Queue(r) ==
    /\ at[r] = "admitted"
    /\ tasks' = Append(tasks, r)
    /\ at' = [at EXCEPT ![r] = "queued"]
    /\ UNCHANGED <<observer, captures, pending, logVars, typed, reading, read>>

\* Slip: the refused queueing forgets the place it took.
NotQueuedKeeps(r) ==
    /\ at[r] = "admitted"
    /\ captures' = RemoveCapture(r)
    /\ at' = [at EXCEPT ![r] = "refused"]
    /\ UNCHANGED <<observer, pending, tasks, logVars, typed, reading, read>>

\* The task interface is gone, or AddTask throws: the completion never runs.
NotQueued(r) ==
    /\ at[r] = "admitted"
    /\ pending' = Max({pending - 1, 0})
    /\ captures' = RemoveCapture(r)
    /\ at' = [at EXCEPT ![r] = "refused"]
    /\ UNCHANGED <<observer, tasks, logVars, typed, reading, read>>

-----------------------------------------------------------------------------
(* The main thread.                                                        *)

\* The log drops its oldest entries.
Logged(entries) ==
    LET all == log \o entries
    IN SubSeq(all, Max({1, Len(all) - MaxLog + 1}), Len(all))

Published(source, command) == [events EXCEPT ![source] = Append(@, command)]

\* OnConsoleCall of the Skyrim back end sees the commands of both: one that the
\* broker has just marked is its own, and its mark goes.
ConsumeBroker(marked, command) == RemoveFirst(marked, command)

\* Slip: what the hook sees is taken for typed.
ObserveAll(command) ==
    /\ brokered' = <<>>
    /\ events' = [Published("broker", command) EXCEPT !.typed = Append(@, command)]

\* MarkBroker, ExecuteCommand with its hook, PublishBroker; in Fallout 4 the
\* hook is on the menu's own handler, which the broker does not pass.
Observe(command) ==
    /\ brokered' = IF observer = "skyrimse"
                   THEN ConsumeBroker(Append(brokered, command), command) ELSE brokered
    /\ events' = Published("broker", command)

\* One submission: its fences are commands too, which are not published.
RunBegin ==
    /\ tasks # <<>> /\ at[Head(tasks)] = "queued"
    /\ LET r == Head(tasks)
       IN /\ log' = IF r \in Captured THEN Logged(<<Begin(r)>>) ELSE log
          /\ window' = [window EXCEPT ![r] = <<>>]
          /\ at' = [at EXCEPT ![r] = "fenced"]
    /\ UNCHANGED <<observer, captures, pending, tasks, brokered, events, typed, reading, read>>

RunCommand ==
    /\ tasks # <<>> /\ at[Head(tasks)] = "fenced"
    /\ LET r == Head(tasks)
       IN /\ log' = Logged(<<Line(r)>>)
          /\ window' = [window EXCEPT ![r] = Append(@, Line(r))]
          /\ Observe(r)
          /\ at' = [at EXCEPT ![r] = "executed"]
    /\ UNCHANGED <<observer, captures, pending, tasks, typed, reading, read>>

\* The completion runs as the task ends, even by an exception.
RunEnd ==
    /\ tasks # <<>> /\ at[Head(tasks)] = "executed"
    /\ LET r == Head(tasks)
       IN /\ log' = IF r \in Captured THEN Logged(<<End(r)>>) ELSE log
          /\ at' = [at EXCEPT ![r] = "run"]
    /\ tasks' = Tail(tasks)
    /\ pending' = Max({pending - 1, 0})
    /\ UNCHANGED <<observer, captures, brokered, window, events, typed, reading, read>>

\* The player types a command, while no task runs on the main thread.
Typed ==
    /\ typed < MaxTyped
    /\ \A r \in Requests : at[r] \notin {"fenced", "executed"}
    /\ typed' = typed + 1
    /\ log' = Logged(<<Line("player")>>)
    /\ events' = Published("typed", "player")
    /\ UNCHANGED <<observer, toolVars, tasks, brokered, window, reading, read>>

\* A thread of the game prints a line, or one that was late arrives.
Prints ==
    /\ lines < MaxTyped
    /\ lines' = lines + 1
    /\ log' = Logged(<<Line("game")>>)
    /\ window' = [r \in Requests |-> IF at[r] \in {"fenced", "executed"}
                                    THEN Append(window[r], Line("game")) ELSE window[r]]
    /\ UNCHANGED <<observer, toolVars, tasks, brokered, events, typed, reading, read>>

-----------------------------------------------------------------------------
(* HandleConsole: read.  The capture is copied under the lock; the log is  *)
(* read later, by a task on the main thread.                               *)

LookUp(r) ==
    /\ ~reading[r] /\ Contains(captures, r)
    /\ reading' = [reading EXCEPT ![r] = TRUE]
    /\ UNCHANGED <<observer, toolVars, tasks, logVars, typed, read>>

ReadBuffer(r) ==
    /\ reading[r]
    /\ reading' = [reading EXCEPT ![r] = FALSE]
    /\ read' = [read EXCEPT ![r] = Extract(log, r)]
    /\ UNCHANGED <<observer, toolVars, tasks, logVars, typed>>

Next ==
    \/ \E r \in Requests : (\/ Admit(r) \/ TooMany(r) \/ Queue(r) \/ NotQueued(r)
                            \/ LookUp(r) \/ ReadBuffer(r)) /\ UNCHANGED lines
    \/ (RunBegin \/ RunCommand \/ RunEnd \/ Typed) /\ UNCHANGED lines
    \/ Prints

Spec == Init /\ [][Next]_vars

-----------------------------------------------------------------------------
Entries == [kind : {"begin", "end", "line"}, of : Requests \union {"player", "game"}]

ConsoleAssumption ==
    /\ IsFiniteSet(Requests) /\ Captured \subseteq Requests
    /\ {MaxCaptures, MaxPending, MaxLines, MaxLog, MaxTyped} \subseteq Nat
    /\ None \notin Seq(Entries)

\* The shape of every variable: what the broker marked is consumed before it is seen.
TypeOK ==
    /\ observer \in {"fallout4", "skyrimse"}
    /\ captures \in Seq(Captured) /\ IsInjective(captures) /\ Len(captures) <= MaxCaptures
    /\ pending \in 0..MaxPending /\ typed \in 0..MaxTyped /\ lines \in 0..MaxTyped
    /\ at \in [Requests -> {"idle", "admitted", "queued", "fenced", "executed", "run", "refused"}]
    /\ tasks \in Seq(Requests) /\ log \in Seq(Entries) /\ Len(log) <= MaxLog /\ brokered = <<>>
    /\ reading \in [Requests -> BOOLEAN]
    /\ read \in [Requests -> Seq(Entries) \union {None}]
    /\ window \in [Requests -> Seq(Entries) \union {None}]
    /\ events \in [broker : Seq(Requests), typed : Seq({"player"})]

\* The count that admits submissions is that of the ones under way: both the
\* completion and the refused queueing lower it, and for each only one does.
PendingExact == pending = Cardinality({r \in Requests : at[r] \in {"admitted", "queued", "fenced", "executed"}})

\* A read that finds both fences returns what that command printed, whatever
\* was printed or dropped around it; and every command is published once, as
\* the broker's or the player's.
ReadsOwnWindow ==
    /\ \A r \in Requests : read[r] # None => window[r] # None /\ read[r] = Latest(window[r])
    /\ \A r \in Requests : Cardinality(Places(events.broker, r)) = (IF at[r] \in {"executed", "run"} THEN 1 ELSE 0)
    /\ Len(events.typed) = typed
=============================================================================
