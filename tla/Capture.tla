------------------------------ MODULE Capture ------------------------------
(***************************************************************************)
(* The capture tool.  A provider is handed an output path and the request  *)
(* polls the event ring and the file; a native screenshot is queued in the *)
(* game and recognised as the file that changed in the scanned folders,    *)
(* then moved.  Nothing is locked: requests meet in the file system, where *)
(* two checkpoints of one name share a path and any name shares a sidecar. *)
(***************************************************************************)
EXTENDS Integers, Sequences, FiniteSets, SequencesExt

CONSTANTS
    Requests,          \* the capture requests
    Stem,              \* Stem[r]: directory and checkpoint
    Extension,         \* Extension[k]: of the images of provider and native requests
    MaxRing,           \* the events the bus retains
    MaxNoise,          \* bound on other events
    None, Player

VARIABLES
    kind,     \* kind[r]: "provider" or "native"
    at,       \* at[r]: the line that request r has reached
    cursor,   \* cursor[r]: the last event read
    told,     \* told[r]: readyPayload is set
    gap,      \* gap[r]: eventGap is set
    sampled,  \* sampled[r]: the file an unchanged look at would complete, or None
    answer,   \* answer[r]: the result, or None
    ring, head, noise,  \* the event bus: the retained events, the last number, the others
    asked,    \* asked[r]: what the provider has done for r
    images,   \* images[path]: [of, whole], or None
    sidecars, \* sidecars[stem]: the request described there, or None
    slot,     \* the game's queued screenshot: a request, Player or None
    shots,    \* the files of the scanned folders
    before,   \* before[r]: these as r first saw them
    abandoned \* the requests of the capture.abandoned events

requestVars == <<kind, at, cursor, told, gap, sampled, answer, before, abandoned>>
busVars == <<ring, head, noise>>
fileVars == <<images, sidecars, shots>>
vars == <<requestVars, busVars, asked, fileVars, slot>>

Kinds == {"provider", "native"}
Path(r) == <<Stem[r], Extension[kind[r]]>>
Stems == {Stem[r] : r \in Requests}
Paths == Stems \X {Extension[k] : k \in Kinds}

Init ==
    /\ kind \in [Requests -> Kinds]
    /\ at = [r \in Requests |-> "idle"]
    /\ cursor = [r \in Requests |-> 0]
    /\ told = [r \in Requests |-> FALSE] /\ gap = [r \in Requests |-> FALSE]
    /\ sampled = [r \in Requests |-> None] /\ answer = [r \in Requests |-> None]
    /\ ring = <<>> /\ head = 0 /\ noise = 0
    /\ asked = [r \in Requests |-> "no"]
    /\ images = [p \in Paths |-> None] /\ sidecars = [s \in Stems |-> None]
    /\ slot = None /\ shots = {} /\ before = [r \in Requests |-> {}]
    /\ abandoned = {}

-----------------------------------------------------------------------------
\* Publish of the bus, which retains the latest events.
Publish(r, ok) ==
    LET all == Append(ring, [of |-> r, ok |-> ok, seq |-> head + 1])
    IN /\ ring' = SubSeq(all, Max({1, Len(all) - MaxRing + 1}), Len(all))
       /\ head' = head + 1

Moves(r, from, to) == at[r] = from /\ at' = [at EXCEPT ![r] = to]

\* A failure before the request was given away, or after its image was found:
\* nothing is published of either.
Fails(r) ==
    /\ at' = [at EXCEPT ![r] = "failed"]
    /\ UNCHANGED abandoned

\* PublishAbandoned, whose event no request waits for.
Abandons(r) ==
    /\ at' = [at EXCEPT ![r] = "failed"]
    /\ abandoned' = abandoned \union {r}

\* EnsureNewArtifactPaths.
NewArtifactPaths(r) == images[Path(r)] = None /\ sidecars[Stem[r]] = None

\* ProbeArtifact: a file that its writer still holds cannot be opened; one that
\* two looks find the same is complete.
Complete(file, sample) == file # None /\ file.whole /\ sample = file
Sample(file, sample) == IF file # None /\ file.whole THEN file ELSE sample

-----------------------------------------------------------------------------
(* Provider.                                                               *)

Begin(r) ==
    /\ at[r] = "idle" /\ kind[r] = "provider"
    /\ IF NewArtifactPaths(r) THEN Moves(r, "idle", "checked") /\ UNCHANGED abandoned
                              ELSE Fails(r)
    /\ UNCHANGED <<kind, cursor, told, gap, sampled, answer, before, busVars, asked, fileVars, slot>>

\* The bus's head is read before the provider's handler is called.
Dispatch(r) ==
    /\ Moves(r, "checked", "awaiting")
    /\ cursor' = [cursor EXCEPT ![r] = head]
    /\ asked' = [asked EXCEPT ![r] = "asked"]
    /\ UNCHANGED <<kind, told, gap, sampled, answer, before, abandoned, busVars, fileVars, slot>>

DispatchFails(r) ==
    /\ at[r] = "checked"
    /\ Abandons(r)
    /\ UNCHANGED <<kind, cursor, told, gap, sampled, answer, before, busVars, asked, fileVars, slot>>

\* Slip: a ready event of the same path is taken for the request's own.
ConcernsPath(event, r) == event.of \in Requests /\ Path(event.of) = Path(r)

\* ObserveReadyEvent tells a request by its number.
Concerns(event, r) == event.of = r

\* One turn of AwaitProviderArtifact: the events first ...
ReadEvents(r) ==
    /\ at[r] = "awaiting"
    /\ LET fresh == {e \in Range(ring) : e.seq > cursor[r]}
           mine == {e \in fresh : Concerns(e, r)}
       IN /\ gap' = [gap EXCEPT ![r] = @ \/ (fresh # {} /\ \A e \in fresh : e.seq > cursor[r] + 1)]
          /\ cursor' = [cursor EXCEPT ![r] = IF fresh = {} THEN @ ELSE Last(ring).seq]
          /\ told' = [told EXCEPT ![r] = @ \/ mine # {}]
          /\ IF \E e \in mine : ~e.ok THEN Abandons(r)
                                      ELSE Moves(r, "awaiting", "looking") /\ UNCHANGED abandoned
    /\ UNCHANGED <<kind, sampled, answer, before, busVars, asked, fileVars, slot>>

\* ... then the file.
Look(r) ==
    /\ at[r] = "looking"
    /\ LET file == images[Path(r)]
       IN /\ at' = [at EXCEPT ![r] = IF Complete(file, sampled[r]) THEN "ready" ELSE "awaiting"]
          /\ sampled' = [sampled EXCEPT ![r] = IF Complete(file, @) THEN None ELSE Sample(file, @)]
    /\ UNCHANGED <<kind, cursor, told, gap, answer, before, abandoned, busVars, asked, fileVars, slot>>

AwaitTimeout(r) ==
    /\ at[r] \in {"awaiting", "waiting"}
    /\ Abandons(r)
    /\ UNCHANGED <<kind, cursor, told, gap, sampled, answer, before, busVars, asked, fileVars, slot>>

-----------------------------------------------------------------------------
(* Native.                                                                 *)

Scan(r) ==
    /\ kind[r] = "native"
    /\ Moves(r, "idle", "scanned")
    /\ before' = [before EXCEPT ![r] = shots]
    /\ UNCHANGED <<kind, cursor, told, gap, sampled, answer, abandoned, busVars, asked, fileVars, slot>>

\* queueNativeScreenshot refuses while one is queued.
QueueShot(r) ==
    /\ at[r] = "scanned"
    /\ IF slot = None THEN Moves(r, "scanned", "waiting") /\ slot' = r /\ UNCHANGED abandoned
                      ELSE Fails(r) /\ UNCHANGED slot
    /\ UNCHANGED <<kind, cursor, told, gap, sampled, answer, before, busVars, asked, fileVars>>

\* One turn of AwaitNativeArtifact: ChangedSince compares size and time, so
\* that a file seen half written has changed once it is whole.
ScanAgain(r) ==
    /\ at[r] = "waiting"
    /\ LET changed == {f \in shots : f \notin before[r]}
       IN IF Cardinality(changed) > 1
          THEN Abandons(r) /\ UNCHANGED sampled
          ELSE \E f \in changed :
                /\ at' = [at EXCEPT ![r] = IF Complete(f, sampled[r]) THEN "found" ELSE @]
                /\ sampled' = [sampled EXCEPT ![r] = Sample(f, @)]
                /\ UNCHANGED abandoned
    /\ UNCHANGED <<kind, cursor, told, gap, answer, before, busVars, asked, fileVars, slot>>

NameImage(r) ==
    /\ at[r] = "found"
    /\ IF NewArtifactPaths(r) THEN Moves(r, "found", "named") /\ UNCHANGED abandoned
                              ELSE Fails(r)
    /\ UNCHANGED <<kind, cursor, told, gap, sampled, answer, before, busVars, asked, fileVars, slot>>

\* fs::rename replaces a file that has come to the destination meanwhile,
\* unless its writer still holds it.
MoveImage(r) ==
    /\ at[r] = "named"
    /\ LET there == images[Path(r)]
       IN IF sampled[r] \in shots /\ (there = None \/ there.whole)
          THEN /\ Moves(r, "named", "ready")
               /\ images' = [images EXCEPT ![Path(r)] = sampled[r]]
               /\ shots' = shots \ {sampled[r]}
               /\ UNCHANGED abandoned
          ELSE Fails(r) /\ UNCHANGED <<images, shots>>
    /\ sampled' = [sampled EXCEPT ![r] = None]
    /\ UNCHANGED <<kind, cursor, told, gap, answer, before, busVars, asked, sidecars, slot>>

-----------------------------------------------------------------------------
(* Both: the physical file is probed, twice, and described.                *)

ProbePhysical(r) ==
    /\ Moves(r, "ready", "probing")
    /\ sampled' = [sampled EXCEPT ![r] = Sample(images[Path(r)], None)]
    /\ UNCHANGED <<kind, cursor, told, gap, answer, before, abandoned, busVars, asked, fileVars, slot>>

\* ComputeInconclusive: a native image always is, and one whose event did not
\* come or may have been lost.
Conclusive(r) == kind[r] = "provider" /\ told[r] /\ ~gap[r]

ProbeAgain(r) ==
    /\ at[r] = "probing"
    /\ IF Complete(images[Path(r)], sampled[r])
       THEN /\ Moves(r, "probing", "composed")
            /\ answer' = [answer EXCEPT ![r] = [image |-> images[Path(r)].of, conclusive |-> Conclusive(r)]]
            /\ UNCHANGED abandoned
       ELSE Fails(r) /\ UNCHANGED answer
    /\ UNCHANGED <<kind, cursor, told, gap, sampled, before, busVars, asked, fileVars, slot>>

\* WriteSidecar looks, writes beside, and moves.
LookForSidecar(r) ==
    /\ at[r] = "composed"
    /\ IF sidecars[Stem[r]] = None THEN Moves(r, "composed", "describing") /\ UNCHANGED abandoned
                                   ELSE Fails(r)
    /\ UNCHANGED <<kind, cursor, told, gap, sampled, answer, before, busVars, asked, fileVars, slot>>

\* Slip: the move replaces what is there.
MoveSidecarReplaces(r) ==
    /\ Moves(r, "describing", "saved")
    /\ sidecars' = [sidecars EXCEPT ![Stem[r]] = r]
    /\ UNCHANGED <<kind, cursor, told, gap, sampled, answer, before, abandoned, busVars, asked, images, shots, slot>>

\* MoveFileEx without MOVEFILE_REPLACE_EXISTING, and capture.saved.
MoveSidecar(r) ==
    /\ at[r] = "describing"
    /\ IF sidecars[Stem[r]] = None
       THEN /\ Moves(r, "describing", "saved")
            /\ sidecars' = [sidecars EXCEPT ![Stem[r]] = r]
            /\ UNCHANGED abandoned
       ELSE Fails(r) /\ UNCHANGED sidecars
    /\ UNCHANGED <<kind, cursor, told, gap, sampled, answer, before, busVars, asked, images, shots, slot>>

-----------------------------------------------------------------------------
(* The provider, which does not overwrite and may be late, and the game.   *)

ProviderWrites(r) ==
    /\ asked[r] = "asked" /\ images[Path(r)] = None
    /\ images' = [images EXCEPT ![Path(r)] = [of |-> r, whole |-> FALSE]]
    /\ asked' = [asked EXCEPT ![r] = "writing"]
    /\ UNCHANGED <<requestVars, busVars, sidecars, shots, slot>>

ProviderCloses(r) ==
    /\ \E ended \in {<<"writing", "written">>, <<"told", "over">>} :
        asked[r] = ended[1] /\ asked' = [asked EXCEPT ![r] = ended[2]]
    /\ images' = [images EXCEPT ![Path(r)].whole = TRUE]
    /\ UNCHANGED <<requestVars, busVars, sidecars, shots, slot>>

\* capture.ready may come before the file is whole.
ProviderTells(r) ==
    /\ \E ended \in {<<"writing", "told">>, <<"written", "over">>} :
        asked[r] = ended[1] /\ asked' = [asked EXCEPT ![r] = ended[2]]
    /\ Publish(r, TRUE)
    /\ UNCHANGED <<requestVars, noise, fileVars, slot>>

ProviderFails(r) ==
    /\ asked[r] = "asked"
    /\ asked' = [asked EXCEPT ![r] = "over"]
    /\ Publish(r, FALSE)
    /\ UNCHANGED <<requestVars, noise, fileVars, slot>>

\* The topics of other tools.
OtherEvent ==
    /\ noise < MaxNoise
    /\ noise' = noise + 1
    /\ Publish(None, TRUE)
    /\ UNCHANGED <<requestVars, asked, fileVars, slot>>

PlayerShoots ==
    /\ slot = None /\ (\E r \in Requests : kind[r] = "native") /\ \A f \in shots : f.of # Player
    /\ slot' = Player
    /\ UNCHANGED <<requestVars, busVars, asked, fileVars>>

GameShoots ==
    /\ slot # None
    /\ slot' = None
    /\ shots' = shots \union {[of |-> slot, whole |-> FALSE]}
    /\ UNCHANGED <<requestVars, busVars, asked, images, sidecars>>

GameCloses ==
    /\ \E f \in shots : ~f.whole /\ shots' = (shots \ {f}) \union {[f EXCEPT !.whole = TRUE]}
    /\ UNCHANGED <<requestVars, busVars, asked, images, sidecars, slot>>

Next ==
    \/ \E r \in Requests :
        \/ Begin(r) \/ Dispatch(r) \/ DispatchFails(r) \/ ReadEvents(r) \/ Look(r) \/ AwaitTimeout(r)
        \/ Scan(r) \/ QueueShot(r) \/ ScanAgain(r) \/ NameImage(r) \/ MoveImage(r)
        \/ ProbePhysical(r) \/ ProbeAgain(r) \/ LookForSidecar(r) \/ MoveSidecar(r)
        \/ ProviderWrites(r) \/ ProviderCloses(r) \/ ProviderTells(r) \/ ProviderFails(r)
    \/ OtherEvent \/ PlayerShoots \/ GameShoots \/ GameCloses

Spec == Init /\ [][Next]_vars

-----------------------------------------------------------------------------
Files == [of : Requests \union {Player}, whole : BOOLEAN]
Results == [image : Requests \union {Player}, conclusive : BOOLEAN]

\* "No file" is not a file, and "nobody" makes no capture.
CaptureAssumption ==
    MaxRing \in Nat /\ None \notin Requests \union {Player} \union Files \union Results

\* The shape of every variable.
TypeOK ==
    /\ kind \in [Requests -> Kinds]
    /\ at \in [Requests -> {"idle", "checked", "awaiting", "looking", "scanned", "waiting", "found", "named",
                            "ready", "probing", "composed", "describing", "saved", "failed"}]
    /\ cursor \in [Requests -> 0..head]
    /\ told \in [Requests -> BOOLEAN] /\ gap \in [Requests -> BOOLEAN]
    /\ sampled \in [Requests -> Files \union {None}] /\ answer \in [Requests -> Results \union {None}]
    /\ \A r \in Requests : at[r] \in {"composed", "describing", "saved"} => answer[r] # None
    /\ ring \in Seq([of : Requests \union {None}, ok : BOOLEAN, seq : Nat]) /\ head \in Nat
    /\ Len(ring) <= MaxRing /\ \A i \in DOMAIN ring : ring[i].seq = head - Len(ring) + i
    /\ noise \in Nat
    /\ asked \in [Requests -> {"no", "asked", "writing", "written", "told", "over"}]
    /\ images \in [Paths -> Files \union {None}] /\ sidecars \in [Stems -> Requests \union {None}]
    /\ slot \in Requests \union {Player, None}
    /\ shots \subseteq Files /\ before \in [Requests -> SUBSET Files]
    /\ abandoned \subseteq {r \in Requests : at[r] = "failed"}

\* A native request may have moved a screenshot to the path of r: both have the
\* same path if the game's screenshots have the provider's extension.
MovedTo(r) ==
    \E n \in Requests : /\ kind[n] = "native" /\ Path(n) = Path(r)
                       /\ at[n] \notin {"idle", "scanned", "waiting", "found", "named"}

Screenshots == {Player} \union {n \in Requests : kind[n] = "native"}

\* A result that does not call itself inconclusive shows the image that its own
\* provider made: not one that an earlier request left late, or another made
\* for the same path, which the poll alone would take as well.  Only a native
\* request of the same path may have put a screenshot in its place.
ConclusiveIsOwn ==
    \A r \in Requests : at[r] = "saved" /\ answer[r].conclusive =>
        answer[r].image = r \/ (MovedTo(r) /\ answer[r].image \in Screenshots)

\* Not so with such a request: its screenshot replaces what the provider made,
\* and the result of the provider's request shows it.
ConclusiveIsProviders ==
    \A r \in Requests : at[r] = "saved" /\ answer[r].conclusive => answer[r].image = r

\* The sidecar of a saved capture stays the one of that capture: of requests
\* that pass the checks together, one is saved and no metadata is overwritten.
SavedIsDescribed == \A r \in Requests : at[r] = "saved" <=> sidecars[Stem[r]] = r

\* "existing artifacts are never overwritten": a saved capture's image is still
\* the one that the capture reported.  Such a screenshot breaks this too.
SavedStays ==
    \A r \in Requests : at[r] = "saved" =>
        images[Path(r)] # None /\ images[Path(r)].of = answer[r].image
=============================================================================
