--------------------------- MODULE WorkspaceChat ---------------------------
(***************************************************************************)
(* One assistant's Google Chat app and one person: the order and the pace  *)
(* of the writes into a space (src/src/workspace-chat-api.ts), and the     *)
(* placeholders, answers and notices that are written there                *)
(* (src/src/workspace-chat-adapter.ts), with the space a person last wrote *)
(* from (src/src/workspace-chat-spaces.ts).                                *)
(*                                                                         *)
(* Google is external: it answers a request, refuses it, or does what was  *)
(* asked and its answer is lost.  The person writes in Here; Gone is a     *)
(* space the app is not in: an earlier app left it in the file, or a list  *)
(* of Google's still names it.                                             *)
(***************************************************************************)
EXTENDS Naturals, Sequences

CONSTANTS
  MaxTurns,     \* bound: the messages of the person, numbered as they come
  Here, Gone, NoSpace,
  MaxAttempts,  \* RATE_LIMIT_ATTEMPTS
  TooLarge,     \* the messages that may come with an upload that is too large
  MaxChunks,    \* bound: the messages of each answer
  MaxSteps,     \* bound: the steps each turn shows
  MaxFaults     \* bound: requests that go wrong

ASSUME WorkspaceChatAssumption ==
  /\ MaxTurns \in Nat /\ TooLarge \subseteq 1 .. MaxTurns
  /\ Here # Gone /\ NoSpace \notin {Here, Gone}
  /\ MaxAttempts \in Nat \ {0}
  /\ {MaxChunks, MaxSteps} \subseteq [1 .. MaxTurns -> Nat] /\ MaxFaults \in Nat

Turns == 1 .. MaxTurns
NoTurn == 0

Spaces == {Here, Gone}

\* A write is named by whose it is and what it is; a notice by its space.
TurnWrites == Turns \X {"post", "oversize", "edit", "chunk"}
Writes == TurnWrites \cup ({NoTurn} \X Spaces)

VARIABLES
  turn,    \* of each message: its phase, its placeholder, and its sends
  known,   \* spaces.known(userId)
  theirs,  \* the person wrote from Here, and Google said nothing of a space since
           \* that known follows: the app's only one, or that Here is wrong (history)
  notice,  \* where the delivery of a notice no event opened is
  space,   \* of each space: the queue of SpaceWrites, its head's stage, and
           \* whether nextAt is still ahead
  out,     \* the writes whose request is out
  renewing,\* the writes answered 401, that renew their token
  second,  \* the writes sent again after a 401
  tries,   \* [Writes -> how often it was refused for the rate]
  faults

vars == <<turn, known, theirs, notice, space, out, renewing, second, tries, faults>>

requests == <<out, renewing, second, tries, faults>>

Init ==
  /\ turn = [t \in Turns |-> [phase |-> "new", line |-> "none", posted |-> "no",
                              edits |-> <<>>, editing |-> FALSE, shows |-> "none",
                              missed |-> FALSE, busy |-> FALSE, chunks |-> 0, steps |-> 0,
                              tried |-> FALSE]]
  /\ known \in Spaces \cup {NoSpace}
  /\ theirs = FALSE /\ notice = "new"
  /\ space = [s \in Spaces |-> [queue |-> <<>>, stage |-> "waits", held |-> FALSE]]
  /\ out = {} /\ renewing = {} /\ second = {} /\ tries = [w \in Writes |-> 0] /\ faults = 0

-----------------------------------------------------------------------------
(* SpaceWrites.                                                            *)

SpaceOf(w) == IF w[1] = NoTurn THEN w[2] ELSE Here

\* The call of turn(): a write takes its place behind the others of its space.
Asked(spaces, w) == [spaces EXCEPT ![SpaceOf(w)].queue = Append(@, w)]

\* The head's turn has come: every write before it left, and nextAt is past.
TurnComes(s) ==
  /\ space[s].queue # <<>> /\ space[s].stage = "waits" /\ ~ space[s].held
  /\ space' = [space EXCEPT ![s].stage = "sends"]
  /\ UNCHANGED <<turn, known, theirs, notice, requests>>

\* Time passes nextAt.
PaceOver(s) ==
  /\ space[s].held
  /\ space' = [space EXCEPT ![s].held = FALSE]
  /\ UNCHANGED <<turn, known, theirs, notice, requests>>

\* sent(): the write's turn is over, whether its request left or was given up.
Released(sp) == [queue |-> Tail(sp.queue), stage |-> "waits", held |-> TRUE]

-----------------------------------------------------------------------------
(* The placeholder: r is the record of its turn.                           *)

\* A turn that fails while its uploads are fetched has set no conversation.
After(r) == IF r.phase = "fetching" THEN "failed" ELSE "over"

Over == {"over", "failed"}

\* mutant: a line is ended only by the first message
CloseUnanswered(r) ==
  [r EXCEPT !.phase = After(r), !.line = "closed",
            !.edits = IF r.tried THEN @ ELSE Append(@, "ellipsis")]

\* status.close()
CloseLine(r) ==
  [r EXCEPT !.phase = After(r), !.line = "closed",
            !.edits = IF r.line = "answered" THEN @ ELSE Append(@, "ellipsis")]

\* answered()
EndBalloon(r) ==
  IF r.line # "writing" THEN r
  ELSE [r EXCEPT !.line = "answered", !.edits = Append(@, "ellipsis")]

\* mutant: placeholders are kept per person
EndsEveryone(t) == Turns

\* The turns whose placeholder the send target of t ends.
EndsFor(t) == {t}

-----------------------------------------------------------------------------
(* How a write ends for who asked for it; turns is turn after what Google  *)
(* did.                                                                    *)

EndedOfTurn(t, what, ok, turns) ==
  /\ turn' = CASE what = "post" -> [turns EXCEPT ![t].posted = IF ok THEN "named" ELSE "unnamed"]
               [] what = "edit" -> [turns EXCEPT ![t].editing = FALSE, ![t].edits = Tail(@),
                                                 ![t].missed = ~ ok]
               [] what = "oversize" -> [turns EXCEPT ![t].phase = "ready", ![t].busy = FALSE]
               [] OTHER -> [m \in Turns |->
                    LET r == IF m # t THEN turns[m]
                             ELSE [turns[m] EXCEPT !.busy = FALSE, !.tried = TRUE] IN
                    IF m \in EndsFor(t) THEN EndBalloon(r) ELSE r]
  /\ UNCHANGED <<known, theirs, notice>>

\* mutant: whatever space is stored is dropped
ForgetAny(s) == NoSpace

\* forget()
Forget(s) == IF known = s THEN NoSpace ELSE known

\* deliver(): a stored space that is wrong is dropped and looked for once more.
EndedOfNotice(s, wrong) ==
  /\ notice' = IF notice = "stored" /\ wrong THEN "listing" ELSE "done"
  /\ known' = IF notice = "stored" /\ wrong THEN Forget(s) ELSE known
  /\ theirs' = (theirs /\ ~ (notice = "stored" /\ wrong /\ s = Here))
  /\ UNCHANGED turn

Ended(w, how, turns) ==
  IF w[1] = NoTurn THEN EndedOfNotice(w[2], how = "wrong")
  ELSE EndedOfTurn(w[1], w[2], how = "ok", turns)

\* How a failed call leaves write(): a refusal for the rate is asked for again,
\* behind what the space is asked for meanwhile, unless it is the last or the
\* wait Google names is too long.
FailedCall(w, how, spaces, turns) ==
  LET s == SpaceOf(w) IN
  \/ /\ how = "rate" /\ tries[w] + 1 < MaxAttempts
     /\ space' = Asked([spaces EXCEPT ![s].held = TRUE], w)
     /\ tries' = [tries EXCEPT ![w] = @ + 1]
     /\ turn' = turns
     /\ UNCHANGED <<known, theirs, notice>>
  \/ /\ space' = spaces
     /\ tries' = [tries EXCEPT ![w] = 0]
     /\ Ended(w, how, turns)

-----------------------------------------------------------------------------
(* call()                                                                  *)

First(s) == Head(space[s].queue)

\* The token is at hand or renewed, and the request leaves.
Leaves(s) ==
  /\ space[s].stage = "sends"
  /\ out' = out \cup {First(s)}
  /\ space' = [space EXCEPT ![s] = Released(@)]
  /\ UNCHANGED <<turn, known, theirs, notice, renewing, second, tries, faults>>

\* mutant: a write abandoned before its request leaves keeps its turn
NoTokenNoRelease(s) ==
  /\ space[s].stage = "sends" /\ faults < MaxFaults
  /\ faults' = faults + 1
  /\ FailedCall(First(s), "refused", [space EXCEPT ![s].stage = "kept"], turn)
  /\ UNCHANGED <<out, renewing, second>>

\* The key cannot be read, or the token exchange fails.
NoToken(s) ==
  /\ space[s].stage = "sends" /\ faults < MaxFaults
  /\ faults' = faults + 1
  /\ \E how \in {"refused", "rate"} :
       FailedCall(First(s), how, [space EXCEPT ![s] = Released(@)], turn)
  /\ UNCHANGED <<out, renewing, second>>

\* What a turn shows once Google did what the write asks.
Done(w) ==
  CASE w \in TurnWrites /\ w[2] = "post" -> [turn EXCEPT ![w[1]].shows = "writing"]
    [] w \in TurnWrites /\ w[2] = "edit" -> [turn EXCEPT ![w[1]].shows = Head(turn[w[1]].edits)]
    [] OTHER -> turn

\* Google does what it is asked; the app is not in the space that is gone.
Answers(w) ==
  /\ w \in out
  /\ out' = out \ {w} /\ second' = second \ {w} /\ tries' = [tries EXCEPT ![w] = 0]
  /\ IF SpaceOf(w) = Here THEN Ended(w, "ok", Done(w)) ELSE Ended(w, "wrong", turn)
  /\ UNCHANGED <<space, renewing, faults>>

\* It refuses, or its answer is lost, with or without what was asked.
Fails(w) ==
  /\ w \in out /\ faults < MaxFaults
  /\ faults' = faults + 1
  /\ out' = out \ {w} /\ second' = second \ {w}
  /\ \/ \E how \in {"refused", "rate", "wrong"} : FailedCall(w, how, space, turn)
     \/ SpaceOf(w) = Here /\ FailedCall(w, "refused", space, Done(w))
  /\ UNCHANGED renewing

\* A 401: the token is renewed, once, and the request sent outside any turn.
TokenRefused(w) ==
  /\ w \in out \ second /\ faults < MaxFaults
  /\ faults' = faults + 1
  /\ out' = out \ {w} /\ renewing' = renewing \cup {w}
  /\ UNCHANGED <<turn, known, theirs, notice, space, second, tries>>

Renewed(w) ==
  /\ w \in renewing
  /\ renewing' = renewing \ {w}
  /\ out' = out \cup {w} /\ second' = second \cup {w}
  /\ UNCHANGED <<turn, known, theirs, notice, space, tries, faults>>

NotRenewed(w) ==
  /\ w \in renewing
  /\ renewing' = renewing \ {w}
  /\ \E how \in {"refused", "rate"} : FailedCall(w, how, space, turn)
  /\ UNCHANGED <<out, second, faults>>

-----------------------------------------------------------------------------
(* The turns of the person's messages.                                     *)

\* runTurn(): the placeholder is asked for and not awaited.
Accept(t) ==
  /\ turn[t].phase = "new" /\ \A m \in 1 .. t - 1 : turn[m].phase # "new"
  /\ turn' = [turn EXCEPT ![t].phase = "fetching", ![t].line = "writing", ![t].posted = "asked"]
  /\ space' = Asked(space, <<t, "post">>)
  /\ UNCHANGED <<known, theirs, notice, requests>>

\* The uploads are fetched, and one was too large: the person is told before
\* the turn has its placeholder.
OversizeNotice(t) ==
  /\ turn[t].phase = "fetching" /\ t \in TooLarge
  /\ turn' = [turn EXCEPT ![t].phase = "telling", ![t].busy = TRUE]
  /\ space' = Asked(space, <<t, "oversize">>)
  /\ UNCHANGED <<known, theirs, notice, requests>>

\* The dispatcher takes the turn, and the send target and the status line with
\* its placeholder.
HandOver(t) ==
  /\ turn[t].phase \in {"fetching", "ready"}
  /\ turn' = [turn EXCEPT ![t].phase = "running"]
  /\ known' = Here /\ theirs' = TRUE
  /\ UNCHANGED <<notice, space, requests>>

\* The turn's send target.
SendChunk(t) ==
  /\ turn[t].phase = "running" /\ ~ turn[t].busy /\ turn[t].chunks < MaxChunks[t]
  /\ turn' = [turn EXCEPT ![t].busy = TRUE, ![t].chunks = @ + 1]
  /\ space' = Asked(space, <<t, "chunk">>)
  /\ UNCHANGED <<known, theirs, notice, requests>>

\* status.show(), one at a time
ShowStep(t) ==
  /\ turn[t].phase = "running" /\ turn[t].steps < MaxSteps[t]
  /\ \A i \in DOMAIN turn[t].edits : turn[t].edits[i] # "step"
  /\ turn' = [turn EXCEPT ![t].line = "step", ![t].steps = @ + 1,
                          ![t].edits = Append(@, "step")]
  /\ UNCHANGED <<known, theirs, notice, space, requests>>

\* The dispatcher is done with the message, answered or not; or the turn fails
\* before it is handed over.  Either way its placeholder is closed.
TurnEnds(t) ==
  /\ turn[t].phase \in {"fetching", "ready", "running"} /\ ~ turn[t].busy
  /\ turn' = [turn EXCEPT ![t] = CloseLine(@)]
  /\ UNCHANGED <<known, theirs, notice, space, requests>>

\* The next edit, once the post and the edits before it are answered.
NextEdit(t) ==
  /\ turn[t].edits # <<>> /\ ~ turn[t].editing
  /\ \/ /\ turn[t].posted = "named"
        /\ turn' = [turn EXCEPT ![t].editing = TRUE]
        /\ space' = Asked(space, <<t, "edit">>)
     \/ /\ turn[t].posted = "unnamed"
        /\ turn' = [turn EXCEPT ![t].edits = Tail(@)]
        /\ UNCHANGED space
  /\ UNCHANGED <<known, theirs, notice, requests>>

-----------------------------------------------------------------------------
(* A notice.                                                               *)

\* The conversation of the person's last message, in this process.
HasConversation == \E t \in Turns : turn[t].phase \in {"telling", "ready", "running", "over"}

NoticeAsked ==
  /\ notice = "new"
  /\ LET s == IF HasConversation THEN Here ELSE known IN
     /\ notice' = IF HasConversation THEN "found" ELSE IF s = NoSpace THEN "listing" ELSE "stored"
     /\ space' = IF s = NoSpace THEN space ELSE Asked(space, <<NoTurn, s>>)
  /\ UNCHANGED <<turn, known, theirs, requests>>

\* resolveSpace(): the only space the app is in is used and remembered, whatever
\* was remembered since the list was asked for.
Listed ==
  /\ notice = "listing"
  /\ \E only \in Spaces :
       /\ known' = only
       /\ space' = Asked(space, <<NoTurn, only>>)
  /\ theirs' = FALSE /\ notice' = "found"
  /\ UNCHANGED <<turn, requests>>

\* Or the lookup by email answers, or refuses.
LookedUp ==
  /\ notice = "listing"
  /\ \/ notice' = "found" /\ space' = Asked(space, <<NoTurn, Here>>)
     \/ notice' = "done" /\ UNCHANGED space
  /\ UNCHANGED <<turn, known, theirs, requests>>

-----------------------------------------------------------------------------
Sending(s) == Leaves(s) \/ NoToken(s)
Called(w) == Answers(w) \/ Fails(w) \/ TokenRefused(w) \/ Renewed(w) \/ NotRenewed(w)

Next ==
  \/ \E s \in Spaces : TurnComes(s) \/ PaceOver(s) \/ Sending(s)
  \/ \E w \in Writes : Called(w)
  \/ \E t \in Turns : \/ Accept(t) \/ OversizeNotice(t) \/ HandOver(t) \/ SendChunk(t)
                      \/ ShowStep(t) \/ TurnEnds(t) \/ NextEdit(t)
  \/ NoticeAsked \/ Listed \/ LookedUp

Spec == Init /\ [][Next]_vars

Internal ==
  \/ \E s \in Spaces : TurnComes(s) \/ PaceOver(s) \/ Sending(s)
  \/ \E w \in Writes : Called(w)
  \/ \E t \in Turns : NextEdit(t)

\* Timers fire, the queues run, and every request of the bridge ends, each as
\* long as there is one.  Nothing is asked of the person or of the assistant.
FairSpec == Spec /\ WF_vars(Internal)

-----------------------------------------------------------------------------
\* Types and ranges of the whole state.
TypeOK ==
  /\ turn \in [Turns -> [phase : {"new", "fetching", "telling", "ready", "running", "over", "failed"},
                         line : {"none", "writing", "answered", "step", "closed"},
                         posted : {"no", "asked", "named", "unnamed"},
                         edits : Seq({"ellipsis", "step"}), editing : BOOLEAN,
                         shows : {"none", "writing", "ellipsis", "step"},
                         missed : BOOLEAN, busy : BOOLEAN, chunks : Nat,
                         steps : Nat, tried : BOOLEAN]]
  /\ known \in Spaces \cup {NoSpace} /\ theirs \in BOOLEAN
  /\ notice \in {"new", "stored", "listing", "found", "done"}
  /\ space \in [Spaces -> [queue : Seq(Writes), stage : {"waits", "sends"}, held : BOOLEAN]]
  /\ out \cup renewing \cup second \subseteq Writes
  /\ tries \in [Writes -> 0 .. MaxAttempts] /\ faults \in 0 .. MaxFaults

\* A turn that is over leaves its placeholder to show the ellipsis and keeps it,
\* however late it was posted, whatever steps it showed and whichever of its
\* edits was refused for the rate and sent again; unless its last edit failed.
EndsAsEllipsis ==
  <>[] \A t \in Turns :
         turn[t].phase \in Over /\ turn[t].posted = "named"
           => turn[t].shows = "ellipsis" \/ turn[t].missed

InHand(w) == w \in out \cup renewing \/ \E i \in DOMAIN space[SpaceOf(w)].queue :
                                             space[SpaceOf(w)].queue[i] = w

\* Once nothing more is asked for, every write has ended for who asked for it:
\* one that is given up before it is sent, refused or sent again never keeps
\* the others of its space waiting.
EveryWriteEnds == <>[] \A w \in Writes : ~ InHand(w)

\* A turn ends its own placeholder only: the notice of an upload that was too
\* large, another message's answer and a platform notice leave it writing.
OwnLineOnly ==
  \A t \in Turns : turn[t].shows = "ellipsis" => turn[t].tried \/ turn[t].phase \in Over

\* The space a person wrote from stays remembered until Google says something of a
\* space: what it says of the one that was stored before, however late, does not
\* take it away.
RemembersTheirSpace == theirs => known = Here

\* What a comment says and the code does not do.

\* What is stored is the space "each person last wrote to one Chat app from".
LastSpaceIsKnown == (\E t \in Turns : turn[t].phase = "running") => known = Here
=============================================================================
