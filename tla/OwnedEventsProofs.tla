-------------------------- MODULE OwnedEventsProofs --------------------------
(***************************************************************************)
(* Proofs about OwnedEvents, for any publishers, waits and limits.  First  *)
(* what the steps do to the types, the cursors and the channel, with the   *)
(* facts about finite journals as a hypothesis (Ranked); then these facts, *)
(* the arguments about passed events and wake-ups, and the theorems.       *)
(***************************************************************************)
EXTENDS OwnedEvents, TLAPS

\* The types.
Stages == {"unsettled", "publish", "commit", "announce", "done"}
Places == {"check", "capture", "register", "recheck", "receive", "drop", "leave", "ended"}
CommandValues == {Register(w) : w \in Waits} \cup {Cancel(w) : w \in Waits} \cup {Published}
AnswerKinds == {"nothing", "error", "events", "heartbeat"}
Answers == [is : AnswerKinds, cursors : SUBSET Nat]
Phases == {"idle", "bounds", "rows"}
Evaluations == [at : Phases, todo : SUBSET Waits, now : Waits \cup {NoOne}, head : Nat]
Entries == [cursor : Nat, from : Publishers]

PublishTypes ==
    /\ journal \in SUBSET Entries /\ lastCursor \in Nat
    /\ writer \in [Publishers -> Nat] /\ stage \in [Publishers -> Stages]

ChannelTypes ==
    /\ commands \in Seq(CommandValues) /\ subscribed \in SUBSET Waits /\ sched \in Evaluations

WaitTypes ==
    /\ pc \in [Waits -> Places] /\ cursor \in [Waits -> Nat] /\ position \in [Waits -> Nat]
    /\ answer \in [Waits -> Answers]
    /\ due \in SUBSET Waits /\ allowed \in SUBSET Waits

EventTypeOK == PublishTypes /\ ChannelTypes /\ WaitTypes

-----------------------------------------------------------------------------
(* Records, sequences and cursors *)

\* The commands differ, and so do the answers.
LEMMA CommandFacts ==
    ASSUME NEW v \in Waits, NEW w \in Waits
    PROVE  /\ Register(w) \in CommandValues /\ Cancel(w) \in CommandValues /\ Published \in CommandValues
           /\ Register(w).wait = w /\ Cancel(w).wait = w
           /\ Register(w).is = "register" /\ Cancel(w).is = "cancel" /\ Published.is = "published"
           /\ Register(v) # Cancel(w) /\ Register(v) # Published /\ Cancel(v) # Published
           /\ Register(v) = Register(w) => v = w
           /\ Cancel(v) = Cancel(w) => v = w
<1>1. /\ Register(w).wait = w /\ Register(v).wait = v /\ Cancel(w).wait = w /\ Cancel(v).wait = v
      /\ Register(v).is = "register" /\ Register(w).is = "register"
      /\ Cancel(v).is = "cancel" /\ Cancel(w).is = "cancel" /\ Published.is = "published"
  BY DEF Register, Cancel, Published
<1>2. Register(w) \in CommandValues /\ Cancel(w) \in CommandValues /\ Published \in CommandValues
  BY DEF CommandValues
<1>. QED
  BY <1>1, <1>2

\* What the channel of a waiter can hold.
LEMMA AnswerFacts ==
    /\ Nothing \in Answers /\ Nothing.is = "nothing" /\ Nothing.cursors = {}
    /\ \A what \in AnswerKinds \ {"nothing"}, c \in SUBSET Nat :
           LET a == [is |-> what, cursors |-> c] IN
           a \in Answers /\ a # Nothing /\ a.cursors = c
BY DEF Answers, AnswerKinds, Nothing

\* The scheduler between two evaluations.
LEMMA IdleFacts ==
    /\ Idle \in Evaluations /\ Idle.at = "idle" /\ Idle.todo = {} /\ Idle.head = 0
BY DEF Idle, Evaluations, Phases

\* What evaluating a set of waits sets up.
LEMMA EvaluateEffect ==
    ASSUME NEW todo \in SUBSET Waits, Evaluate(todo)
    PROVE  /\ sched' \in Evaluations /\ sched'.todo = todo /\ sched'.head = 0
           /\ sched'.at \in {"idle", "bounds"} /\ (sched'.at = "idle" => sched' = Idle)
<1>1. CASE todo = {}
  BY <1>1, IdleFacts DEF Evaluate
<1>2. CASE todo # {}
  <2>1. sched' = [at |-> "bounds", todo |-> todo, now |-> NoOne, head |-> 0]
    BY <1>2, Zenon DEF Evaluate, Idle
  <2>. QED
    BY <2>1 DEF Evaluations, Phases
<1>. QED
  BY <1>1, <1>2

\* evaluate goes on to the rows of one subscription.
LEMMA ReadingEffect ==
    ASSUME sched \in Evaluations, NEW w \in Waits, NEW head \in Nat,
           sched' = [sched EXCEPT !.at = "rows", !.now = w, !.head = head]
    PROVE  /\ sched' \in Evaluations /\ sched'.at = "rows" /\ sched'.todo = sched.todo
           /\ sched'.now = w /\ sched'.head = head
<1>. "rows" \in Phases /\ w \in Waits \cup {NoOne}
  BY DEF Phases
<1>. QED
  BY Zenon DEF Evaluations

\* The fields of a row, of an evaluation, of an answer and of a command.
LEMMA Fields ==
    /\ \A e \in Entries : e.cursor \in Nat /\ e.from \in Publishers
    /\ \A s \in Evaluations : /\ s.at \in Phases /\ s.todo \in SUBSET Waits
                              /\ s.now \in Waits \cup {NoOne} /\ s.head \in Nat
    /\ \A a \in Answers : a.is \in AnswerKinds /\ a.cursors \in SUBSET Nat
BY DEF Entries, Evaluations, Answers

\* A command is sent to, or taken from, the channel.
Sends(c) ==
    /\ Len(commands') = Len(commands) + 1 /\ commands'[Len(commands) + 1] = c
    /\ \A i \in 1 .. Len(commands) : commands'[i] = commands[i]

Takes(c) ==
    /\ Len(commands) >= 1 /\ commands[1] = c /\ Len(commands') = Len(commands) - 1
    /\ \A i \in 1 .. Len(commands') : commands'[i] = commands[i + 1]

\* A command that is sent goes to the end of the bounded channel.
LEMMA SendFacts ==
    ASSUME ChannelTypes, NEW c \in CommandValues, commands' = Append(commands, c)
    PROVE  commands' \in Seq(CommandValues) /\ Sends(c)
BY DEF ChannelTypes, Sends

\* The scheduler takes the command at the head of the channel.
LEMMA TakeFacts ==
    ASSUME ChannelTypes, commands # <<>>, commands' = Tail(commands)
    PROVE  /\ commands' \in Seq(CommandValues) /\ Takes(Head(commands))
           /\ Head(commands) \in CommandValues
BY DEF ChannelTypes, Takes

-----------------------------------------------------------------------------
(* The types are kept *)

\* Each group of variables keeps its types while a step leaves it alone.
LEMMA Untouched ==
    /\ PublishTypes /\ UNCHANGED <<journalVars, stage>> => PublishTypes'
    /\ ChannelTypes /\ UNCHANGED schedulerVars => ChannelTypes'
    /\ WaitTypes /\ UNCHANGED <<waitVars, due, allowed>> => WaitTypes'
BY DEF PublishTypes, ChannelTypes, WaitTypes, journalVars, schedulerVars, waitVars

\* Sending to a subscriber keeps the types and touches no other waiter.
LEMMA SendEffect ==
    ASSUME WaitTypes, NEW w \in Waits, NEW what \in AnswerKinds \ {"nothing"},
           NEW rows \in SUBSET Entries, Send(w, what, rows)
    PROVE  /\ answer' \in [Waits -> Answers]
           /\ \A v \in Waits : v # w => answer'[v] = answer[v]
           /\ pc[w] \notin {"recheck", "receive"} => answer' = answer
           /\ pc[w] \in {"recheck", "receive"} =>
                 answer'[w] # Nothing /\ answer'[w].cursors = Cursors(rows)
<1>. DEFINE a == [is |-> what, cursors |-> Cursors(rows)]
<1>1. Cursors(rows) \in SUBSET Nat
  BY Fields DEF Cursors
<1>2. a \in Answers /\ a # Nothing /\ a.cursors = Cursors(rows)
  BY <1>1, AnswerFacts
<1>. HIDE DEF a
<1>3. answer' = IF pc[w] \in {"recheck", "receive"} THEN [answer EXCEPT ![w] = a] ELSE answer
  BY DEF Send, a
<1>. QED
  BY <1>2, <1>3 DEF WaitTypes

\* Every step of a publisher up to the announcement is a publication step.
LEMMA PublishingTyped ==
    ASSUME EventTypeOK, NEW p \in Publishers,
           Settle(p) \/ Notify(p) \/ Insert(p) \/ AppendFails(p) \/ Commit(p)
    PROVE  /\ EventTypeOK' /\ UNCHANGED <<commands, subscribed, sched, pc, cursor, position, answer>>
           /\ \A q \in Publishers : q # p => stage'[q] = stage[q] /\ writer'[q] = writer[q]
<1>1. UNCHANGED <<schedulerVars, waitVars, due, allowed>>
  BY DEF Settle, Notify, Insert, AppendFails, Commit, worldVars
<1>2. CASE Settle(p) \/ Notify(p)
  BY <1>1, <1>2, Untouched
     DEF EventTypeOK, Settle, Notify, PublishTypes, Stages, journalVars, schedulerVars, waitVars
<1>3. CASE Insert(p) \/ AppendFails(p)
  BY <1>1, <1>3, Untouched
     DEF EventTypeOK, Insert, AppendFails, PublishTypes, Stages, schedulerVars, waitVars
<1>4. CASE Commit(p)
  <2>. DEFINE e == [cursor |-> writer[p], from |-> p]
  <2>1. e \in Entries
    BY DEF EventTypeOK, PublishTypes, Entries
  <2>. HIDE DEF e
  <2>2. journal \cup {e} \in SUBSET Entries
    BY <2>1 DEF EventTypeOK, PublishTypes
  <2>3. Newest(journal \cup {e}) \subseteq journal \cup {e}
    BY DEF Newest
  <2>4. journal' \subseteq journal \cup {e}
    BY <1>4, <2>3 DEF Commit, e
  <2>5. journal' \in SUBSET Entries
    BY <2>2, <2>4
  <2>. QED
    BY Zenon, <1>1, <1>4, <2>5, Untouched
       DEF EventTypeOK, Commit, PublishTypes, Stages, schedulerVars, waitVars
<1>. QED
  BY <1>2, <1>3, <1>4

\* publish sends one Published command.
LEMMA AnnounceTyped ==
    ASSUME EventTypeOK, NEW p \in Publishers, Announce(p)
    PROVE  EventTypeOK' /\ Sends(Published)
<1>1. commands' \in Seq(CommandValues) /\ Sends(Published)
  BY Zenon, SendFacts DEF Announce, CommandValues, EventTypeOK
<1>2. ChannelTypes'
  BY <1>1 DEF Announce, EventTypeOK, ChannelTypes
<1>3. PublishTypes'
  BY DEF Announce, EventTypeOK, PublishTypes, Stages, journalVars
<1>. QED
  BY <1>1, <1>2, <1>3, Untouched DEF Announce, EventTypeOK, worldVars

-----------------------------------------------------------------------------
(* What the steps do to the waits, the channel and the subscriptions *)

Elsewhere(w) ==
    \A v \in Waits \ {w} : /\ pc'[v] = pc[v] /\ cursor'[v] = cursor[v]
                           /\ position'[v] = position[v] /\ answer'[v] = answer[v]

\* A wait goes on by itself.
Moves(w) ==
    /\ UNCHANGED <<commands, subscribed, sched, position, answer>> /\ Elsewhere(w)
    /\ \/ pc[w] = "check" /\ pc'[w] \in {"ended", "capture"} /\ cursor'[w] = cursor[w]
       \/ /\ pc[w] = "capture" /\ pc'[w] \in {"ended", "register"}
          /\ cursor'[w] \in {cursor[w], HistoryHead(journal)}
       \/ /\ pc[w] = "recheck" /\ cursor'[w] = cursor[w]
          /\ pc'[w] = "leave" \/ (pc'[w] = "receive" /\ ~Settled(w))
       \/ pc[w] = "receive" /\ pc'[w] = "leave" /\ cursor'[w] \in {cursor[w], position[w]}
       \/ /\ pc[w] = "receive" /\ pc'[w] = "drop" /\ answer[w] # Nothing
          /\ cursor'[w] = position[w]

Registers(w) ==
    /\ UNCHANGED <<subscribed, sched, cursor>> /\ Elsewhere(w) /\ pc[w] = "register"
    /\ position'[w] = cursor[w] /\ answer'[w] = Nothing
    /\ \/ pc'[w] = AfterRegistration(w) /\ Sends(Register(w))
       \/ pc'[w] = "ended" /\ UNCHANGED commands

Drops(w) ==
    /\ UNCHANGED <<subscribed, sched, cursor, position>> /\ Elsewhere(w)
    /\ Sends(Cancel(w)) /\ answer'[w] = Nothing
    /\ \/ pc[w] = "drop" /\ pc'[w] \in {"register", "ended", "capture"}
       \/ pc[w] = "leave" /\ pc'[w] = "ended"

Rows(w) == {e \in journal : e.cursor > position[w] /\ Matches(w, e)}

\* What the finiteness of the journal gives the steps: rows have a newest one, and a
\* batch leaves out nothing below its newest row and is empty only when there is nothing
\* to read.
Ranked ==
    /\ \A rows \in SUBSET journal : rows # {} =>
          /\ \E e \in rows : e.cursor = HistoryHead(rows)
          /\ \A e \in rows : e.cursor <= HistoryHead(rows)
    /\ \A w \in Waits : \A e \in Rows(w) :
          /\ Batch(w) # {}
          /\ e.cursor <= HistoryHead(Batch(w)) => e \in Batch(w)

\* The head of any set of rows is a cursor.
LEMMA HeadTyped ==
    ASSUME PublishTypes, Ranked, NEW rows \in SUBSET journal
    PROVE  /\ HistoryHead(rows) \in Nat
           /\ HistoryHead(rows) = 0 \/ \E e \in journal : e.cursor = HistoryHead(rows)
<1>1. CASE rows = {}
  BY <1>1 DEF HistoryHead
<1>2. CASE rows # {}
  BY <1>2, Fields DEF Ranked, PublishTypes
<1>. QED
  BY <1>1, <1>2

\* A waiter's own steps that send no command.
LEMMA MovesTyped ==
    ASSUME EventTypeOK, Ranked, NEW w \in Waits,
           CheckStatus(w) \/ CaptureHead(w) \/ RecheckStatus(w) \/ Receive(w) \/ Disconnect(w)
    PROVE  EventTypeOK' /\ Moves(w) /\ UNCHANGED <<journalVars, stage>>
<1>1. UNCHANGED <<journalVars, stage, schedulerVars, position, answer, due, allowed>>
  BY DEF CheckStatus, CaptureHead, RecheckStatus, Receive, Disconnect, worldVars
<1>2. PublishTypes' /\ ChannelTypes'
  BY <1>1, Untouched DEF EventTypeOK
<1>3. HistoryHead(journal) \in Nat
  BY HeadTyped DEF EventTypeOK
<1>4. pc \in [Waits -> Places] /\ cursor \in [Waits -> Nat] /\ position \in [Waits -> Nat]
  BY DEF EventTypeOK, WaitTypes
<1>5. \E l \in Places, n \in Nat :
         /\ pc' = [pc EXCEPT ![w] = l] /\ cursor' = [cursor EXCEPT ![w] = n]
         /\ \/ pc[w] = "check" /\ l \in {"ended", "capture"} /\ n = cursor[w]
            \/ /\ pc[w] = "capture" /\ l \in {"ended", "register"}
               /\ n \in {cursor[w], HistoryHead(journal)}
            \/ /\ pc[w] = "recheck" /\ n = cursor[w]
               /\ l = "leave" \/ (l = "receive" /\ ~Settled(w))
            \/ pc[w] = "receive" /\ l = "leave" /\ n \in {cursor[w], position[w]}
            \/ pc[w] = "receive" /\ l = "drop" /\ answer[w] # Nothing /\ n = position[w]
  <2>1. cursor = [cursor EXCEPT ![w] = cursor[w]]
    BY <1>4
  <2>2. CASE CheckStatus(w)
    BY Zenon, <1>4, <2>1, <2>2 DEF CheckStatus, Goto, Places
  <2>3. CASE CaptureHead(w)
    BY <1>3, <1>4, <2>1, <2>3 DEF CaptureHead, Goto, Places
  <2>4. CASE RecheckStatus(w)
    BY Zenon, <1>4, <2>1, <2>4 DEF RecheckStatus, Goto, Places
  <2>5. CASE Receive(w)
    BY Zenon, <1>4, <2>5 DEF Receive, Goto, Places
  <2>6. CASE Disconnect(w)
    BY <1>4, <2>1, <2>6 DEF Disconnect, Goto, Places
  <2>. QED
    BY <2>2, <2>3, <2>4, <2>5, <2>6
<1>6. pc' \in [Waits -> Places] /\ cursor' \in [Waits -> Nat]
  BY <1>4, <1>5
<1>7. WaitTypes'
  BY <1>1, <1>6 DEF WaitTypes, EventTypeOK
<1>8. Moves(w)
  BY <1>1, <1>4, <1>5 DEF Moves, Elsewhere, schedulerVars
<1>. QED
  BY <1>1, <1>2, <1>7, <1>8 DEF EventTypeOK

\* subscribe queues one Register command, from the waiter's own cursor.
LEMMA RegistersTyped ==
    ASSUME EventTypeOK, NEW w \in Waits, SendRegister(w)
    PROVE  EventTypeOK' /\ Registers(w) /\ UNCHANGED <<journalVars, stage>>
<1>1. UNCHANGED <<journalVars, stage, subscribed, sched, cursor, allowed>> /\ pc[w] = "register"
  BY DEF SendRegister
<1>2. Nothing \in Answers /\ Register(w) \in CommandValues /\ AfterRegistration(w) \in Places
  BY AnswerFacts, CommandFacts DEF AfterRegistration, Places
<1>3. /\ commands' \in Seq(CommandValues) /\ pc' \in [Waits -> Places]
      /\ \A v \in Waits \ {w} : pc'[v] = pc[v]
      /\ \/ pc'[w] = AfterRegistration(w) /\ Sends(Register(w))
         \/ pc'[w] = "ended" /\ UNCHANGED commands
  <2>1. CASE Room
    <3>1. commands' \in Seq(CommandValues) /\ Sends(Register(w))
      BY <1>2, <2>1, SendFacts, Zenon DEF SendRegister, EventTypeOK
    <3>2. pc' = [pc EXCEPT ![w] = AfterRegistration(w)]
      BY <2>1 DEF SendRegister, Goto
    <3>. QED
      BY <1>2, <3>1, <3>2 DEF EventTypeOK, WaitTypes
  <2>2. CASE ~Room
    <3>1. commands' = commands /\ pc' = [pc EXCEPT ![w] = "ended"]
      BY <2>2 DEF SendRegister, Goto
    <3>. QED
      BY <3>1 DEF EventTypeOK, WaitTypes, ChannelTypes, Places
  <2>. QED
    BY <2>1, <2>2
<1>4. /\ position' = [position EXCEPT ![w] = cursor[w]] /\ answer' = [answer EXCEPT ![w] = Nothing]
      /\ due' \subseteq due
  BY DEF SendRegister
<1>5. WaitTypes'
  BY <1>1, <1>2, <1>3, <1>4 DEF WaitTypes, EventTypeOK
<1>6. Registers(w)
  BY <1>1, <1>3, <1>4 DEF Registers, Elsewhere, EventTypeOK, WaitTypes
<1>7. PublishTypes' /\ ChannelTypes'
  BY <1>1, <1>3, Untouched DEF EventTypeOK, ChannelTypes
<1>. QED
  BY <1>1, <1>5, <1>6, <1>7 DEF EventTypeOK

\* Drop for the subscription queues one Cancel command.
LEMMA DropsTyped ==
    ASSUME EventTypeOK, NEW w \in Waits, DropSubscription(w)
    PROVE  EventTypeOK' /\ Drops(w) /\ UNCHANGED <<journalVars, stage>>
<1>1. /\ UNCHANGED <<journalVars, stage, subscribed, sched, cursor, position, due, allowed>>
      /\ pc[w] \in {"drop", "leave"}
  BY DEF DropSubscription, worldVars
<1>2. commands' \in Seq(CommandValues) /\ Sends(Cancel(w))
  <2>1. Cancel(w) \in CommandValues /\ ChannelTypes
    BY CommandFacts DEF EventTypeOK
  <2>. QED
    BY <2>1, SendFacts, Zenon DEF DropSubscription, SendCancel
<1>3. AfterAnswer(w) \in {"register", "ended", "capture"}
  BY DEF AfterAnswer
<1>4. /\ pc' = [pc EXCEPT ![w] = IF pc[w] = "leave" THEN "ended" ELSE AfterAnswer(w)]
      /\ answer' = [answer EXCEPT ![w] = Nothing]
  BY DEF DropSubscription, Goto
<1>5. WaitTypes'
  BY <1>1, <1>3, <1>4, AnswerFacts DEF WaitTypes, EventTypeOK, Places
<1>6. Drops(w)
  BY <1>1, <1>2, <1>3, <1>4 DEF Drops, Elsewhere, EventTypeOK, WaitTypes
<1>7. PublishTypes' /\ ChannelTypes'
  BY <1>1, <1>2, Untouched DEF EventTypeOK, ChannelTypes
<1>. QED
  BY <1>1, <1>5, <1>6, <1>7 DEF EventTypeOK

\* A oneshot channel gets an answer, which its wait may no longer hear.
Heard(w, cursors) ==
    /\ \A v \in Waits \ {w} : answer'[v] = answer[v]
    /\ IF pc[w] \in {"recheck", "receive"}
       THEN answer'[w] # Nothing /\ answer'[w].cursors = cursors
       ELSE answer'[w] = answer[w]

Refuses(w) ==
    /\ sched.todo = {} /\ Takes(Register(w)) /\ Heard(w, {})
    /\ UNCHANGED <<subscribed, sched, pc, cursor, position>>

Admits(w) ==
    /\ sched.todo = {} /\ Takes(Register(w)) /\ sched'.todo = {w} /\ sched'.head = 0
    /\ UNCHANGED <<subscribed, answer, pc, cursor, position>>

Forgets(w) ==
    /\ sched.todo = {} /\ Takes(Cancel(w)) /\ subscribed' = subscribed \ {w}
    /\ UNCHANGED <<sched, answer, pc, cursor, position>>

Wakes ==
    /\ sched.todo = {} /\ (Takes(Published) \/ UNCHANGED commands)
    /\ sched'.todo = subscribed /\ sched'.head = 0
    /\ UNCHANGED <<subscribed, answer, pc, cursor, position>>

Rejects(w) ==
    /\ w \in sched.todo /\ sched'.todo = sched.todo \ {w} /\ sched'.head = 0 /\ Heard(w, {})
    /\ subscribed' = subscribed \ {w} /\ UNCHANGED <<commands, pc, cursor, position>>

Begins(w) ==
    /\ w \in sched.todo /\ sched'.todo = sched.todo /\ sched'.head = HistoryHead(journal)
    /\ UNCHANGED <<commands, subscribed, answer, pc, cursor, position>>

Finishes(w) ==
    /\ w \in sched.todo /\ sched'.todo = sched.todo \ {w} /\ sched'.head = 0
    /\ \A v \in Waits \ {w} : position'[v] = position[v]
    /\ UNCHANGED <<commands, pc, cursor>>
    /\ \/ /\ Batch(w) = {} /\ position'[w] = sched.head /\ UNCHANGED answer
          /\ subscribed' = subscribed \cup {w}
       \/ /\ Batch(w) = {} /\ position'[w] = sched.head /\ Heard(w, {})
          /\ subscribed' = subscribed \ {w}
       \/ /\ Batch(w) # {} /\ position'[w] = HistoryHead(Batch(w))
          /\ Heard(w, Cursors(Batch(w))) /\ subscribed' = subscribed \ {w}

\* The scheduler is idle with nothing to do, or reads for a wait it has to do.
SchedInv ==
    /\ sched.at = "idle" => sched = Idle
    /\ sched.at = "rows" => sched.now \in sched.todo

\* Every command is a registration, a cancellation or a publication.
LEMMA CommandKinds ==
    ASSUME NEW c \in CommandValues
    PROVE  /\ c.is = "register" => c.wait \in Waits /\ c = Register(c.wait)
           /\ c.is = "cancel" => c.wait \in Waits /\ c = Cancel(c.wait)
           /\ c.is = "published" => c = Published
<1>1. CASE \E w \in Waits : c = Register(w)
  BY <1>1, CommandFacts
<1>2. CASE \E w \in Waits : c = Cancel(w)
  BY <1>2, CommandFacts
<1>3. CASE c = Published
  BY <1>3 DEF Published
<1>. QED
  BY <1>1, <1>2, <1>3 DEF CommandValues

\* What a waiter has after the scheduler has sent to it.
LEMMA HeardFacts ==
    ASSUME WaitTypes, NEW w \in Waits, NEW what \in {"error", "events", "heartbeat"},
           NEW rows \in SUBSET Entries, Send(w, what, rows)
    PROVE  answer' \in [Waits -> Answers] /\ Heard(w, Cursors(rows))
<1>. what \in AnswerKinds \ {"nothing"}
  BY DEF AnswerKinds
<1>. QED
  BY SendEffect DEF Heard, WaitTypes

\* An answer without rows carries no cursors.
LEMMA NoRows == Cursors({}) = {} /\ {} \in SUBSET Entries
BY DEF Cursors

\* scheduler_loop refuses or admits a registration, forgets a cancelled one, or wakes.
LEMMA TakeCommandTyped ==
    ASSUME EventTypeOK, SchedInv, TakeCommand
    PROVE  /\ EventTypeOK' /\ SchedInv' /\ UNCHANGED <<journalVars, stage>>
           /\ Wakes \/ \E w \in Waits : Refuses(w) \/ Admits(w) \/ Forgets(w)
<1>. DEFINE c == Head(commands)
<1>1. /\ UNCHANGED <<journalVars, stage, pc, cursor, position, due, allowed>>
      /\ sched = Idle /\ sched.todo = {} /\ commands # <<>> /\ commands' = Tail(commands)
  BY IdleFacts DEF TakeCommand, worldVars
<1>2. commands' \in Seq(CommandValues) /\ Takes(c) /\ c \in CommandValues
  BY <1>1, TakeFacts, Zenon DEF EventTypeOK
<1>3. \/ c.is = "register" /\ Send(c.wait, "error", {}) /\ UNCHANGED <<sched, subscribed>>
      \/ c.is = "register" /\ Evaluate({c.wait}) /\ UNCHANGED <<answer, subscribed>>
      \/ c.is = "published" /\ Evaluate(subscribed) /\ UNCHANGED <<answer, subscribed>>
      \/ /\ c.is = "cancel" /\ subscribed' = subscribed \ {c.wait}
         /\ UNCHANGED <<sched, answer>>
  BY Zenon DEF TakeCommand
<1>. HIDE DEF c
<1>4. WaitTypes /\ subscribed \in SUBSET Waits /\ answer \in [Waits -> Answers] /\ sched \in Evaluations
  BY DEF EventTypeOK, ChannelTypes, WaitTypes
<1>5. /\ answer' \in [Waits -> Answers] /\ subscribed' \in SUBSET Waits /\ sched' \in Evaluations
      /\ SchedInv'
      /\ Wakes \/ \E w \in Waits : Refuses(w) \/ Admits(w) \/ Forgets(w)
  <2>1. CASE c.is = "register" /\ Send(c.wait, "error", {}) /\ UNCHANGED <<sched, subscribed>>
    <3>1. c.wait \in Waits /\ c = Register(c.wait)
      BY <1>2, <2>1, CommandKinds
    <3>2. answer' \in [Waits -> Answers] /\ Heard(c.wait, {})
      BY <1>4, <2>1, <3>1, HeardFacts, NoRows
    <3>3. Refuses(c.wait)
      BY <1>1, <1>2, <2>1, <3>1, <3>2 DEF Refuses
    <3>. QED
      BY <1>4, <2>1, <3>1, <3>2, <3>3 DEF SchedInv
  <2>2. CASE c.is = "register" /\ Evaluate({c.wait}) /\ UNCHANGED <<answer, subscribed>>
    <3>1. c.wait \in Waits /\ c = Register(c.wait)
      BY <1>2, <2>2, CommandKinds
    <3>2. /\ sched' \in Evaluations /\ sched'.todo = {c.wait} /\ sched'.head = 0
          /\ sched'.at \in {"idle", "bounds"} /\ (sched'.at = "idle" => sched' = Idle)
      BY <2>2, <3>1, EvaluateEffect
    <3>3. Admits(c.wait)
      BY <1>1, <1>2, <2>2, <3>1, <3>2 DEF Admits
    <3>. QED
      BY <1>4, <2>2, <3>1, <3>2, <3>3 DEF SchedInv
  <2>3. CASE c.is = "published" /\ Evaluate(subscribed) /\ UNCHANGED <<answer, subscribed>>
    <3>1. c = Published
      BY <1>2, <2>3, CommandKinds
    <3>2. /\ sched' \in Evaluations /\ sched'.todo = subscribed /\ sched'.head = 0
          /\ sched'.at \in {"idle", "bounds"} /\ (sched'.at = "idle" => sched' = Idle)
      BY <1>4, <2>3, EvaluateEffect
    <3>3. Wakes
      BY <1>1, <1>2, <2>3, <3>1, <3>2 DEF Wakes
    <3>. QED
      BY <1>4, <2>3, <3>2, <3>3 DEF SchedInv
  <2>4. CASE /\ c.is = "cancel" /\ subscribed' = subscribed \ {c.wait}
             /\ UNCHANGED <<sched, answer>>
    <3>1. c.wait \in Waits /\ c = Cancel(c.wait)
      BY <1>2, <2>4, CommandKinds
    <3>2. Forgets(c.wait)
      BY <1>1, <1>2, <2>4, <3>1 DEF Forgets
    <3>. QED
      BY <1>4, <2>4, <3>1, <3>2 DEF SchedInv
  <2>. QED
    BY <1>3, <2>1, <2>2, <2>3, <2>4
<1>6. PublishTypes' /\ ChannelTypes' /\ WaitTypes'
  BY <1>1, <1>2, <1>5, Untouched, Zenon DEF EventTypeOK, ChannelTypes, WaitTypes
<1>. QED
  BY <1>1, <1>5, <1>6 DEF EventTypeOK

\* recv_timeout that elapses makes the scheduler evaluate every subscription.
LEMMA TimeoutTyped ==
    ASSUME EventTypeOK, Timeout
    PROVE  EventTypeOK' /\ SchedInv' /\ UNCHANGED <<journalVars, stage>> /\ Wakes
<1>1. /\ UNCHANGED <<journalVars, stage, commands, subscribed, waitVars, due, allowed>>
      /\ sched = Idle /\ sched.todo = {} /\ Evaluate(subscribed)
  BY IdleFacts DEF Timeout, worldVars
<1>2. /\ sched' \in Evaluations /\ sched'.todo = subscribed /\ sched'.head = 0
      /\ sched'.at \in {"idle", "bounds"} /\ (sched'.at = "idle" => sched' = Idle)
  BY <1>1, EvaluateEffect DEF EventTypeOK, ChannelTypes
<1>3. Wakes /\ SchedInv'
  BY <1>1, <1>2 DEF Wakes, SchedInv, waitVars
<1>4. PublishTypes' /\ ChannelTypes' /\ WaitTypes'
  BY <1>1, <1>2, Untouched DEF EventTypeOK, ChannelTypes
<1>. QED
  BY <1>1, <1>3, <1>4 DEF EventTypeOK

\* evaluate begins with a subscription, or drops it with an error.
LEMMA ReadBoundsTyped ==
    ASSUME EventTypeOK, Ranked, NEW w \in Waits, ReadBounds(w)
    PROVE  /\ EventTypeOK' /\ SchedInv' /\ UNCHANGED <<journalVars, stage>>
           /\ Rejects(w) \/ Begins(w)
<1>1. /\ UNCHANGED <<journalVars, stage, commands, pc, cursor, position, due, allowed>>
      /\ w \in sched.todo
      /\ \/ /\ Send(w, "error", {}) /\ subscribed' = subscribed \ {w}
            /\ Evaluate(sched.todo \ {w})
         \/ /\ sched' = [sched EXCEPT !.at = "rows", !.now = w, !.head = HistoryHead(journal)]
            /\ UNCHANGED <<answer, subscribed>>
  BY Zenon DEF ReadBounds, worldVars
<1>2. /\ WaitTypes /\ subscribed \in SUBSET Waits /\ answer \in [Waits -> Answers]
      /\ sched \in Evaluations /\ sched.todo \in SUBSET Waits
  BY Fields DEF EventTypeOK, ChannelTypes, WaitTypes
<1>3. HistoryHead(journal) \in Nat
  BY HeadTyped DEF EventTypeOK
<1>4. /\ answer' \in [Waits -> Answers] /\ subscribed' \in SUBSET Waits /\ sched' \in Evaluations
      /\ SchedInv' /\ (Rejects(w) \/ Begins(w))
  <2>1. CASE /\ Send(w, "error", {}) /\ subscribed' = subscribed \ {w}
             /\ Evaluate(sched.todo \ {w})
    <3>1. answer' \in [Waits -> Answers] /\ Heard(w, {})
      BY <1>2, <2>1, HeardFacts, NoRows, Zenon
    <3>2. /\ sched' \in Evaluations /\ sched'.todo = sched.todo \ {w} /\ sched'.head = 0
          /\ sched'.at \in {"idle", "bounds"} /\ (sched'.at = "idle" => sched' = Idle)
      BY <1>2, <2>1, EvaluateEffect
    <3>. QED
      BY <1>1, <1>2, <2>1, <3>1, <3>2 DEF Rejects, SchedInv
  <2>2. CASE /\ sched' = [sched EXCEPT !.at = "rows", !.now = w, !.head = HistoryHead(journal)]
             /\ UNCHANGED <<answer, subscribed>>
    <3>1. /\ sched' \in Evaluations /\ sched'.at = "rows" /\ sched'.todo = sched.todo
          /\ sched'.now = w /\ sched'.head = HistoryHead(journal)
      BY <1>2, <1>3, <2>2, ReadingEffect, Zenon
    <3>. QED
      BY <1>1, <1>2, <2>2, <3>1 DEF Begins, SchedInv
  <2>. QED
    BY <1>1, <2>1, <2>2
<1>5. PublishTypes' /\ ChannelTypes' /\ WaitTypes'
  BY <1>1, <1>4, Untouched DEF EventTypeOK, ChannelTypes, WaitTypes
<1>. QED
  BY <1>1, <1>4, <1>5 DEF EventTypeOK

\* The rows of one evaluation are rows of the journal.
LEMMA BatchFacts ==
    ASSUME EventTypeOK, Ranked, NEW w \in Waits
    PROVE  /\ Batch(w) \in SUBSET Entries /\ HistoryHead(Batch(w)) \in Nat
           /\ Batch(w) # {} => \E e \in journal : e.cursor = HistoryHead(Batch(w))
<1>1. Batch(w) \subseteq journal /\ journal \in SUBSET Entries
  BY DEF Batch, EventTypeOK, PublishTypes
<1>. QED
  BY <1>1, HeadTyped DEF EventTypeOK, Ranked

\* evaluate ends with a subscription: rows, a heartbeat, or nothing.
LEMMA ReadRowsTyped ==
    ASSUME EventTypeOK, SchedInv, Ranked, ReadRows
    PROVE  /\ EventTypeOK' /\ SchedInv' /\ UNCHANGED <<journalVars, stage>>
           /\ sched.now \in Waits /\ Finishes(sched.now)
<1>. DEFINE w == sched.now
<1>1. /\ sched.at = "rows"
      /\ UNCHANGED <<journalVars, stage, commands, pc, cursor, due, allowed>>
      /\ position' = [position EXCEPT ![w] = IF Batch(w) # {} THEN HistoryHead(Batch(w)) ELSE sched.head]
      /\ IF Batch(w) = {} /\ ~HeartbeatDue(w) THEN UNCHANGED answer
         ELSE Send(w, IF Batch(w) # {} THEN "events" ELSE "heartbeat", Batch(w))
      /\ subscribed' = IF Batch(w) = {} /\ ~HeartbeatDue(w) THEN subscribed \cup {w} ELSE subscribed \ {w}
      /\ Evaluate(sched.todo \ {w})
  BY Zenon DEF ReadRows, worldVars
<1>2. /\ WaitTypes /\ subscribed \in SUBSET Waits /\ answer \in [Waits -> Answers]
      /\ sched \in Evaluations /\ sched.todo \in SUBSET Waits /\ w \in sched.todo /\ sched.head \in Nat
      /\ position \in [Waits -> Nat]
  BY <1>1, Fields, Zenon DEF EventTypeOK, ChannelTypes, WaitTypes, SchedInv
<1>. HIDE DEF w
<1>3. Batch(w) \in SUBSET Entries /\ HistoryHead(Batch(w)) \in Nat
  BY <1>2, BatchFacts
<1>4. /\ sched' \in Evaluations /\ sched'.todo = sched.todo \ {w} /\ sched'.head = 0
      /\ sched'.at \in {"idle", "bounds"} /\ (sched'.at = "idle" => sched' = Idle)
  BY <1>1, <1>2, EvaluateEffect, Zenon
<1>5. /\ position' \in [Waits -> Nat] /\ \A v \in Waits \ {w} : position'[v] = position[v]
      /\ position'[w] = IF Batch(w) # {} THEN HistoryHead(Batch(w)) ELSE sched.head
  BY <1>1, <1>2, <1>3, Zenon
<1>6. answer' \in [Waits -> Answers] /\ subscribed' \in SUBSET Waits /\ Finishes(w)
  <2>1. CASE Batch(w) = {} /\ ~HeartbeatDue(w)
    BY <1>1, <1>2, <1>4, <1>5, <2>1, Zenon DEF Finishes
  <2>2. CASE Batch(w) = {} /\ HeartbeatDue(w)
    <3>1. answer' \in [Waits -> Answers] /\ Heard(w, {})
      BY <1>1, <1>2, <2>2, HeardFacts, NoRows, Zenon
    <3>. QED
      BY <1>1, <1>2, <1>4, <1>5, <2>2, <3>1, Zenon DEF Finishes
  <2>3. CASE Batch(w) # {}
    <3>1. Send(w, "events", Batch(w)) /\ subscribed' = subscribed \ {w}
      BY <1>1, <2>3, Zenon
    <3>2. answer' \in [Waits -> Answers] /\ Heard(w, Cursors(Batch(w)))
      BY <1>2, <1>3, <3>1, HeardFacts, Zenon
    <3>. QED
      BY <1>1, <1>2, <1>4, <1>5, <2>3, <3>1, <3>2, Zenon DEF Finishes
  <2>. QED
    BY <2>1, <2>2, <2>3
<1>7. PublishTypes' /\ ChannelTypes' /\ WaitTypes' /\ SchedInv'
  BY <1>1, <1>4, <1>5, <1>6, Untouched, Zenon DEF EventTypeOK, ChannelTypes, WaitTypes, SchedInv
<1>. QED
  BY <1>1, <1>2, <1>6, <1>7, Zenon DEF EventTypeOK, w

Still == UNCHANGED <<commands, subscribed, sched, pc, cursor, position, answer>>

Publishes(p) == Settle(p) \/ Notify(p) \/ Insert(p) \/ AppendFails(p) \/ Commit(p)

Restarts ==
    /\ commands' = <<>> /\ subscribed' = {} /\ sched' = Idle /\ position' = cursor
    /\ UNCHANGED <<journal, lastCursor, cursor>>
    /\ \A w \in Waits : pc'[w] \in {"ended", "register", "check"} /\ answer'[w] = Nothing
    /\ \A p \in Publishers : writer'[p] = 0 /\ stage'[p] # "commit" /\ stage'[p] # "announce"
                             /\ (stage'[p] = "unsettled" <=> stage[p] = "unsettled")

\* A restart empties everything but the journal.
LEMMA CrashTyped ==
    ASSUME EventTypeOK, Crash
    PROVE  EventTypeOK' /\ SchedInv' /\ Restarts
<1>1. /\ UNCHANGED <<journal, lastCursor, cursor, due, allowed>> /\ position' = cursor
      /\ commands' = <<>> /\ subscribed' = {} /\ sched' = Idle
      /\ writer' = [p \in Publishers |-> 0] /\ answer' = [w \in Waits |-> Nothing]
      /\ stage' = [p \in Publishers |-> IF stage[p] = "unsettled" THEN "unsettled" ELSE "done"]
  BY DEF Crash
<1>2. pc' \in [Waits -> Places] /\ \A w \in Waits : pc'[w] \in {"ended", "register", "check"}
  BY DEF Crash, Places
<1>3. PublishTypes'
  BY <1>1 DEF PublishTypes, EventTypeOK, Stages
<1>4. ChannelTypes' /\ SchedInv'
  BY <1>1, IdleFacts DEF ChannelTypes, EventTypeOK, SchedInv
<1>5. WaitTypes'
  BY <1>1, <1>2, AnswerFacts DEF WaitTypes, EventTypeOK
<1>6. Restarts
  BY <1>1, <1>2 DEF Restarts
<1>. QED
  BY <1>3, <1>4, <1>5, <1>6 DEF EventTypeOK

\* Deadlines and revocations change nothing that is followed here.
LEMMA WorldTyped ==
    ASSUME EventTypeOK, NEW w \in Waits, DeadlinePasses(w) \/ RevokeGrant(w)
    PROVE  EventTypeOK' /\ UNCHANGED <<journalVars, stage>> /\ Still
<1>1. UNCHANGED <<journalVars, stage, schedulerVars, waitVars>>
  BY DEF DeadlinePasses, RevokeGrant
<1>2. due' \in SUBSET Waits /\ allowed' \in SUBSET Waits
  BY DEF DeadlinePasses, RevokeGrant, EventTypeOK, WaitTypes
<1>3. PublishTypes' /\ ChannelTypes' /\ WaitTypes'
  BY <1>1, <1>2, Untouched DEF EventTypeOK, WaitTypes, waitVars
<1>. QED
  BY <1>1, <1>3 DEF EventTypeOK, Still, schedulerVars, waitVars

\* Every step is one of these.
SchedulerClass ==
    \/ Wakes
    \/ \E w \in Waits : \/ Refuses(w) \/ Admits(w) \/ Forgets(w) \/ Rejects(w) \/ Begins(w)
                        \/ Finishes(w)

Fixed == UNCHANGED <<journal, lastCursor, writer, stage>>

StepClass ==
    \/ \E p \in Publishers :
          /\ Publishes(p) /\ Still
          /\ \A q \in Publishers : q # p => stage'[q] = stage[q] /\ writer'[q] = writer[q]
    \/ \E p \in Publishers :
          /\ Announce(p) /\ Sends(Published)
          /\ UNCHANGED <<journalVars, subscribed, sched, pc, cursor, position, answer>>
    \/ Fixed /\ Still
    \/ \E w \in Waits : Fixed /\ (Moves(w) \/ Registers(w) \/ Drops(w))
    \/ Fixed /\ SchedulerClass
    \/ Restarts

\* Every step keeps the types and is of one of the classes above.
LEMMA StepCases ==
    ASSUME EventTypeOK, SchedInv, Ranked, [EventNext]_eventVars
    PROVE  EventTypeOK' /\ SchedInv' /\ StepClass
<1>1. ASSUME NEW p \in Publishers, Publishes(p)
      PROVE  EventTypeOK' /\ SchedInv' /\ StepClass
  BY <1>1, PublishingTyped DEF Publishes, StepClass, Still, SchedInv
<1>2. ASSUME NEW p \in Publishers, Announce(p)
      PROVE  EventTypeOK' /\ SchedInv' /\ StepClass
  <2>1. UNCHANGED <<journalVars, subscribed, sched, pc, cursor, position, answer>>
    BY <1>2 DEF Announce, waitVars
  <2>. QED
    BY <1>2, <2>1, AnnounceTyped, Zenon DEF StepClass, SchedInv
<1>3. ASSUME NEW w \in Waits, WaitStep(w) \/ Disconnect(w)
      PROVE  EventTypeOK' /\ SchedInv' /\ StepClass
  <2>1. EventTypeOK' /\ (Moves(w) \/ Registers(w) \/ Drops(w)) /\ UNCHANGED <<journalVars, stage>>
    BY <1>3, MovesTyped, RegistersTyped, DropsTyped DEF WaitStep
  <2>2. UNCHANGED sched
    BY <2>1, Zenon DEF Moves, Registers, Drops
  <2>. QED
    BY <2>1, <2>2, Zenon DEF StepClass, Fixed, SchedInv, journalVars
<1>4. ASSUME NEW w \in Waits, DeadlinePasses(w) \/ RevokeGrant(w)
      PROVE  EventTypeOK' /\ SchedInv' /\ StepClass
  BY <1>4, WorldTyped, Zenon DEF StepClass, Fixed, Still, SchedInv, journalVars
<1>5. ASSUME SchedulerStep
      PROVE  EventTypeOK' /\ SchedInv' /\ StepClass
  <2>1. EventTypeOK' /\ SchedInv' /\ UNCHANGED <<journalVars, stage>> /\ SchedulerClass
    BY <1>5, TakeCommandTyped, TimeoutTyped, ReadBoundsTyped, ReadRowsTyped
       DEF SchedulerStep, SchedulerClass
  <2>. QED
    BY <2>1, Zenon DEF StepClass, Fixed, journalVars
<1>6. ASSUME Crash
      PROVE  EventTypeOK' /\ SchedInv' /\ StepClass
  BY <1>6, CrashTyped, Zenon DEF StepClass
<1>7. ASSUME UNCHANGED eventVars
      PROVE  EventTypeOK' /\ SchedInv' /\ StepClass
  <2>1. UNCHANGED <<journalVars, stage, schedulerVars, waitVars, due, allowed>>
    BY <1>7 DEF eventVars, worldVars
  <2>2. EventTypeOK'
    BY <2>1, Untouched DEF EventTypeOK
  <2>. QED
    BY <2>1, <2>2 DEF StepClass, Fixed, Still, SchedInv, journalVars, schedulerVars, waitVars
<1>. QED
  BY <1>1, <1>2, <1>3, <1>4, <1>5, <1>6, <1>7
     DEF EventNext, PublisherStep, Publishes, Publishers

-----------------------------------------------------------------------------
(* No cursor that anyone knows passes an append that is still open *)

Open == \E p \in Publishers : writer[p] # 0

Below(n) == n <= lastCursor /\ (Open => n < lastCursor)

FrontierInv ==
    /\ \A p, q \in Publishers : writer[p] # 0 /\ writer[q] # 0 => p = q
    /\ \A p \in Publishers : /\ writer[p] # 0 => writer[p] = lastCursor
                             /\ stage[p] = "commit" <=> writer[p] # 0
    /\ \A e \in journal : Below(e.cursor)
    /\ Below(sched.head)
    /\ \A w \in Waits : Below(cursor[w]) /\ Below(position[w])

\* No position is beyond what the open transaction will insert.
LEMMA FrontierBounds ==
    ASSUME EventTypeOK, Ranked, FrontierInv
    PROVE  /\ Below(0) /\ Below(HistoryHead(journal))
           /\ \A w \in Waits : Batch(w) # {} => Below(HistoryHead(Batch(w)))
<1>1. Below(0)
  BY DEF Below, Open, FrontierInv, EventTypeOK, PublishTypes
<1>2. HistoryHead(journal) = 0 \/ \E e \in journal : e.cursor = HistoryHead(journal)
  BY HeadTyped DEF EventTypeOK
<1>. QED
  BY <1>1, <1>2, BatchFacts DEF FrontierInv

\* A row that appears is newer than everything that was read before.
LEMMA PublishingBelow ==
    ASSUME EventTypeOK, FrontierInv, NEW p \in Publishers, Publishes(p)
    PROVE  /\ \A n \in Nat : Below(n) => Below(n)'
           /\ \A q, r \in Publishers : writer'[q] # 0 /\ writer'[r] # 0 => q = r
           /\ \A q \in Publishers : /\ writer'[q] # 0 => writer'[q] = lastCursor'
                                    /\ stage'[q] = "commit" <=> writer'[q] # 0
           /\ \A e \in journal' : e \in journal \/ (e.cursor = writer[p] /\ e.from = p /\ Commit(p))
           /\ Commit(p) => writer[p] = lastCursor /\ Open /\ ~Open'
<1>1. writer \in [Publishers -> Nat] /\ stage \in [Publishers -> Stages] /\ lastCursor \in Nat
  BY DEF EventTypeOK, PublishTypes
<1>2. CASE Settle(p) \/ Notify(p)
  BY <1>1, <1>2, Zenon DEF Settle, Notify, journalVars, Commit, FrontierInv, Below, Open
<1>3. CASE Insert(p)
  <2>1. /\ \A q \in Publishers : writer[q] = 0
        /\ writer' = [writer EXCEPT ![p] = lastCursor + 1] /\ lastCursor' = lastCursor + 1
        /\ stage' = [stage EXCEPT ![p] = "commit"] /\ journal' = journal
    BY <1>3, Zenon DEF Insert, TableLockFree
  <2>2. writer'[p] = lastCursor' /\ stage'[p] = "commit" /\ lastCursor' # 0
    BY <1>1, <2>1
  <2>3. ASSUME NEW q \in Publishers, q # p
        PROVE  writer'[q] = 0 /\ stage'[q] = stage[q] /\ stage[q] # "commit"
    <3>1. writer'[q] = writer[q] /\ stage'[q] = stage[q]
      BY <1>1, <2>1, <2>3
    <3>2. stage[q] = "commit" <=> writer[q] # 0
      BY Zenon DEF FrontierInv
    <3>. QED
      BY <2>1, <3>1, <3>2, Zenon
  <2>4. \A n \in Nat : Below(n) => Below(n)'
    BY <1>1, <2>1 DEF Below
  <2>5. ~Commit(p)
    BY <1>3, Zenon DEF Insert, Commit
  <2>. QED
    BY <2>1, <2>2, <2>3, <2>4, <2>5, Zenon
<1>4. CASE AppendFails(p)
  BY <1>1, <1>4, Zenon DEF AppendFails, Commit, FrontierInv, Below, Open
<1>5. CASE Commit(p)
  <2>1. \A e \in journal' : e \in journal \/ (e.cursor = writer[p] /\ e.from = p)
    BY <1>5 DEF Commit, Newest
  <2>2. /\ stage[p] = "commit" /\ writer' = [writer EXCEPT ![p] = 0]
        /\ stage' = [stage EXCEPT ![p] = "announce"] /\ lastCursor' = lastCursor
    BY <1>5 DEF Commit
  <2>3. /\ \A q \in Publishers : writer'[q] = 0
        /\ writer[p] = lastCursor /\ writer[p] # 0
        /\ \A q \in Publishers : stage'[q] # "commit"
    BY <1>1, <2>2 DEF FrontierInv
  <2>. QED
    BY <1>5, <2>1, <2>2, <2>3 DEF Below, Open
<1>. QED
  BY <1>2, <1>3, <1>4, <1>5, Zenon DEF Publishes

\* Cursors are handed out in order under the lock of append_event: no step breaks the frontier.
LEMMA FrontierStep ==
    ASSUME EventTypeOK, SchedInv, Ranked, FrontierInv, StepClass, EventTypeOK'
    PROVE  FrontierInv'
<1>1. /\ \A e \in journal : e.cursor \in Nat
      /\ sched.head \in Nat
      /\ \A w \in Waits : cursor[w] \in Nat /\ position[w] \in Nat
  BY Fields, Zenon DEF EventTypeOK, PublishTypes, ChannelTypes, WaitTypes
<1>2. ASSUME NEW p \in Publishers, Publishes(p), Still
      PROVE  FrontierInv'
  <2>1. \A e \in journal' : Below(e.cursor)'
    <3>. SUFFICES ASSUME NEW e \in journal'
                  PROVE  Below(e.cursor)'
      OBVIOUS
    <3>1. CASE e \in journal
      BY <1>1, <1>2, <3>1, PublishingBelow, Zenon DEF FrontierInv
    <3>2. CASE e \notin journal
      <4>1. e.cursor = lastCursor /\ Commit(p) /\ ~Open'
        BY <1>2, <3>2, PublishingBelow
      <4>2. lastCursor' = lastCursor /\ lastCursor \in Nat
        BY <4>1 DEF Commit, EventTypeOK, PublishTypes
      <4>. QED
        BY <4>1, <4>2 DEF Below
    <3>. QED
      BY <3>1, <3>2
  <2>. QED
    BY <1>1, <1>2, <2>1, PublishingBelow, Zenon DEF FrontierInv, Still
<1>3. ASSUME NEW p \in Publishers, Announce(p),
             UNCHANGED <<journalVars, subscribed, sched, pc, cursor, position, answer>>
      PROVE  FrontierInv'
  <2>1. UNCHANGED <<journal, lastCursor, writer, sched, cursor, position>>
    BY <1>3 DEF journalVars
  <2>2. \A q \in Publishers : stage'[q] = "commit" <=> stage[q] = "commit"
    BY <1>3, Zenon DEF Announce, EventTypeOK, PublishTypes
  <2>. QED
    BY <2>1, <2>2, Zenon DEF FrontierInv, Below, Open
<1>4. ASSUME Fixed, sched'.head \in {0, HistoryHead(journal), sched.head},
             \A w \in Waits :
                /\ cursor'[w] \in {cursor[w], position[w], HistoryHead(journal)}
                /\ \/ position'[w] \in {cursor[w], position[w], sched.head}
                   \/ Batch(w) # {} /\ position'[w] = HistoryHead(Batch(w))
      PROVE  FrontierInv'
  <2>1. \A n : Below(n)' <=> Below(n)
    BY <1>4, Zenon DEF Fixed, Below, Open
  <2>. QED
    BY <1>4, <2>1, FrontierBounds, Zenon DEF FrontierInv, Fixed
<1>5. ASSUME Fixed /\ Still
      PROVE  FrontierInv'
  BY <1>4, <1>5, Zenon DEF Still
<1>6. ASSUME NEW w \in Waits, Fixed, Moves(w) \/ Registers(w) \/ Drops(w)
      PROVE  FrontierInv'
  <2>1. /\ sched' = sched
        /\ \A v \in Waits : /\ cursor'[v] \in {cursor[v], position[v], HistoryHead(journal)}
                            /\ position'[v] \in {cursor[v], position[v]}
    BY <1>6, Zenon DEF Moves, Registers, Drops, Elsewhere
  <2>. QED
    BY <1>4, <1>6, <2>1
<1>7. ASSUME Fixed, SchedulerClass
      PROVE  FrontierInv'
  <2>1. /\ sched'.head \in {0, HistoryHead(journal), sched.head} /\ cursor' = cursor
        /\ \A w \in Waits : \/ position'[w] \in {position[w], sched.head}
                            \/ Batch(w) # {} /\ position'[w] = HistoryHead(Batch(w))
    BY <1>7, Zenon DEF SchedulerClass, Wakes, Refuses, Admits, Forgets, Rejects, Begins, Finishes
  <2>. QED
    BY <1>4, <1>7, <2>1, Zenon
<1>8. ASSUME Restarts
      PROVE  FrontierInv'
  <2>1. ~Open'
    BY <1>8, Zenon DEF Restarts, Open
  <2>2. \A n : Below(n) => Below(n)'
    BY <1>8, <2>1 DEF Restarts, Below
  <2>. QED
    BY <1>8, <2>2, FrontierBounds, IdleFacts, Zenon DEF FrontierInv, Restarts
<1>. QED
  BY <1>2, <1>3, <1>5, <1>6, <1>7, <1>8, Zenon DEF StepClass

-----------------------------------------------------------------------------
(* The channel, the subscriptions and the waits they belong to *)

Listening(w) == pc[w] \in {"recheck", "receive", "drop", "leave"}

Queued(c) == \E i \in 1 .. Len(commands) : commands[i] = c

\* The waits the scheduler holds a subscription of.
ActiveSet == subscribed \cup sched.todo

\* The registration of a wait that no longer listens, in the channel or made, is
\* followed by its cancellation.
Followed(w) ==
    \A i \in 1 .. Len(commands) : commands[i] = Register(w) =>
        \E k \in i + 1 .. Len(commands) : commands[k] = Cancel(w)

CancelInv ==
    \A w \in Waits : ~Listening(w) => Followed(w) /\ (w \in ActiveSet => Queued(Cancel(w)))

Hears(w) == pc[w] \in {"recheck", "receive"} /\ answer[w] = Nothing

\* What a wait that has its answer, or has not registered, has left behind: no
\* subscription and no registration.
Free(w) ==
    \/ pc[w] \in {"check", "capture", "register", "drop"}
    \/ pc[w] \in {"recheck", "receive"} /\ answer[w] # Nothing

\* The one registration of a wait in the channel, after every cancellation of it.
Registration(w, i) ==
    /\ commands[i] = Register(w)
    /\ \A k \in 1 .. Len(commands) :
          k # i => commands[k] # Register(w) /\ (k > i => commands[k] # Cancel(w))

Registering(w) == \E i \in 1 .. Len(commands) : Registration(w, i)

Owned(w) ==
    /\ Free(w) => w \notin ActiveSet /\ ~Queued(Register(w))
    /\ Hears(w) => \/ ~Queued(Register(w)) /\ ~Queued(Cancel(w)) /\ w \in ActiveSet
                   \/ w \notin ActiveSet /\ Registering(w)

OwnInv == \A w \in Waits : Owned(w)

\* After a restart the channel and the subscriptions are empty, and no wait is
\* listening.
LEMMA RestartEmpties ==
    ASSUME Restarts
    PROVE  /\ ActiveSet' = {}
           /\ \A c : ~Queued(c)'
           /\ \A w \in Waits : Followed(w)' /\ ~Hears(w)'
<1>1. commands' = <<>> /\ Len(commands') = 0 /\ subscribed' = {} /\ sched'.todo = {}
  BY IdleFacts DEF Restarts
<1>2. 1 .. Len(commands') = {}
  BY <1>1
<1>3. \A w \in Waits : ~Hears(w)'
  BY DEF Restarts, Hears
<1>. QED
  BY <1>1, <1>2, <1>3 DEF ActiveSet, Queued, Followed

\* What a step does to them.
ChannelClass ==
    \/ UNCHANGED <<commands, pc, answer>> /\ ActiveSet' = ActiveSet
    \/ UNCHANGED <<pc, answer>> /\ ActiveSet' = ActiveSet /\ (Sends(Published) \/ Takes(Published))
    \/ \E w \in Waits :
          \/ Moves(w) /\ ActiveSet' = ActiveSet
          \/ Registers(w) /\ ActiveSet' = ActiveSet
          \/ Drops(w) /\ ActiveSet' = ActiveSet
          \/ Takes(Register(w)) /\ Heard(w, {}) /\ UNCHANGED pc /\ ActiveSet' = ActiveSet
          \/ Takes(Register(w)) /\ UNCHANGED <<answer, pc>> /\ ActiveSet' = ActiveSet \cup {w}
          \/ Takes(Cancel(w)) /\ UNCHANGED <<answer, pc>> /\ ActiveSet' = ActiveSet \ {w}
          \/ /\ \E cursors : Heard(w, cursors)
             /\ UNCHANGED <<commands, pc>> /\ w \in ActiveSet /\ ActiveSet' = ActiveSet \ {w}
    \/ Restarts

\* Every step is of one of these kinds as far as the command channel goes.
LEMMA ChannelCases ==
    ASSUME EventTypeOK, SchedInv, StepClass, EventTypeOK'
    PROVE  ChannelClass
<1>1. CASE SchedulerClass
  <2>1. CASE Wakes
    BY <2>1, Zenon DEF Wakes, ChannelClass, ActiveSet
  <2>2. ASSUME NEW w \in Waits, Refuses(w) \/ Admits(w) \/ Forgets(w)
        PROVE  ChannelClass
    BY <2>2, Zenon DEF Refuses, Admits, Forgets, ChannelClass, ActiveSet
  <2>3. ASSUME NEW w \in Waits, Rejects(w) \/ Begins(w)
        PROVE  ChannelClass
    BY <2>3, Zenon DEF Rejects, Begins, ChannelClass, ActiveSet
  <2>4. ASSUME NEW w \in Waits, Finishes(w)
        PROVE  ChannelClass
    BY <2>4, Zenon DEF Finishes, ChannelClass, ActiveSet
  <2>. QED
    BY <1>1, <2>1, <2>2, <2>3, <2>4 DEF SchedulerClass
<1>2. ASSUME NEW w \in Waits, Moves(w) \/ Registers(w) \/ Drops(w)
      PROVE  ChannelClass
  <2>1. ActiveSet' = ActiveSet
    BY <1>2, Zenon DEF Moves, Registers, Drops, ActiveSet
  <2>. QED
    BY <1>2, <2>1 DEF ChannelClass
<1>. QED
  BY <1>1, <1>2, Zenon DEF StepClass, Still, ChannelClass, ActiveSet

\* What is queued after a command was sent.
LEMMA SendingQueue ==
    ASSUME ChannelTypes, NEW c, Sends(c)
    PROVE  /\ \A d : Queued(d)' <=> Queued(d) \/ d = c
           /\ Len(commands) \in Nat
<1>1. Len(commands) \in Nat
  BY DEF ChannelTypes
<1>2. /\ 1 .. Len(commands') = (1 .. Len(commands)) \cup {Len(commands) + 1}
      /\ \A i \in 1 .. Len(commands) : commands'[i] = commands[i]
      /\ commands'[Len(commands) + 1] = c
  BY <1>1 DEF Sends
<1>. QED
  BY <1>1, <1>2, Zenon DEF Queued

\* What is queued after a command was taken.
LEMMA TakingQueue ==
    ASSUME ChannelTypes, NEW c, Takes(c)
    PROVE  /\ \A d : Queued(d)' => Queued(d)
           /\ \A d : Queued(d) /\ d # c => Queued(d)'
           /\ Queued(c) /\ Len(commands) \in Nat \ {0} /\ Len(commands') = Len(commands) - 1
<1>1. Len(commands) \in Nat \ {0} /\ Len(commands') = Len(commands) - 1 /\ commands[1] = c
  BY DEF Takes, ChannelTypes
<1>2. \A d : Queued(d)' => Queued(d)
  BY <1>1 DEF Takes, Queued
<1>3. ASSUME NEW d, Queued(d), d # c
      PROVE  Queued(d)'
  <2>1. PICK i \in 1 .. Len(commands) : commands[i] = d
    BY <1>3 DEF Queued
  <2>2. i # 1
    BY <1>1, <1>3, <2>1
  <2>3. i - 1 \in 1 .. Len(commands') /\ commands'[i - 1] = d
    BY <1>1, <2>1, <2>2 DEF Takes
  <2>. QED
    BY <2>3, Zenon DEF Queued
<1>4. Queued(c)
  <2>1. 1 \in 1 .. Len(commands)
    BY <1>1
  <2>. QED
    BY <1>1, <2>1, Zenon DEF Queued
<1>. QED
  BY <1>1, <1>2, <1>3, <1>4, Zenon

\* A dropped registration is still followed by its cancellation after a send.
LEMMA FollowedSends ==
    ASSUME ChannelTypes, NEW c, Sends(c), NEW w \in Waits
    PROVE  /\ Followed(w) /\ c # Register(w) => Followed(w)'
           /\ c = Cancel(w) => Followed(w)'
<1>1. Len(commands) \in Nat /\ Register(w) # Cancel(w)
  BY CommandFacts DEF ChannelTypes
<1>2. ASSUME Followed(w), c # Register(w)
      PROVE  Followed(w)'
  <2>. SUFFICES ASSUME NEW i \in 1 .. Len(commands'), commands'[i] = Register(w)
                PROVE  \E k \in i + 1 .. Len(commands') : commands'[k] = Cancel(w)
    BY DEF Followed
  <2>1. i \in 1 .. Len(commands) /\ commands[i] = Register(w)
    BY <1>1, <1>2 DEF Sends
  <2>2. PICK k \in i + 1 .. Len(commands) : commands[k] = Cancel(w)
    BY <1>2, <2>1 DEF Followed
  <2>. QED
    BY <1>1, <2>1, <2>2 DEF Sends
<1>3. ASSUME c = Cancel(w)
      PROVE  Followed(w)'
  BY <1>1, <1>3 DEF Followed, Sends
<1>. QED
  BY <1>2, <1>3

\* A dropped registration is still followed by its cancellation after a command is taken.
LEMMA FollowedTakes ==
    ASSUME ChannelTypes, NEW c, Takes(c), NEW w \in Waits, Followed(w)
    PROVE  /\ Followed(w)'
           /\ c = Register(w) => Queued(Cancel(w))'
<1>1. Len(commands) \in Nat \ {0} /\ Len(commands') = Len(commands) - 1 /\ commands[1] = c
  BY DEF ChannelTypes, Takes
<1>2. ASSUME NEW i \in 1 .. Len(commands), commands[i] = Register(w)
      PROVE  \E k \in i .. Len(commands') : commands'[k] = Cancel(w)
  <2>1. PICK k \in i + 1 .. Len(commands) : commands[k] = Cancel(w)
    BY <1>2 DEF Followed
  <2>2. k - 1 \in i .. Len(commands') /\ k - 1 \in 1 .. Len(commands') /\ k = (k - 1) + 1
    BY <1>1
  <2>3. commands'[k - 1] = Cancel(w)
    BY <2>1, <2>2 DEF Takes
  <2>. QED
    BY <2>2, <2>3
<1>3. Followed(w)'
  <2>. SUFFICES ASSUME NEW i \in 1 .. Len(commands'), commands'[i] = Register(w)
                PROVE  \E k \in i + 1 .. Len(commands') : commands'[k] = Cancel(w)
    BY DEF Followed
  <2>1. i + 1 \in 1 .. Len(commands) /\ commands[i + 1] = Register(w)
    BY <1>1 DEF Takes
  <2>. QED
    BY <1>2, <2>1
<1>4. c = Register(w) => Queued(Cancel(w))'
  BY <1>1, <1>2 DEF Queued
<1>. QED
  BY <1>3, <1>4

\* No step loses the cancellation of a subscription that was dropped.
LEMMA CancelStep ==
    ASSUME EventTypeOK, CancelInv, ChannelClass
    PROVE  CancelInv'
<1>. SUFFICES ASSUME NEW w \in Waits, ~Listening(w)'
              PROVE  Followed(w)' /\ (w \in ActiveSet' => Queued(Cancel(w))')
  BY DEF CancelInv
<1>1. ChannelTypes /\ WaitTypes
  BY DEF EventTypeOK
<1>2. CASE UNCHANGED <<commands, pc, answer>> /\ ActiveSet' = ActiveSet
  BY <1>2 DEF CancelInv, Listening, Followed, Queued
<1>3. CASE UNCHANGED <<pc, answer>> /\ ActiveSet' = ActiveSet /\ (Sends(Published) \/ Takes(Published))
  <2>1. Followed(w) /\ (w \in ActiveSet => Queued(Cancel(w)))
    BY <1>3 DEF CancelInv, Listening
  <2>2. Published # Register(w) /\ Published # Cancel(w)
    BY CommandFacts
  <2>. QED
    BY <1>1, <1>3, <2>1, <2>2, FollowedSends, FollowedTakes, SendingQueue, TakingQueue
<1>4. ASSUME NEW v \in Waits, Moves(v), ActiveSet' = ActiveSet
      PROVE  Followed(w)' /\ (w \in ActiveSet' => Queued(Cancel(w))')
  <2>1. ~Listening(w) /\ commands' = commands
    BY <1>4, Zenon DEF Moves, Elsewhere, Listening
  <2>. QED
    BY <1>4, <2>1 DEF CancelInv, Followed, Queued
<1>5. ASSUME NEW v \in Waits, Registers(v), ActiveSet' = ActiveSet
      PROVE  Followed(w)' /\ (w \in ActiveSet' => Queued(Cancel(w))')
  <2>1. ~Listening(w)
    BY <1>5 DEF Registers, Elsewhere, Listening
  <2>2. Followed(w) /\ (w \in ActiveSet => Queued(Cancel(w)))
    BY <2>1 DEF CancelInv
  <2>3. CASE UNCHANGED commands
    BY <1>5, <2>2, <2>3 DEF Followed, Queued
  <2>4. CASE pc'[v] = AfterRegistration(v) /\ Sends(Register(v))
    <3>1. v # w
      BY <2>4 DEF AfterRegistration, Listening
    <3>2. Register(v) # Register(w)
      BY <3>1, CommandFacts
    <3>. QED
      BY <1>1, <1>5, <2>2, <2>4, <3>2, FollowedSends, SendingQueue
  <2>. QED
    BY <1>5, <2>3, <2>4, Zenon DEF Registers
<1>6. ASSUME NEW v \in Waits, Drops(v), ActiveSet' = ActiveSet
      PROVE  Followed(w)' /\ (w \in ActiveSet' => Queued(Cancel(w))')
  <2>1. Sends(Cancel(v)) /\ Cancel(v) # Register(w)
    BY <1>6, CommandFacts, Zenon DEF Drops
  <2>2. CASE v = w
    BY <1>1, <2>1, <2>2, FollowedSends, SendingQueue
  <2>3. CASE v # w
    <3>1. ~Listening(w)
      BY <1>6, <2>3, Zenon DEF Drops, Elsewhere, Listening
    <3>2. Followed(w) /\ (w \in ActiveSet => Queued(Cancel(w)))
      BY <3>1 DEF CancelInv
    <3>. QED
      BY <1>1, <1>6, <2>1, <3>2, FollowedSends, SendingQueue
  <2>. QED
    BY <2>2, <2>3
<1>7. ASSUME NEW v \in Waits, UNCHANGED pc,
             \/ Takes(Register(v)) /\ ActiveSet' \subseteq ActiveSet \cup {v}
             \/ Takes(Cancel(v)) /\ ActiveSet' = ActiveSet \ {v}
      PROVE  Followed(w)' /\ (w \in ActiveSet' => Queued(Cancel(w))')
  <2>1. Followed(w) /\ (w \in ActiveSet => Queued(Cancel(w)))
    BY <1>7 DEF CancelInv, Listening
  <2>2. /\ Register(v) # Cancel(w) /\ (v = w => Register(v) = Register(w))
        /\ (Cancel(v) = Cancel(w) => v = w)
    BY CommandFacts
  <2>. QED
    BY <1>1, <1>7, <2>1, <2>2, FollowedTakes, TakingQueue
<1>8. ASSUME UNCHANGED <<commands, pc>>, ActiveSet' \subseteq ActiveSet
      PROVE  Followed(w)' /\ (w \in ActiveSet' => Queued(Cancel(w))')
  BY <1>8 DEF CancelInv, Listening, Followed, Queued
<1>9. ASSUME Restarts
      PROVE  Followed(w)' /\ (w \in ActiveSet' => Queued(Cancel(w))')
  BY <1>9, RestartEmpties
<1>. QED
  BY <1>2, <1>3, <1>4, <1>5, <1>6, <1>7, <1>8, <1>9, Zenon DEF ChannelClass

\* The one registration of a waiter stays the only one while others send.
LEMMA RegistrationSends ==
    ASSUME ChannelTypes, NEW w \in Waits, NEW c, Sends(c)
    PROVE  /\ Registering(w) /\ c # Register(w) /\ c # Cancel(w) => Registering(w)'
           /\ ~Queued(Register(w)) /\ c = Register(w) => Registering(w)'
<1>1. Len(commands) \in Nat
  BY DEF ChannelTypes
<1>2. ASSUME NEW i \in 1 .. Len(commands), Registration(w, i), c # Register(w), c # Cancel(w)
      PROVE  Registering(w)'
  <2>1. Registration(w, i)' /\ i \in 1 .. Len(commands')
    BY <1>1, <1>2 DEF Sends, Registration
  <2>. QED
    BY <2>1 DEF Registering
<1>3. ASSUME ~Queued(Register(w)), c = Register(w)
      PROVE  Registering(w)'
  <2>. PICK n \in Nat : n = Len(commands) + 1
    BY <1>1
  <2>1. n \in 1 .. Len(commands')
    BY <1>1 DEF Sends
  <2>2. Registration(w, n)'
    BY <1>1, <1>3 DEF Sends, Registration, Queued
  <2>. QED
    BY <2>1, <2>2 DEF Registering
<1>. QED
  BY <1>2, <1>3 DEF Registering

\* The one registration of a waiter stays in the channel until it is taken.
LEMMA RegistrationTakes ==
    ASSUME ChannelTypes, NEW w \in Waits, NEW c, Takes(c), Registering(w)
    PROVE  /\ c # Register(w) => Registering(w)'
           /\ c = Register(w) => ~Queued(Register(w))' /\ ~Queued(Cancel(w))'
<1>1. Len(commands) \in Nat \ {0} /\ Len(commands') = Len(commands) - 1 /\ commands[1] = c
  BY DEF ChannelTypes, Takes
<1>2. PICK i \in 1 .. Len(commands) : Registration(w, i)
  BY DEF Registering
<1>3. ASSUME c # Register(w)
      PROVE  Registering(w)'
  <2>1. i # 1
    BY <1>1, <1>2, <1>3 DEF Registration
  <2>2. i - 1 \in 1 .. Len(commands') /\ commands'[i - 1] = commands[i]
    BY <1>1, <2>1 DEF Takes
  <2>3. Registration(w, i - 1)'
    <3>1. commands'[i - 1] = Register(w)
      BY <1>2, <2>2, Zenon DEF Registration
    <3>2. ASSUME NEW k \in 1 .. Len(commands'), k # i - 1
          PROVE  commands'[k] # Register(w) /\ (k > i - 1 => commands'[k] # Cancel(w))
      <4>1. /\ k + 1 \in 1 .. Len(commands) /\ k + 1 # i /\ (k > i - 1 => k + 1 > i)
            /\ commands'[k] = commands[k + 1]
        BY <1>1, <3>2 DEF Takes
      <4>. QED
        BY <1>2, <4>1, Zenon DEF Registration
    <3>. QED
      BY <3>1, <3>2, Zenon DEF Registration
  <2>. QED
    BY <2>2, <2>3 DEF Registering
<1>4. ASSUME c = Register(w)
      PROVE  ~Queued(Register(w))' /\ ~Queued(Cancel(w))'
  <2>1. i = 1
    BY <1>1, <1>2, <1>4 DEF Registration
  <2>2. ASSUME NEW k \in 1 .. Len(commands')
        PROVE  commands'[k] # Register(w) /\ commands'[k] # Cancel(w)
    <3>1. /\ k + 1 \in 1 .. Len(commands) /\ k + 1 # 1 /\ k + 1 > 1
          /\ commands'[k] = commands[k + 1]
      BY <1>1 DEF Takes
    <3>. QED
      BY <1>2, <2>1, <3>1, Zenon DEF Registration
  <2>. QED
    BY <2>2, Zenon DEF Queued
<1>. QED
  BY <1>3, <1>4

\* A waiter that registers has its command in the channel.
LEMMA RegisteringQueued ==
    ASSUME NEW w \in Waits, Registering(w)
    PROVE  Queued(Register(w))
BY DEF Registering, Registration, Queued

\* No step gives a waiter a second subscription or an answer it cannot read.
LEMMA OwnStep ==
    ASSUME EventTypeOK, OwnInv, ChannelClass
    PROVE  OwnInv'
<1>. SUFFICES ASSUME NEW w \in Waits
              PROVE  Owned(w)'
  BY DEF OwnInv
<1>1. ChannelTypes /\ WaitTypes /\ Owned(w)
  BY DEF EventTypeOK, OwnInv
<1>2. CASE UNCHANGED <<commands, pc, answer>> /\ ActiveSet' = ActiveSet
  BY <1>1, <1>2, Zenon DEF Owned, Free, Hears, Queued, Registering, Registration
<1>3. CASE UNCHANGED <<pc, answer>> /\ ActiveSet' = ActiveSet /\ (Sends(Published) \/ Takes(Published))
  <2>1. Published # Register(w) /\ Published # Cancel(w)
    BY CommandFacts
  <2>2. (Free(w)' <=> Free(w)) /\ (Hears(w)' <=> Hears(w))
    BY <1>3 DEF Free, Hears
  <2>. QED
    BY <1>1, <1>3, <2>1, <2>2, RegistrationSends, RegistrationTakes, SendingQueue, TakingQueue DEF Owned
<1>4. ASSUME NEW v \in Waits, Moves(v), ActiveSet' = ActiveSet
      PROVE  Owned(w)'
  <2>1. (Free(w)' => Free(w)) /\ (Hears(w)' => Hears(w)) /\ commands' = commands
    BY <1>4, Zenon DEF Moves, Elsewhere, Free, Hears
  <2>. QED
    BY <1>1, <1>4, <2>1, Zenon DEF Owned, Queued, Registering, Registration
<1>5. ASSUME NEW v \in Waits, Registers(v), ActiveSet' = ActiveSet
      PROVE  Owned(w)'
  <2>1. CASE v # w
    <3>1. (Free(w)' <=> Free(w)) /\ (Hears(w)' <=> Hears(w))
      BY <1>5, <2>1 DEF Registers, Elsewhere, Free, Hears
    <3>2. CASE UNCHANGED commands
      BY <1>1, <1>5, <3>1, <3>2 DEF Owned, Queued, Registering, Registration
    <3>3. CASE Sends(Register(v))
      <4>1. Register(v) # Register(w) /\ Register(v) # Cancel(w)
        BY <2>1, CommandFacts
      <4>. QED
        BY <1>1, <1>5, <3>1, <3>3, <4>1, RegistrationSends, SendingQueue DEF Owned
    <3>. QED
      BY <1>5, <3>2, <3>3, Zenon DEF Registers
  <2>2. CASE v = w
    <3>1. w \notin ActiveSet /\ ~Queued(Register(w))
      BY <1>1, <1>5, <2>2, Zenon DEF Registers, Owned, Free
    <3>2. CASE pc'[w] = "ended"
      BY <3>2 DEF Owned, Free, Hears
    <3>3. CASE pc'[w] = AfterRegistration(w) /\ Sends(Register(w))
      <4>1. ~Free(w)' /\ Registering(w)'
        BY <1>1, <1>5, <2>2, <3>1, <3>3, RegistrationSends, Zenon DEF Registers, Free, AfterRegistration
      <4>. QED
        BY <1>5, <3>1, <4>1 DEF Owned
    <3>. QED
      BY <1>5, <2>2, <3>2, <3>3, Zenon DEF Registers
  <2>. QED
    BY <2>1, <2>2
<1>6. ASSUME NEW v \in Waits, Drops(v), ActiveSet' = ActiveSet
      PROVE  Owned(w)'
  <2>1. Sends(Cancel(v)) /\ Cancel(v) # Register(w) /\ (v # w => Cancel(v) # Cancel(w))
    BY <1>6, CommandFacts, Zenon DEF Drops
  <2>2. CASE v # w
    <3>1. (Free(w)' <=> Free(w)) /\ (Hears(w)' <=> Hears(w))
      BY <1>6, <2>2, Zenon DEF Drops, Elsewhere, Free, Hears
    <3>. QED
      BY <1>1, <1>6, <2>1, <2>2, <3>1, RegistrationSends, SendingQueue DEF Owned
  <2>3. CASE v = w
    <3>1. ~Hears(w)' /\ (Free(w)' => Free(w))
      BY <1>6, <2>3, Zenon DEF Drops, Free, Hears
    <3>. QED
      BY <1>1, <1>6, <2>1, <3>1, SendingQueue DEF Owned
  <2>. QED
    BY <2>2, <2>3
<1>7. ASSUME NEW v \in Waits, Takes(Register(v)), UNCHANGED pc,
             \/ Heard(v, {}) /\ ActiveSet' = ActiveSet
             \/ UNCHANGED answer /\ ActiveSet' = ActiveSet \cup {v}
      PROVE  Owned(w)'
  <2>1. CASE v # w
    <3>1. Register(v) # Register(w) /\ Register(v) # Cancel(w)
      BY <2>1, CommandFacts
    <3>2. (Free(w)' <=> Free(w)) /\ (Hears(w)' <=> Hears(w)) /\ (w \in ActiveSet' <=> w \in ActiveSet)
      BY <1>7, <2>1, Zenon DEF Heard, Free, Hears
    <3>. QED
      BY <1>1, <1>7, <3>1, <3>2, RegistrationTakes, TakingQueue DEF Owned
  <2>2. CASE v = w
    <3>1. Queued(Register(w)) /\ ~Free(w)
      BY <1>1, <1>7, <2>2, TakingQueue DEF Owned
    <3>2. CASE Hears(w)
      <4>1. w \notin ActiveSet /\ Registering(w)
        BY <1>1, <3>1, <3>2 DEF Owned
      <4>2. ~Queued(Register(w))' /\ ~Queued(Cancel(w))'
        BY <1>1, <1>7, <2>2, <4>1, RegistrationTakes
      <4>3. CASE Heard(v, {}) /\ ActiveSet' = ActiveSet
        BY <1>7, <2>2, <3>2, <4>1, <4>2, <4>3, Zenon DEF Owned, Heard, Hears
      <4>4. CASE UNCHANGED answer /\ ActiveSet' = ActiveSet \cup {v}
        BY <1>7, <2>2, <3>2, <4>2, <4>4, Zenon DEF Owned, Hears, Free
      <4>. QED
        BY <1>7, <4>3, <4>4
    <3>3. CASE ~Hears(w)
      <4>1. ~Free(w)' /\ ~Hears(w)'
        BY <1>7, <2>2, <3>1, <3>3, Zenon DEF Heard, Free, Hears
      <4>. QED
        BY <4>1 DEF Owned
    <3>. QED
      BY <3>2, <3>3
  <2>. QED
    BY <2>1, <2>2
<1>8. ASSUME NEW v \in Waits, Takes(Cancel(v)), UNCHANGED <<answer, pc>>, ActiveSet' = ActiveSet \ {v}
      PROVE  Owned(w)'
  <2>1. Cancel(v) # Register(w) /\ (Free(w)' <=> Free(w)) /\ (Hears(w)' <=> Hears(w))
    BY <1>8, CommandFacts, Zenon DEF Free, Hears
  <2>2. Queued(Cancel(v))
    BY <1>1, <1>8, TakingQueue
  <2>. QED
    BY <1>1, <1>8, <2>1, <2>2, RegistrationTakes, TakingQueue DEF Owned
<1>9. ASSUME NEW v \in Waits, NEW cursors, Heard(v, cursors), UNCHANGED <<commands, pc>>,
             v \in ActiveSet, ActiveSet' = ActiveSet \ {v}
      PROVE  Owned(w)'
  <2>1. /\ (Queued(Register(w))' <=> Queued(Register(w))) /\ (Queued(Cancel(w))' <=> Queued(Cancel(w)))
        /\ (Registering(w)' <=> Registering(w))
    BY <1>9 DEF Queued, Registering, Registration
  <2>2. CASE v # w
    <3>1. (Free(w)' <=> Free(w)) /\ (Hears(w)' <=> Hears(w))
      BY <1>9, <2>2 DEF Heard, Free, Hears
    <3>. QED
      BY <1>1, <1>9, <2>1, <2>2, <3>1 DEF Owned
  <2>3. CASE v = w
    <3>1. ~Hears(w)' /\ (Free(w)' => Hears(w) \/ Free(w))
      BY <1>9, <2>3, Zenon DEF Heard, Free, Hears
    <3>. QED
      BY <1>1, <1>9, <2>1, <2>3, <3>1 DEF Owned
  <2>. QED
    BY <2>2, <2>3
<1>10. ASSUME Restarts
       PROVE  Owned(w)'
  BY <1>10, RestartEmpties DEF Owned
<1>. QED
  BY <1>2, <1>3, <1>4, <1>5, <1>6, <1>7, <1>8, <1>9, <1>10, Zenon DEF ChannelClass

-----------------------------------------------------------------------------
(* No event is passed *)

Unpassed(w) ==
    \A e \in journal :
        Matches(w, e) /\ cursor[w] < e.cursor /\ e.cursor <= position[w]
            => e.cursor \in answer[w].cursors

PassedInv == \A w \in Waits : pc[w] \in {"recheck", "receive"} => Unpassed(w)

\* A wait that the scheduler works for has no answer yet.
LEMMA Unanswered ==
    ASSUME OwnInv, NEW w \in Waits, w \in ActiveSet \/ Queued(Register(w)),
           pc[w] \in {"recheck", "receive"}
    PROVE  answer[w] = Nothing /\ answer[w].cursors = {} /\ Hears(w)
BY AnswerFacts, Zenon DEF OwnInv, Owned, Free, Hears

\* No number is both above another and at most that one.
LEMMA Between == \A m, n \in Nat : ~(m < n /\ n <= m)
OBVIOUS

\* No step moves the position of a live subscription past a retained row without sending it.
LEMMA PassedStep ==
    ASSUME EventTypeOK, EventTypeOK', Ranked, FrontierInv, OwnInv, PassedInv, StepClass
    PROVE  PassedInv'
<1>. SUFFICES ASSUME NEW w \in Waits, pc'[w] \in {"recheck", "receive"},
                     NEW e \in journal', Matches(w, e),
                     cursor'[w] < e.cursor, e.cursor <= position'[w]
              PROVE  e.cursor \in answer'[w].cursors
  BY Zenon DEF PassedInv, Unpassed, Matches
<1>1. /\ e.cursor \in Nat /\ cursor[w] \in Nat /\ position[w] \in Nat /\ lastCursor \in Nat
      /\ ChannelTypes
  BY Fields, Zenon DEF EventTypeOK, PublishTypes, WaitTypes
<1>2. ASSUME e \in journal, pc[w] \in {"recheck", "receive"}, cursor'[w] = cursor[w],
             position'[w] = position[w], answer'[w] = answer[w]
      PROVE  e.cursor \in answer'[w].cursors
  BY <1>2, Zenon DEF PassedInv, Unpassed
<1>3. ASSUME NEW p \in Publishers, Publishes(p), Still
      PROVE  e.cursor \in answer'[w].cursors
  <2>1. CASE e \in journal
    BY <1>2, <1>3, <2>1, Zenon DEF Still
  <2>2. CASE e \notin journal
    <3>1. e.cursor = lastCursor /\ Open
      BY <1>3, <2>2, PublishingBelow, Zenon
    <3>2. position[w] < lastCursor
      BY <3>1, Zenon DEF FrontierInv, Below
    <3>3. position'[w] = position[w]
      BY <1>3 DEF Still
    <3>. QED
      BY <1>1, <3>1, <3>2, <3>3, Between, Zenon
  <2>. QED
    BY <2>1, <2>2
<1>4. ASSUME UNCHANGED <<journal, pc, cursor, position, answer>>
      PROVE  e.cursor \in answer'[w].cursors
  BY <1>2, <1>4, Zenon
<1>5. ASSUME NEW v \in Waits, Fixed, Moves(v) \/ Registers(v) \/ Drops(v)
      PROVE  e.cursor \in answer'[w].cursors
  <2>1. e \in journal
    BY <1>5, Zenon DEF Fixed
  <2>2. CASE v # w
    BY <1>2, <1>5, <2>1, <2>2, Zenon DEF Moves, Registers, Drops, Elsewhere
  <2>3. CASE v = w /\ Moves(w)
    BY <1>2, <2>1, <2>3, Zenon DEF Moves
  <2>4. CASE v = w /\ Registers(w)
    <3>1. position'[w] = cursor[w] /\ cursor'[w] = cursor[w]
      BY <2>4, Zenon DEF Registers
    <3>. QED
      BY <1>1, <3>1, Between, Zenon
  <2>5. CASE v = w /\ Drops(w)
    BY <2>5, Zenon DEF Drops
  <2>. QED
    BY <1>5, <2>2, <2>3, <2>4, <2>5, Zenon
<1>6. ASSUME Fixed, SchedulerClass
      PROVE  e.cursor \in answer'[w].cursors
  <2>1. e \in journal
    BY <1>6, Zenon DEF Fixed
  <2>2. CASE Wakes
    BY <1>2, <2>1, <2>2 DEF Wakes
  <2>3. ASSUME NEW v \in Waits, Admits(v) \/ Forgets(v) \/ Begins(v)
        PROVE  e.cursor \in answer'[w].cursors
    BY <1>2, <2>1, <2>3, Zenon DEF Admits, Forgets, Begins
  <2>4. ASSUME NEW v \in Waits, Refuses(v) \/ Rejects(v)
        PROVE  e.cursor \in answer'[w].cursors
    <3>1. UNCHANGED <<pc, cursor, position>> /\ Heard(v, {})
      BY <2>4, Zenon DEF Refuses, Rejects
    <3>2. CASE v # w
      BY <1>2, <2>1, <3>1, <3>2, Zenon DEF Heard
    <3>3. CASE v = w
      <4>1. w \in ActiveSet \/ Queued(Register(w))
        BY <1>1, <2>4, <3>3, TakingQueue, Zenon DEF Refuses, Rejects, ActiveSet
      <4>2. answer[w].cursors = {}
        BY <3>1, <4>1, Unanswered, Zenon
      <4>. QED
        BY <2>1, <3>1, <4>2, Zenon DEF PassedInv, Unpassed
    <3>. QED
      BY <3>2, <3>3
  <2>5. ASSUME NEW v \in Waits, Finishes(v)
        PROVE  e.cursor \in answer'[w].cursors
    <3>1. CASE v # w
      BY <1>2, <2>1, <2>5, <3>1, Zenon DEF Finishes, Heard
    <3>2. CASE v = w
      <4>1. w \in ActiveSet /\ UNCHANGED <<pc, cursor>>
        BY <2>5, <3>2, Zenon DEF Finishes, ActiveSet
      <4>2. answer[w].cursors = {}
        BY <4>1, Unanswered, Zenon
      <4>3. cursor[w] < e.cursor /\ pc[w] \in {"recheck", "receive"}
        BY <4>1, Zenon
      <4>4. ~(e.cursor <= position[w])
        BY <2>1, <4>2, <4>3, Zenon DEF PassedInv, Unpassed
      <4>5. e \in Rows(w)
        BY <1>1, <2>1, <4>4 DEF Rows
      <4>6. Batch(w) # {} /\ (e.cursor <= HistoryHead(Batch(w)) => e \in Batch(w))
        BY <4>5, Zenon DEF Ranked
      <4>7. position'[w] = HistoryHead(Batch(w)) /\ Heard(w, Cursors(Batch(w)))
        BY <2>5, <3>2, <4>6, Zenon DEF Finishes
      <4>8. e \in Batch(w) /\ answer'[w].cursors = Cursors(Batch(w))
        BY <4>1, <4>6, <4>7, Zenon DEF Heard
      <4>. QED
        BY <4>8, Zenon DEF Cursors
    <3>. QED
      BY <3>1, <3>2, Zenon
  <2>. QED
    BY <1>6, <2>2, <2>3, <2>4, <2>5, Zenon DEF SchedulerClass
<1>7. ~Restarts
  BY Zenon DEF Restarts
<1>. QED
  BY <1>3, <1>4, <1>5, <1>6, <1>7, Zenon DEF StepClass, Fixed, Still, journalVars

-----------------------------------------------------------------------------
(* The end of a run wakes its waits *)

\* An event of a run comes after the run has settled, and after the cursor of every
\* wait that found the run unsettled when it looked again.
SettleInv ==
    /\ \A e \in journal : stage[e.from] # "unsettled"
    /\ \A w \in TestWaits : pc[w] = "receive" =>
          \A e \in journal : e.from = Subject[w] => cursor[w] < e.cursor

Asleep(w) == pc[w] = "receive" /\ answer[w] = Nothing

\* What will wake a sleeping wait whose run's event is in the journal.
WakeIsComing(w) ==
    \/ Queued(Register(w)) \/ w \in sched.todo \/ Queued(Published)
    \/ stage[Subject[w]] = "announce"

WakeInv ==
    \A w \in TestWaits, e \in journal : Asleep(w) /\ e.from = Subject[w] => WakeIsComing(w)

\* A test waiter waits for a run.
LEMMA TestWaitFacts ==
    ASSUME NEW w \in TestWaits
    PROVE  w \in Waits /\ Subject[w] \in Publishers /\ Subject[w] \in Runs
BY EventConstants DEF Waits, SubjectWaits, Publishers, Subjects

\* A publisher's stage only moves forward, and a row appears when it commits.
LEMMA StagesAdvance ==
    ASSUME EventTypeOK, EventTypeOK', FrontierInv, StepClass
    PROVE  /\ \A q \in Publishers : stage'[q] = "unsettled" => stage[q] = "unsettled"
           /\ \A e \in journal' : e \in journal \/ (/\ stage'[e.from] = "announce"
                                                    /\ e.cursor = lastCursor /\ Open /\ Still)
<1>1. stage \in [Publishers -> Stages]
  BY DEF EventTypeOK, PublishTypes
<1>2. ASSUME NEW p \in Publishers, Publishes(p), Still
      PROVE  /\ \A q \in Publishers : stage'[q] = "unsettled" => stage[q] = "unsettled"
             /\ \A e \in journal' : e \in journal \/ (/\ stage'[e.from] = "announce"
                                                      /\ e.cursor = lastCursor /\ Open /\ Still)
  <2>1. \A q \in Publishers : stage'[q] = "unsettled" => stage[q] = "unsettled"
    BY <1>1, <1>2, Zenon DEF Publishes, Settle, Notify, Insert, AppendFails, Commit
  <2>2. Commit(p) => stage'[p] = "announce"
    BY <1>1, Zenon DEF Commit
  <2>. QED
    BY <1>2, <2>1, <2>2, PublishingBelow
<1>3. ASSUME NEW p \in Publishers, Announce(p), UNCHANGED journalVars
      PROVE  /\ \A q \in Publishers : stage'[q] = "unsettled" => stage[q] = "unsettled"
             /\ journal' = journal
  BY <1>1, <1>3 DEF Announce, journalVars
<1>. QED
  BY <1>2, <1>3, Zenon DEF StepClass, Fixed, Restarts

\* No step makes a waiter wait for a run whose end it could have read in the history.
LEMMA SettleStep ==
    ASSUME EventTypeOK, EventTypeOK', FrontierInv, SettleInv, StepClass
    PROVE  SettleInv'
<1>1. /\ \A e \in journal : e.from \in Publishers
      /\ \A e \in journal' : e.from \in Publishers /\ e.cursor \in Nat
  BY Fields DEF EventTypeOK, PublishTypes
<1>2. \A e \in journal' : stage'[e.from] # "unsettled"
  BY <1>1, StagesAdvance DEF SettleInv
<1>3. ASSUME NEW w \in TestWaits, pc'[w] = "receive", NEW e \in journal', e.from = Subject[w]
      PROVE  cursor'[w] < e.cursor
  <2>1. w \in Waits
    BY TestWaitFacts
  <2>2. CASE e \notin journal
    <3>1. e.cursor = lastCursor /\ Open /\ Still
      BY <2>2, StagesAdvance
    <3>. QED
      BY <2>1, <3>1 DEF FrontierInv, Below, Still
  <2>3. CASE e \in journal
    <3>1. CASE pc[w] = "receive" /\ cursor'[w] = cursor[w]
      BY <1>3, <2>3, <3>1, Zenon DEF SettleInv
    <3>2. CASE pc[w] = "receive" /\ cursor'[w] # cursor[w]
      BY Zenon, <1>3, <2>1, <3>2
         DEF StepClass, Still, Moves, Registers, Drops, Elsewhere, SchedulerClass, Wakes, Refuses,
             Admits, Forgets, Rejects, Begins, Finishes, Restarts
    <3>3. CASE pc[w] # "receive"
      <4>1. PICK v \in Waits : Fixed /\ (Moves(v) \/ Registers(v) \/ Drops(v))
        BY <1>3, <2>1, <3>3, Zenon
           DEF StepClass, Still, SchedulerClass, Wakes, Refuses, Admits, Forgets, Rejects, Begins,
               Finishes, Restarts
      <4>2. v = w
        BY <1>3, <2>1, <3>3, <4>1, Zenon DEF Moves, Registers, Drops, Elsewhere
      <4>3. ~Settled(w)
        BY <1>3, <3>3, <4>1, <4>2, Zenon DEF Moves, Registers, Drops, AfterRegistration
      <4>. QED
        BY <1>3, <2>3, <4>3 DEF Settled, SettleInv
    <3>. QED
      BY <3>1, <3>2, <3>3
  <2>. QED
    BY <2>2, <2>3
<1>. QED
  BY <1>2, <1>3, Zenon DEF SettleInv

\* No step leaves a waiter of a finished run asleep with nothing on its way to wake it.
LEMMA WakeStep ==
    ASSUME EventTypeOK, EventTypeOK', Ranked, OwnInv, PassedInv, SettleInv, WakeInv, StepClass,
           FrontierInv
    PROVE  WakeInv'
<1>. SUFFICES ASSUME NEW w \in TestWaits, NEW e \in journal', Asleep(w)', e.from = Subject[w]
              PROVE  WakeIsComing(w)'
  BY Zenon DEF WakeInv
<1>1. /\ w \in Waits /\ Subject[w] \in Publishers /\ Subject[w] \in Runs
      /\ ChannelTypes /\ stage \in [Publishers -> Stages]
  BY TestWaitFacts, Zenon DEF EventTypeOK, PublishTypes
<1>2. ASSUME e \in journal, Asleep(w)
      PROVE  WakeIsComing(w)
  BY <1>2 DEF WakeInv
<1>3. ASSUME NEW p \in Publishers, Publishes(p), Still,
             \A q \in Publishers : q # p => stage'[q] = stage[q] /\ writer'[q] = writer[q]
      PROVE  WakeIsComing(w)'
  <2>1. CASE e \notin journal
    BY <2>1, StagesAdvance DEF WakeIsComing
  <2>2. CASE e \in journal
    <3>1. WakeIsComing(w)
      BY <1>2, <1>3, <2>2 DEF Asleep, Still
    <3>2. stage[Subject[w]] = "announce" => stage'[Subject[w]] = "announce"
      BY <1>1, <1>3, Zenon DEF Publishes, Settle, Notify, Insert, AppendFails, Commit
    <3>. QED
      BY <1>3, <3>1, <3>2, Zenon DEF WakeIsComing, Queued, Still
  <2>. QED
    BY <2>1, <2>2
<1>4. ASSUME Sends(Published)
      PROVE  WakeIsComing(w)'
  BY <1>1, <1>4, SendingQueue, Zenon DEF WakeIsComing
<1>5. ASSUME Fixed, Still
      PROVE  WakeIsComing(w)'
  BY <1>2, <1>5, Zenon DEF WakeIsComing, Asleep, Queued, Fixed, Still
<1>6. ASSUME NEW v \in Waits, Fixed, Moves(v) \/ Registers(v) \/ Drops(v)
      PROVE  WakeIsComing(w)'
  <2>1. CASE v # w
    <3>1. WakeIsComing(w)
      BY <1>1, <1>2, <1>6, <2>1, Zenon DEF Fixed, Moves, Registers, Drops, Elsewhere, Asleep
    <3>2. \A c : Queued(c) => Queued(c)'
      <4>1. UNCHANGED commands \/ \E c : Sends(c)
        BY <1>6, Zenon DEF Moves, Registers, Drops
      <4>. QED
        BY Zenon, <1>1, <4>1, SendingQueue DEF Queued
    <3>3. sched' = sched /\ stage' = stage
      BY <1>6, Zenon DEF Moves, Registers, Drops, Fixed
    <3>. QED
      BY <3>1, <3>2, <3>3, Zenon DEF WakeIsComing
  <2>2. CASE v = w /\ pc[w] # "receive"
    <3>1. ~Settled(w) /\ e \in journal
      BY <1>6, <2>2, Zenon DEF Moves, Registers, Drops, AfterRegistration, Asleep, Fixed
    <3>. QED
      BY <3>1 DEF Settled, SettleInv
  <2>3. CASE v = w /\ pc[w] = "receive"
    BY <1>6, <2>3, Zenon DEF Moves, Registers, Drops, Asleep
  <2>. QED
    BY <2>1, <2>2, <2>3, Zenon
<1>7. ASSUME Fixed, SchedulerClass
      PROVE  WakeIsComing(w)'
  <2>1. e \in journal /\ stage' = stage
    BY <1>7 DEF Fixed
  <2>2. CASE Wakes
    <3>1. Hears(w)
      BY <2>2, Zenon DEF Wakes, Asleep, Hears
    <3>2. w \in ActiveSet \/ Queued(Register(w))
      BY <1>1, <3>1, RegisteringQueued DEF OwnInv, Owned
    <3>3. Published # Register(w)
      BY <1>1, CommandFacts, Zenon
    <3>4. Queued(Register(w)) => Queued(Register(w))'
      BY Zenon, <1>1, <2>2, <3>3, TakingQueue DEF Wakes, Queued
    <3>. QED
      BY <2>2, <3>2, <3>4, Zenon DEF Wakes, ActiveSet, WakeIsComing
  <2>3. ASSUME NEW v \in Waits, Refuses(v) \/ Admits(v) \/ Forgets(v)
        PROVE  WakeIsComing(w)'
    <3>1. CASE v = w /\ Refuses(w)
      BY <3>1, Zenon DEF Refuses, Heard, Asleep
    <3>2. CASE v = w /\ Admits(w)
      BY <3>2, Zenon DEF Admits, WakeIsComing
    <3>3. CASE v # w \/ Forgets(v)
      <4>1. WakeIsComing(w)
        BY <1>1, <1>2, <2>1, <2>3, <3>3, Zenon DEF Refuses, Admits, Forgets, Heard, Asleep
      <4>2. sched.todo = {} /\ (Takes(Cancel(v)) \/ (v # w /\ Takes(Register(v))))
        BY <2>3, <3>3, Zenon DEF Refuses, Admits, Forgets
      <4>3. /\ Cancel(v) # Register(w) /\ Cancel(v) # Published
            /\ Register(v) # Published /\ (v # w => Register(v) # Register(w))
        BY <1>1, CommandFacts, Zenon
      <4>. QED
        BY <1>1, <2>1, <4>1, <4>2, <4>3, TakingQueue, Zenon DEF WakeIsComing
    <3>. QED
      BY <2>3, <3>1, <3>2, <3>3
  <2>4. ASSUME NEW v \in Waits, Rejects(v) \/ Begins(v)
        PROVE  WakeIsComing(w)'
    <3>1. ~(v = w /\ Rejects(w))
      BY Zenon DEF Rejects, Heard, Asleep
    <3>2. WakeIsComing(w)
      BY <1>1, <1>2, <2>1, <2>4, <3>1, Zenon DEF Rejects, Begins, Heard, Asleep
    <3>. QED
      BY <2>1, <2>4, <3>1, <3>2, Zenon DEF WakeIsComing, Queued, Rejects, Begins
  <2>5. ASSUME NEW v \in Waits, Finishes(v)
        PROVE  WakeIsComing(w)'
    <3>1. CASE v # w
      <4>1. WakeIsComing(w)
        BY <1>1, <1>2, <2>1, <2>5, <3>1, Zenon DEF Finishes, Heard, Asleep
      <4>. QED
        BY <2>1, <2>5, <3>1, <4>1, Zenon DEF WakeIsComing, Queued, Finishes
    <3>2. CASE v = w
      <4>1. w \in ActiveSet /\ UNCHANGED <<pc, cursor>> /\ pc[w] = "receive"
        BY <2>5, <3>2, Zenon DEF Finishes, ActiveSet, Asleep
      <4>2. answer[w].cursors = {}
        BY <1>1, <4>1, Unanswered, Zenon
      <4>3. cursor[w] < e.cursor
        BY <2>1, <4>1, Zenon DEF SettleInv
      <4>4. Matches(w, e)
        BY <1>1 DEF Matches
      <4>5. e.cursor \in Nat /\ position[w] \in Nat
        BY <1>1, <2>1, Fields, Zenon DEF EventTypeOK, PublishTypes, WaitTypes
      <4>6. ~(e.cursor <= position[w])
        BY <1>1, <2>1, <4>1, <4>2, <4>3, <4>4, Zenon DEF PassedInv, Unpassed
      <4>7. e \in Rows(w)
        BY <2>1, <4>4, <4>5, <4>6 DEF Rows
      <4>8. Batch(w) # {}
        BY <1>1, <4>7, Zenon DEF Ranked
      <4>. QED
        BY <2>5, <3>2, <4>1, <4>8, Zenon DEF Finishes, Heard, Asleep
    <3>. QED
      BY <3>1, <3>2
  <2>. QED
    BY <1>7, <2>2, <2>3, <2>4, <2>5, Zenon DEF SchedulerClass
<1>8. ~Restarts
  BY <1>1 DEF Restarts, Asleep
<1>. QED
  BY <1>3, <1>4, <1>5, <1>6, <1>7, <1>8, Zenon DEF StepClass

-----------------------------------------------------------------------------
(* Finite journals, with the library's facts about cardinalities *)

INSTANCE FiniteSetTheorems

Finite == IsFiniteSet(journal) /\ \A e \in journal : e.cursor <= lastCursor

\* A set of numbers that is not empty has a least member.
LEMMA LeastNumber ==
    ASSUME NEW S \in SUBSET Nat, S # {}
    PROVE  \E x \in S : \A y \in S : x <= y
<1>1. PICK x \in S : \A y \in S : ~(<<y, x>> \in OpToRel(<, Nat))
  BY NatLessThanWellFounded, WFMin, Zenon
<1>2. \A y \in S : x <= y
  <2>. SUFFICES ASSUME NEW y \in S, y < x
                PROVE  FALSE
    OBVIOUS
  <2>1. <<y, x>> \in {ss \in Nat \X Nat : ss[1] < ss[2]}
    OBVIOUS
  <2>. QED
    BY <1>1, <2>1, Zenon DEF OpToRel
<1>. QED
  BY <1>2

\* A bounded, non-empty set of numbers has a greatest member, which Max picks.
LEMMA GreatestNumber ==
    ASSUME NEW S \in SUBSET Nat, S # {}, NEW n \in Nat, \A x \in S : x <= n
    PROVE  Max(S) \in S /\ \A y \in S : y <= Max(S)
<1>. DEFINE T == {n - x : x \in S}
<1>1. T \in SUBSET Nat /\ T # {}
  <2>1. \A x \in S : n - x \in Nat
    OBVIOUS
  <2>. QED
    BY <2>1, Zenon
<1>2. PICK t \in T : \A u \in T : t <= u
  BY Zenon, <1>1, LeastNumber
<1>3. PICK x \in S : t = n - x
  OBVIOUS
<1>4. \A y \in S : x >= y
  <2>. SUFFICES ASSUME NEW y \in S
                PROVE  x >= y
    OBVIOUS
  <2>1. n - y \in T
    OBVIOUS
  <2>. HIDE DEF T
  <2>2. n - x <= n - y
    BY <1>2, <1>3, <2>1
  <2>3. x \in Nat /\ y \in Nat
    OBVIOUS
  <2>. QED
    BY <2>2, <2>3
<1>5. \E z \in S : \A y \in S : z >= y
  BY <1>4
<1>. QED
  BY Zenon, <1>5 DEF Max

\* HistoryHead is the cursor of the newest row.
LEMMA HeadIsNewest ==
    ASSUME NEW rows \in SUBSET Entries, NEW n \in Nat, \A e \in rows : e.cursor <= n
    PROVE  /\ HistoryHead(rows) \in Nat /\ HistoryHead(rows) <= n
           /\ rows # {} => /\ \E e \in rows : e.cursor = HistoryHead(rows)
                           /\ \A e \in rows : e.cursor <= HistoryHead(rows)
<1>1. CASE rows = {}
  BY <1>1 DEF HistoryHead
<1>2. CASE rows # {}
  <2>1. Cursors(rows) \in SUBSET Nat /\ Cursors(rows) # {} /\ \A c \in Cursors(rows) : c <= n
    BY <1>2, Fields DEF Cursors
  <2>2. Max(Cursors(rows)) \in Cursors(rows) /\ \A c \in Cursors(rows) : c <= Max(Cursors(rows))
    BY Zenon, <2>1, GreatestNumber
  <2>3. HistoryHead(rows) = Max(Cursors(rows))
    BY <1>2 DEF HistoryHead
  <2>. QED
    BY Zenon, <1>2, <2>1, <2>2, <2>3 DEF Cursors
<1>. QED
  BY <1>1, <1>2

\* The rows read are the oldest ones: none is left out below the newest of them, and
\* there are some whenever there is anything to read.
LEMMA OldestFirst ==
    ASSUME EventTypeOK, Finite, NEW w \in Waits, NEW e \in Rows(w)
    PROVE  /\ Batch(w) # {}
           /\ e.cursor <= HistoryHead(Batch(w)) => e \in Batch(w)
<1>. DEFINE Before(x) == {f \in Rows(w) : f.cursor < x.cursor}
<1>1. /\ Rows(w) \subseteq journal /\ Rows(w) \in SUBSET Entries /\ IsFiniteSet(Rows(w))
      /\ \A x \in Rows(w) : x.cursor \in Nat
  <2>1. Rows(w) \subseteq journal /\ journal \in SUBSET Entries /\ IsFiniteSet(journal)
    BY DEF Rows, EventTypeOK, PublishTypes, Finite
  <2>. QED
    BY <2>1, FS_Subset, Fields
<1>2. Batch(w) = {x \in Rows(w) : Cardinality(Before(x)) < Limit}
  BY DEF Batch, Rows
<1>3. Limit \in Nat \ {0}
  BY EventConstants
<1>4. Batch(w) # {}
  <2>. DEFINE S == {x.cursor : x \in Rows(w)}
  <2>1. S \in SUBSET Nat /\ S # {}
    BY <1>1, Zenon
  <2>2. PICK n \in S : \A m \in S : n <= m
    BY <2>1, LeastNumber, Zenon
  <2>3. PICK x \in Rows(w) : x.cursor = n
    OBVIOUS
  <2>4. Before(x) = {}
    <3>1. ASSUME NEW f \in Rows(w), f.cursor < x.cursor
          PROVE  FALSE
      <4>1. f.cursor \in Nat /\ n \in Nat /\ f.cursor \in S
        BY <1>1, <2>1, <2>3, Zenon
      <4>2. n <= f.cursor /\ f.cursor < n
        BY <2>2, <2>3, <3>1, <4>1, Zenon
      <4>. QED
        BY <4>1, <4>2
    <3>. QED
      BY <3>1, Zenon
  <2>5. Cardinality(Before(x)) = 0
    BY <2>4, FS_EmptySet
  <2>. HIDE DEF Before
  <2>6. Cardinality(Before(x)) < Limit
    BY <1>3, <2>5
  <2>. QED
    BY <1>2, <2>3, <2>6, Zenon
<1>5. ASSUME e.cursor <= HistoryHead(Batch(w))
      PROVE  e \in Batch(w)
  <2>1. PICK m \in Batch(w) : m.cursor = HistoryHead(Batch(w))
    <3>1. /\ Batch(w) \in SUBSET Entries /\ lastCursor \in Nat
          /\ \A x \in Batch(w) : x.cursor <= lastCursor
      BY DEF Batch, Finite, EventTypeOK, PublishTypes
    <3>. QED
      BY <1>4, <3>1, HeadIsNewest, Zenon
  <2>2. m \in Rows(w) /\ Cardinality(Before(m)) < Limit
    BY <1>2, <2>1
  <2>3. Before(e) \subseteq Before(m) /\ Before(m) \subseteq Rows(w)
    BY <1>1, <1>5, <2>1, <2>2
  <2>. HIDE DEF Before
  <2>4. /\ IsFiniteSet(Before(m)) /\ IsFiniteSet(Before(e))
        /\ Cardinality(Before(e)) <= Cardinality(Before(m))
    BY <1>1, <2>3, FS_Subset, Zenon
  <2>5. Cardinality(Before(e)) \in Nat /\ Cardinality(Before(m)) \in Nat
    BY <2>4, FS_CardinalityType, Zenon
  <2>6. Cardinality(Before(e)) < Limit
    BY <1>3, <2>2, <2>4, <2>5
  <2>. QED
    BY <1>2, <2>6
<1>. QED
  BY <1>4, <1>5

\* The rows of a journal have a newest one, and a batch holds the oldest of them.
LEMMA Ranking ==
    ASSUME EventTypeOK, Finite
    PROVE  Ranked
<1>1. journal \in SUBSET Entries /\ lastCursor \in Nat
  BY DEF EventTypeOK, PublishTypes
<1>2. ASSUME NEW rows \in SUBSET journal, rows # {}
      PROVE  /\ \E e \in rows : e.cursor = HistoryHead(rows)
             /\ \A e \in rows : e.cursor <= HistoryHead(rows)
  <2>1. rows \in SUBSET Entries /\ \A e \in rows : e.cursor <= lastCursor
    BY <1>1 DEF Finite
  <2>. QED
    BY <1>1, <1>2, <2>1, HeadIsNewest, Zenon
<1>. QED
  BY <1>2, OldestFirst DEF Ranked

\* A publication adds one row, and retention drops some: the journal stays finite.
LEMMA JournalGrows ==
    ASSUME IsFiniteSet(journal), StepClass
    PROVE  IsFiniteSet(journal')
<1>1. ASSUME NEW p \in Publishers, Publishes(p)
      PROVE  IsFiniteSet(journal')
  <2>. DEFINE e == [cursor |-> writer[p], from |-> p]
  <2>1. journal' \subseteq journal \cup {e}
    <3>1. CASE Commit(p)
      BY <3>1 DEF Commit, Newest
    <3>2. CASE ~Commit(p)
      BY <1>1, <3>2 DEF Publishes, Settle, Notify, Insert, AppendFails, journalVars
    <3>. QED
      BY <3>1, <3>2
  <2>. HIDE DEF e
  <2>2. IsFiniteSet(journal \cup {e})
    BY FS_AddElement
  <2>. QED
    BY <2>1, <2>2, FS_Subset
<1>2. CASE journal' = journal
  BY <1>2
<1>. QED
  BY <1>1, <1>2, Zenon DEF StepClass, Announce, Fixed, Restarts, journalVars

-----------------------------------------------------------------------------
(* The theorems *)

EventInv ==
    /\ EventTypeOK /\ SchedInv /\ FrontierInv /\ IsFiniteSet(journal)
    /\ CancelInv /\ OwnInv /\ PassedInv /\ SettleInv /\ WakeInv

\* The invariant holds when the daemon starts.
LEMMA InitEvents == EventInit => EventInv
<1>. SUFFICES ASSUME EventInit
              PROVE  EventInv
  OBVIOUS
<1>1. PublishTypes
  BY DEF EventInit, PublishTypes, Stages
<1>2. ChannelTypes /\ WaitTypes
  <2>1. ChannelTypes
    BY IdleFacts DEF EventInit, ChannelTypes
  <2>2. WaitTypes
    BY AnswerFacts DEF EventInit, WaitTypes, Places
  <2>. QED
    BY <2>1, <2>2
<1>3. SchedInv /\ FrontierInv
  <2>1. SchedInv
    BY IdleFacts DEF EventInit, SchedInv
  <2>2. FrontierInv
    BY IdleFacts DEF EventInit, FrontierInv, Below, Open
  <2>. QED
    BY <2>1, <2>2
<1>4. CancelInv /\ OwnInv
  <2>1. ActiveSet = {} /\ \A c : ~Queued(c)
    BY IdleFacts DEF EventInit, Queued, ActiveSet
  <2>2. \A w \in Waits : pc[w] \in {"check", "register"} /\ Followed(w)
    BY DEF EventInit, Followed
  <2>. QED
    BY <2>1, <2>2, Zenon DEF CancelInv, OwnInv, Owned, Hears
<1>5. PassedInv /\ SettleInv /\ WakeInv
  BY Zenon DEF EventInit, PassedInv, SettleInv, WakeInv
<1>6. IsFiniteSet(journal)
  BY FS_EmptySet DEF EventInit
<1>. QED
  BY <1>1, <1>2, <1>3, <1>4, <1>5, <1>6 DEF EventInv, EventTypeOK

\* Every step of publishers, waiters, scheduler and world keeps the invariant.
LEMMA StepEvents ==
    ASSUME EventInv, [EventNext]_eventVars
    PROVE  EventInv'
<1>1. Ranked
  BY Ranking DEF EventInv, Finite, FrontierInv, Below
<1>2. EventTypeOK' /\ SchedInv' /\ StepClass
  BY <1>1, StepCases DEF EventInv
<1>3. ChannelClass
  BY <1>2, ChannelCases DEF EventInv
<1>4. IsFiniteSet(journal')
  BY <1>2, JournalGrows DEF EventInv
<1>5. FrontierInv' /\ PassedInv' /\ SettleInv' /\ WakeInv'
  BY <1>1, <1>2, FrontierStep, PassedStep, SettleStep, WakeStep DEF EventInv
<1>6. CancelInv' /\ OwnInv'
  BY <1>3, CancelStep, OwnStep DEF EventInv
<1>. QED
  BY <1>2, <1>4, <1>5, <1>6 DEF EventInv

\* The whole invariant of the event system, for any waiters, publishers and bounds: the types, the
\* order of cursors, one registration per waiter, a cancellation behind every dropped one, no row
\* passed over and no sleeper without a wake-up on its way.
THEOREM EventsInvariant == EventSpec => []EventInv
BY InitEvents, StepEvents, PTL DEF EventSpec

\* The cursor of a subscription that evaluate moves, or gives back with an answer, never passes a
\* retained event that its filter asks for and the answer leaves out, whatever is published, trimmed,
\* registered or cancelled meanwhile.
THEOREM EventsArePassedOn == EventSpec => []NoRetainedEventPassed
<1>1. EventInv => NoRetainedEventPassed
  BY DEF EventInv, PassedInv, Unpassed, NoRetainedEventPassed
<1>. QED
  BY <1>1, EventsInvariant, PTL

\* A subscription that the scheduler keeps has a wait that still listens, or its Cancel is on the
\* way: EventSubscription's drop leaks none, however the commands of the waits interleave.
THEOREM SubscriptionsEnd == EventSpec => []SubscriptionIsCancelled
<1>1. EventInv => SubscriptionIsCancelled
  BY DEF EventInv, EventTypeOK, ChannelTypes, CancelInv, Listening, Queued, ActiveSet,
         SubscriptionIsCancelled
<1>. QED
  BY <1>1, EventsInvariant, PTL

\* When the end of a run has been announced and the scheduler has nothing left to do, no test.wait
\* of that run sleeps without an answer: the status that is read again after subscribing closes the
\* window between the first status and the head.
THEOREM FinishedRunsWake == EventSpec => []FinishedRunWakesItsWaiter
<1>1. ASSUME EventInv
      PROVE  FinishedRunWakesItsWaiter
  <2>. SUFFICES ASSUME NEW w \in TestWaits, NEW e \in journal, e.from = Subject[w],
                       stage[Subject[w]] = "done", commands = <<>>, sched = Idle, Asleep(w)
                PROVE  FALSE
    BY DEF FinishedRunWakesItsWaiter, Asleep
  <2>1. WakeIsComing(w)
    BY <1>1 DEF EventInv, WakeInv
  <2>. QED
    BY <2>1, IdleFacts DEF WakeIsComing, Queued
<1>. QED
  BY <1>1, EventsInvariant, PTL
=============================================================================
