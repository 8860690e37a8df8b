----------------------------- MODULE ChatTurns -----------------------------
(***************************************************************************)
(* The life of chat requests in the process: ChatOrchestrator              *)
(* (chat/orchestrator.py) over InMemoryConversationStore and               *)
(* InMemoryMappingStore, with their clocks and the background sweeper.     *)
(*                                                                         *)
(* Everything runs on one asyncio loop, so a step is what a request does   *)
(* between two awaits: waiting for the conversation lock, awaiting the     *)
(* provider, handing a stream event to the client.  A conversation object  *)
(* (ConversationState) outlives its entry in the store: requests that wait *)
(* for its lock keep it.  It is named after the request that created it.   *)
(*                                                                         *)
(* A turn's text is abstracted to the turn itself: messages[o] is the      *)
(* sequence of turns whose messages object o retains, and vault[o] the set *)
(* of turns whose mappings it retains (what is in them is the subject of   *)
(* module MaskedConversation).                                             *)
(***************************************************************************)
EXTENDS Naturals, Sequences, FiniteSets

CONSTANTS
    Req,               \* requests
    Key,               \* <<owner, conversation id>> pairs
    Mode,              \* masking modes
    None,
    TTL,               \* conversation ttl_seconds, at least 1
    MappingTTL,        \* mapping ttl_seconds, at least 1
    MaxConversations,  \* max_conversations, at least 1
    MaxHistory,        \* turns that trimming leaves in the history
    Providers,         \* the providers to consider: "none" has no key,
                       \* "plain" has no complete_stream, "streaming" has both
    Crashes,           \* local processing may raise what nobody catches
    Vanishes,          \* a client may be gone before its stream starts
    Clears,            \* the Playground may clear a conversation
    MaxNow             \* last tick of the clock (bound of the model)

ASSUME ChatTurnsAssumption ==
    /\ None \notin Req \cup Key \cup Mode
    /\ TTL \in Nat \ {0}
    /\ MappingTTL \in Nat \ {0}
    /\ MaxConversations \in Nat \ {0}
    /\ MaxHistory \in Nat \ {0}
    /\ Providers \subseteq {"none", "plain", "streaming"}
    /\ {Crashes, Vanishes, Clears} \subseteq BOOLEAN
    /\ MaxNow \in Nat

VARIABLES
    provider,  \* the provider the process was started with
    now,       \* the monotonic clock of both stores
    store,     \* conversation_store._items: key -> live object
    access,    \* last_access_at of an object
    mode,      \* session.mode of an object
    messages,  \* messages of an object
    vault,     \* session of an object
    holder,    \* who holds the object's lock
    queue,     \* who waits for it, first come first served
    pc,        \* where a request stands
    kind,      \* "chat" or "stream"
    key,       \* the key it asked for, None without a conversation
    obj,       \* the object it got for the key
    session,   \* its clone of the object's session, with its own mappings
    mapping,   \* mapping_store._items: request -> expires_at
    ran        \* requests that ran since a waiter of a lock was woken

objects == <<access, mode, messages, vault>>
locks == <<holder, queue>>
request == <<kind, key, obj>>
vars == <<provider, now, store, objects, locks, pc, request, session, mapping, ran>>

\* Requests that await the provider or their client and hold their lock.
Active == {"calling", "ready", "streaming", "flushing"}
Answered == {"ok", "failed", "blocked", "preview", "refused", "crashed"}
PC == {"idle", "waiting", "vanished"} \cup Active \cup Answered

\* What the requests change.
TurnsOK ==
    /\ now \in Nat
    /\ store \in [Key -> Req \cup {None}]
    /\ access \in [Req -> Nat]
    /\ mode \in [Req -> Mode \cup {None}]
    /\ messages \in [Req -> Seq(Req)]
    /\ vault \in [Req -> SUBSET Req]
    /\ holder \in [Req -> Req \cup {None}]
    /\ queue \in [Req -> Seq(Req)]
    /\ pc \in [Req -> PC]
    /\ kind \in [Req -> {"chat", "stream"}]
    /\ key \in [Req -> Key \cup {None}]
    /\ obj \in [Req -> Req \cup {None}]
    /\ session \in [Req -> SUBSET Req]
    /\ mapping \in [Req -> Nat \cup {None}]
    /\ ran \subseteq Req

TypeOK == provider \in Providers /\ TurnsOK

Init ==
    /\ provider \in Providers
    /\ now = 0
    /\ store = [k \in Key |-> None]
    /\ access = [o \in Req |-> 0]
    /\ mode = [o \in Req |-> None]
    /\ messages = [o \in Req |-> <<>>]
    /\ vault = [o \in Req |-> {}]
    /\ holder = [o \in Req |-> None]
    /\ queue = [o \in Req |-> <<>>]
    /\ pc = [r \in Req |-> "idle"]
    /\ kind = [r \in Req |-> "chat"]
    /\ key = [r \in Req |-> None]
    /\ obj = [r \in Req |-> None]
    /\ session = [r \in Req |-> {}]
    /\ mapping = [r \in Req |-> None]
    /\ ran = {}

ProviderReady == provider # "none"
StreamSupported == provider = "streaming"

----------------------------------------------------------------------------
(* The two stores. *)

\* _cleanup_locked of the conversation store.
Swept ==
    [k \in Key |-> IF store[k] # None /\ access[store[k]] + TTL <= now
                   THEN None ELSE store[k]]

\* Mutant: the sweep does nothing.
NotSwept == mapping

\* _cleanup_locked of the mapping store.
SweptMappings ==
    [r \in Req |-> IF mapping[r] # None /\ mapping[r] <= now
                   THEN None ELSE mapping[r]]

Live(st) == {k \in Key : st[k] # None}

HasRoom == Cardinality(Live(Swept)) < MaxConversations

Elements(s) == {s[i] : i \in 1 .. Len(s)}

\* An object nothing was ever committed to.
Empty(o) == messages[o] = <<>> /\ vault[o] = {}

\* A request without a conversation has no object and no lock.
Set(f, o, x) == IF o = None THEN f ELSE [f EXCEPT ![o] = x]

\* The history keeps its newest turns.
Trim(h) == IF Len(h) > MaxHistory
           THEN SubSeq(h, Len(h) - MaxHistory + 1, Len(h)) ELSE h

\* Mutants: the object may be a detached one; the session is not pruned.
CommitDetached(r) ==
    LET o == obj[r]
    IN  IF o # None
        THEN /\ messages' = [messages EXCEPT ![o] = Trim(Append(@, r))]
             /\ vault' = [vault EXCEPT ![o] =
                             session[r] \cap Elements(Trim(Append(messages[o], r)))]
             /\ access' = [access EXCEPT ![o] = now]
             /\ UNCHANGED mode
        ELSE UNCHANGED objects
CommitUnpruned(r) ==
    LET o == obj[r]
    IN  IF o # None /\ store[key[r]] = o
        THEN /\ messages' = [messages EXCEPT ![o] = Trim(Append(@, r))]
             /\ vault' = [vault EXCEPT ![o] = session[r]]
             /\ access' = [access EXCEPT ![o] = now]
             /\ UNCHANGED mode
        ELSE UNCHANGED objects

\* commit(): dropped in silence unless the object is still the live one.
CommitTurn(r) ==
    LET o == obj[r]
    IN  IF o # None /\ store[key[r]] = o
        THEN /\ messages' = [messages EXCEPT ![o] = Trim(Append(@, r))]
             /\ vault' = [vault EXCEPT ![o] =
                             session[r] \cap Elements(Trim(Append(messages[o], r)))]
             /\ access' = [access EXCEPT ![o] = now]
             /\ UNCHANGED mode
        ELSE UNCHANGED objects

\* Mutant: the time of the last access is taken away.
TouchForgotten(r) ==
    /\ access' = IF obj[r] # None /\ store[key[r]] = obj[r]
                 THEN [access EXCEPT ![obj[r]] = None] ELSE access
    /\ UNCHANGED <<mode, messages, vault>>

\* touch(), with the same check.
Touch(r) ==
    /\ access' = IF obj[r] # None /\ store[key[r]] = obj[r]
                 THEN [access EXCEPT ![obj[r]] = now] ELSE access
    /\ UNCHANGED <<mode, messages, vault>>

----------------------------------------------------------------------------
(* From the lock to the next await. *)

\* Mutants: the object is deleted whatever it holds; the lock is not released.
RefusedDeletes(r, k, o, st) ==
    /\ store' = IF o # None THEN [st EXCEPT ![k] = None] ELSE st
    /\ pc' = [pc EXCEPT ![r] = "blocked"]
    /\ holder' = Set(holder, o, None)
    /\ UNCHANGED <<session, mapping>>
RefusedHolds(r, k, o, st) ==
    /\ store' = IF o # None /\ Empty(o) THEN [st EXCEPT ![k] = None] ELSE st
    /\ pc' = [pc EXCEPT ![r] = "blocked"]
    /\ holder' = Set(holder, o, r)
    /\ UNCHANGED <<session, mapping>>

\* Media check, masking, policy or wire guard refuses the request.  st is the
\* store as this step found or made it.  An object nothing was committed to
\* is deleted again, by its key.
Refused(r, k, o, st) ==
    /\ store' = IF o # None /\ Empty(o) THEN [st EXCEPT ![k] = None] ELSE st
    /\ pc' = [pc EXCEPT ![r] = "blocked"]
    /\ holder' = Set(holder, o, None)
    /\ UNCHANGED <<session, mapping>>

\* An exception other than PolicyBlocked: "async with" gives the lock back,
\* the bare acquire of the stream path does not.
Crashed(r, o, kd, st) ==
    /\ Crashes
    /\ store' = st
    /\ pc' = [pc EXCEPT ![r] = "crashed"]
    /\ holder' = Set(holder, o, IF kd = "stream" THEN r ELSE None)
    /\ UNCHANGED <<session, mapping>>

\* Nothing to call: a local preview (its mapping is put and deleted at once)
\* or a provider that cannot stream.
NothingToCall(r, o, kd, st) ==
    /\ \/ /\ kd = "chat"
          /\ ~ ProviderReady
          /\ mapping' = [SweptMappings EXCEPT ![r] = None]
          /\ pc' = [pc EXCEPT ![r] = "preview"]
       \/ /\ kd = "stream"
          /\ ~ StreamSupported
          /\ UNCHANGED mapping
          /\ pc' = [pc EXCEPT ![r] = "refused"]
    /\ store' = st
    /\ holder' = Set(holder, o, None)
    /\ UNCHANGED session

\* Mutant: the lock does not span the provider call.
LaunchedUnlocked(r, o, kd, st) ==
    /\ kd = "chat" => ProviderReady
    /\ kd = "stream" => StreamSupported
    /\ mapping' = [SweptMappings EXCEPT ![r] = now + MappingTTL]
    /\ session' = [session EXCEPT ![r] = {r} \cup IF o = None THEN {} ELSE vault[o]]
    /\ pc' = [pc EXCEPT ![r] = IF kd = "chat" THEN "calling" ELSE "ready"]
    /\ store' = st
    /\ holder' = Set(holder, o, None)

\* The checked payload goes to the provider, or into a stream response whose
\* body the server will iterate later.
Launched(r, o, kd, st) ==
    /\ kd = "chat" => ProviderReady
    /\ kd = "stream" => StreamSupported
    /\ mapping' = [SweptMappings EXCEPT ![r] = now + MappingTTL]
    /\ session' = [session EXCEPT ![r] = {r} \cup IF o = None THEN {} ELSE vault[o]]
    /\ pc' = [pc EXCEPT ![r] = IF kd = "chat" THEN "calling" ELSE "ready"]
    /\ store' = st
    /\ holder' = Set(holder, o, r)

Process(r, k, o, kd, st) ==
    \/ Refused(r, k, o, st)
    \/ Crashed(r, o, kd, st)
    \/ NothingToCall(r, o, kd, st)
    \/ Launched(r, o, kd, st)

----------------------------------------------------------------------------
(* Requests. *)

\* A request without a conversation id.
ArriveAlone(r, kd) ==
    /\ pc[r] = "idle"
    /\ kd = "stream" => ProviderReady
    /\ kind' = [kind EXCEPT ![r] = kd]
    /\ Process(r, None, None, kd, store)
    /\ UNCHANGED <<now, objects, queue, key, obj>>

\* An early answer before the lock: no capacity, or another masking mode.
Turned(r, kd, st) ==
    /\ store' = st
    /\ pc' = [pc EXCEPT ![r] = "refused"]
    /\ kind' = [kind EXCEPT ![r] = kd]
    /\ UNCHANGED <<key, obj, locks, session, mapping>>

\* get_or_create() sweeps before anything else.
ArriveAtCapacity(r, k, kd) ==
    /\ pc[r] = "idle"
    /\ kd = "stream" => ProviderReady
    /\ Swept[k] = None
    /\ ~ HasRoom
    /\ Turned(r, kd, Swept)
    /\ UNCHANGED <<now, objects>>

\* The request creates the conversation.  Nobody else knows the new object,
\* so its lock is free and the request runs on in the same step.
ArriveFirst(r, k, kd, m) ==
    /\ pc[r] = "idle"
    /\ kd = "stream" => ProviderReady
    /\ Swept[k] = None
    /\ HasRoom
    /\ access' = [access EXCEPT ![r] = now]
    /\ mode' = [mode EXCEPT ![r] = m]
    /\ kind' = [kind EXCEPT ![r] = kd]
    /\ key' = [key EXCEPT ![r] = k]
    /\ obj' = [obj EXCEPT ![r] = r]
    /\ Process(r, k, r, kd, [Swept EXCEPT ![k] = r])
    /\ UNCHANGED <<now, messages, vault, queue>>

\* The conversation exists.  With its lock free and nobody ahead the request
\* runs on in the same step, otherwise it joins the queue.
ArriveLater(r, k, kd, m) ==
    LET o == Swept[k]
    IN  /\ pc[r] = "idle"
        /\ kd = "stream" => ProviderReady
        /\ o # None
        /\ access' = [access EXCEPT ![o] = now]
        /\ UNCHANGED <<now, mode, messages, vault>>
        /\ \/ /\ mode[o] # m
              /\ Turned(r, kd, Swept)
           \/ /\ mode[o] = m
              /\ kind' = [kind EXCEPT ![r] = kd]
              /\ key' = [key EXCEPT ![r] = k]
              /\ obj' = [obj EXCEPT ![r] = o]
              /\ \/ /\ holder[o] = None /\ queue[o] = <<>>
                    /\ Process(r, k, o, kd, Swept)
                    /\ UNCHANGED queue
                 \/ /\ holder[o] # None \/ queue[o] # <<>>
                    /\ queue' = [queue EXCEPT ![o] = Append(@, r)]
                    /\ pc' = [pc EXCEPT ![r] = "waiting"]
                    /\ store' = Swept
                    /\ UNCHANGED <<holder, session, mapping>>

Arrive(r) ==
    \E kd \in {"chat", "stream"} :
        \/ ArriveAlone(r, kd)
        \/ \E k \in Key :
              \/ ArriveAtCapacity(r, k, kd)
              \/ \E m \in Mode : ArriveFirst(r, k, kd, m) \/ ArriveLater(r, k, kd, m)

\* The first waiter gets the released lock and runs on.
Wake(r) ==
    LET o == obj[r]
    IN  /\ pc[r] = "waiting"
        /\ holder[o] = None
        /\ queue[o] # <<>>
        /\ r = Head(queue[o])
        /\ queue' = [queue EXCEPT ![o] = Tail(@)]
        /\ Process(r, key[r], o, kind[r], store)
        /\ UNCHANGED <<now, objects, request>>

\* Mutant: the lock stays.
FinishLocked(r, result) ==
    /\ pc' = [pc EXCEPT ![r] = result]
    /\ mapping' = [mapping EXCEPT ![r] = None]
    /\ UNCHANGED <<now, store, locks, request, session>>

\* The end of every turn that reached the provider: mapping and lock go.
Finish(r, result) ==
    /\ pc' = [pc EXCEPT ![r] = result]
    /\ mapping' = [mapping EXCEPT ![r] = None]
    /\ holder' = Set(holder, obj[r], None)
    /\ UNCHANGED <<now, store, queue, request, session>>

\* A valid answer below 400 is committed.
ReplyOk(r) ==
    /\ pc[r] = "calling"
    /\ CommitTurn(r)
    /\ Finish(r, "ok")

\* Mutant: a failed turn is committed.
ReplyBadCommits(r) ==
    /\ pc[r] = "calling"
    /\ CommitTurn(r)
    /\ Finish(r, "failed")

\* An error status, a transport error, an invalid answer or an exception.
ReplyBad(r) ==
    /\ pc[r] = "calling"
    /\ UNCHANGED objects
    /\ Finish(r, "failed")

StreamStart(r) ==
    /\ pc[r] = "ready"
    /\ pc' = [pc EXCEPT ![r] = "streaming"]
    /\ UNCHANGED <<now, store, objects, locks, request, session, mapping>>

\* The body is never iterated: event_generator and its finally never run.
Vanish(r) ==
    /\ Vanishes
    /\ pc[r] = "ready"
    /\ pc' = [pc EXCEPT ![r] = "vanished"]
    /\ UNCHANGED <<now, store, objects, locks, request, session, mapping>>

\* Upstream error, or the client leaves in mid stream.
StreamBreaks(r) ==
    /\ pc[r] = "streaming"
    /\ Touch(r)
    /\ Finish(r, "failed")

\* The stream ended and the buffered text went out: commit.  Mapping and lock
\* stay until the generator is resumed or closed after its last event.
StreamCommit(r) ==
    /\ pc[r] = "streaming"
    /\ CommitTurn(r)
    /\ pc' = [pc EXCEPT ![r] = "flushing"]
    /\ UNCHANGED <<now, store, locks, request, session, mapping>>

StreamClose(r) ==
    /\ pc[r] = "flushing"
    /\ UNCHANGED objects
    /\ Finish(r, "ok")

\* clear_conversation(): by key, whoever works on the object.
Clear(k) ==
    /\ Clears
    /\ store[k] # None
    /\ store' = [store EXCEPT ![k] = None]
    /\ UNCHANGED <<now, objects, locks, pc, request, session, mapping>>

\* sweep_expired_state().
Sweep ==
    /\ store' = Swept
    /\ mapping' = SweptMappings
    /\ UNCHANGED <<now, objects, locks, pc, request, session>>

Tick ==
    /\ now < MaxNow
    /\ now' = now + 1
    /\ UNCHANGED <<store, objects, locks, pc, request, session, mapping>>

----------------------------------------------------------------------------
(* The event loop.  Releasing a lock makes its first waiter ready, and the *)
(* loop runs it before it looks for new input: until then another request  *)
(* takes only the one step it was ready for already.                       *)

WakePending == \E o \in Req : holder[o] = None /\ queue[o] # <<>>

Ran(r) ==
    /\ ran' = IF WakePending' THEN ran \cup {r} ELSE {}
    /\ UNCHANGED provider

Step(r) ==
    /\ r \notin ran
    /\ \/ Arrive(r)
       \/ ReplyOk(r) \/ ReplyBad(r)
       \/ StreamStart(r) \/ Vanish(r)
       \/ StreamBreaks(r) \/ StreamCommit(r) \/ StreamClose(r)

Next ==
    \/ \E r \in Req : (Wake(r) \/ Step(r)) /\ Ran(r)
    \/ /\ (\E k \in Key : Clear(k)) \/ Tick \/ Sweep
       /\ UNCHANGED <<ran, provider>>

Spec == Init /\ [][Next]_vars

\* The loop runs what is ready, httpx bounds every provider call by a timeout,
\* the server iterates or closes every body it did not abandon, the sweeper
\* wakes up periodically.
Fairness ==
    /\ \A r \in Req :
          /\ WF_vars(Wake(r) /\ Ran(r))
          /\ WF_vars(Step(r) /\ pc[r] # "idle" /\ Ran(r))
    /\ WF_vars(Sweep /\ UNCHANGED <<ran, provider>>)
    /\ WF_vars(Tick /\ UNCHANGED <<ran, provider>>)

FairSpec == Spec /\ Fairness

----------------------------------------------------------------------------
(* Properties. *)

\* The history a client of key k would see continued, and the turns whose
\* answer was accepted.
History == [k \in Key |-> IF store[k] = None THEN <<>> ELSE messages[store[k]]]
Accepted == {r \in Req : pc[r] \in {"flushing", "ok"}}

Log == INSTANCE ConversationLog WITH log <- History, answered <- Accepted

\* The stores, locks and streams together implement the abstract log.
ImplementsLog == Log!Spec

\* Two turns never work on one conversation object at the same time, neither
\* in a provider call nor while a stream is open (orchestrator.py:209, 586).
OneTurnAtATime ==
    \A r, s \in Req :
        /\ r # s
        /\ obj[r] # None
        /\ pc[r] \in Active
        /\ pc[s] \in Active
        => obj[r] # obj[s]

\* An object keeps the mappings of exactly the turns in its history: no turn's
\* mappings are lost to a concurrent turn that cloned the session earlier, and
\* none outlive the trimming of their turn.
MappingsMatchHistory ==
    \A o \in Req : vault[o] = Elements(messages[o])

\* The request mapping exists only while its turn is under way; "vanished" is
\* the abandoned flow of the comment at orchestrator.py:1062.
MappingOnlyWhileActive ==
    \A r \in Req : mapping[r] # None => pc[r] \in Active \cup {"vanished"}

\* The store never holds more conversations than its capacity, and a stored
\* conversation belongs to the key it is stored under.
StoreBounded ==
    /\ Cardinality(Live(store)) <= MaxConversations
    /\ \A k \in Live(store) : key[store[k]] = k

\* Requests that lost track of their lock: the body of the stream is never
\* iterated, or the stream path raised between acquire and response.
Lost(r) == pc[r] = "vanished" \/ (pc[r] = "crashed" /\ kind[r] = "stream")

\* A turn that got its answer holds neither the lock nor a mapping, whatever
\* went wrong in it (tests test_chat_orchestrator_fail_closed.py:515, 544).
AnsweredHoldsNothing ==
    \A r \in Req : pc[r] \in Answered =>
        /\ \A o \in Req : holder[o] # r
        /\ mapping[r] = None

\* The same for every answer but the one of Lost: all exits the code foresees
\* give both back, and only a lost request can keep others waiting.
ForeseenExitsHoldNothing ==
    \A r \in Req : pc[r] \in Answered =>
        /\ \A o \in Req : holder[o] = r => Lost(r)
        /\ mapping[r] = None

\* What requests and conversations leave behind is bounded: mappings by the turns
\* under way and those nobody reads, locks by the lost requests, conversations
\* by the capacity, whatever fails, expires or is cleared in between.
NothingIsLeftBehind ==
    MappingOnlyWhileActive /\ ForeseenExitsHoldNothing /\ StoreBounded

\* Whoever waits stands in the queue of an object that somebody works on, that
\* its first waiter is about to take, or that a lost request locked for good:
\* no wake-up is lost.
NobodyWaitsInVain ==
    \A r \in Req : pc[r] = "waiting" =>
        /\ r \in Elements(queue[obj[r]])
        /\ \/ holder[obj[r]] = None
           \/ pc[holder[obj[r]]] \in Active
           \/ Lost(holder[obj[r]])

\* The history of a conversation that was cleared, expired or replaced is
\* frozen: no late turn writes into it (conversation_store.py:107).
DetachedIsFrozen ==
    [][\A o \in Req : messages'[o] # messages[o] => \E k \in Key : store[k] = o]_vars

\* Committed history of a live conversation goes only by expiry, by Clear, or
\* by a blocked turn that worked on an older object of the same key: a turn on
\* the live object itself never deletes what was committed to it.
OwnTurnsKeepHistory ==
    [][\A k \in Key :
          /\ store[k] # None
          /\ ~ Empty(store[k])
          /\ store'[k] # store[k]
          => \/ access[store[k]] + TTL <= now
             \/ pc' = pc
             \/ \E r \in Req : /\ pc[r] = "waiting"
                               /\ pc'[r] = "blocked"
                               /\ key[r] = k
                               /\ obj[r] # store[k]]_vars

\* A blocked turn cannot mutate a conversation (anonymizer.py:61): committed
\* history that has not expired survives every blocked turn.
BlockedTurnsKeepHistory ==
    [][\A r \in Req : pc[r] # "blocked" /\ pc'[r] = "blocked" =>
          \A k \in Key :
              /\ store[k] # None
              /\ ~ Empty(store[k])
              /\ access[store[k]] + TTL > now
              => store'[k] = store[k]]_vars

\* Every request that waits for a conversation gets its turn, unless a lost
\* request locked the conversation for good.
EveryWaiterIsServed ==
    \A r \in Req : pc[r] = "waiting" ~>
        \/ pc[r] # "waiting"
        \/ \E s \in Req : Lost(s) /\ holder[obj[r]] = s

\* A mapping disappears, at the latest when the sweeper finds it expired, even
\* that of a stream nobody ever read.
MappingsDisappear ==
    \A r \in Req :
        mapping[r] # None /\ mapping[r] <= MaxNow ~> mapping[r] = None
=============================================================================
