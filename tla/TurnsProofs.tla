----------------------------- MODULE TurnsProofs -----------------------------
(***************************************************************************)
(* Proofs about ChatTurns: the lock keeps turns on one conversation apart, *)
(* and therefore no turn's mappings are lost or left behind.  Then that    *)
(* ChatTurns implements ConversationLog, for any number of requests and    *)
(* conversations: every step either answers one turn, which enters at most *)
(* the log of its own conversation, or answers none and at most empties    *)
(* logs.  Last what requests leave behind: who holds a lock and who waits  *)
(* for it, which mappings are kept, how many conversations are stored, and *)
(* who may delete one.                                                     *)
(***************************************************************************)
EXTENDS ChatTurns, FiniteSetTheorems, TLAPS

USE DEF objects, locks, request

\* The two invariants rest on what a request knows between two awaits.
\* Objects are named after requests that have arrived, and nobody has an
\* object before it arrives.
NamedAfterArrivals ==
    /\ \A r \in Req : obj[r] # None => pc[obj[r]] # "idle"
    /\ \A r \in Req : pc[r] = "idle" => obj[r] = None
    /\ \A k \in Key : store[k] # None => pc[store[k]] # "idle"

\* An object comes with a key, and only who has one waits.
InConversation ==
    \A r \in Req :
        /\ obj[r] # None => key[r] # None
        /\ pc[r] = "waiting" => obj[r] # None

\* Whoever awaits the provider or its client in a conversation holds its lock.
ActiveHoldsLock ==
    \A r \in Req : pc[r] \in Active /\ obj[r] # None => holder[obj[r]] = r

\* Until it commits, its clone is the object's session and its own mappings.
CloneIsCurrent ==
    \A r \in Req : pc[r] \in {"calling", "ready", "streaming"} /\ obj[r] # None =>
        session[r] = {r} \cup vault[obj[r]]

IInv ==
    /\ TurnsOK
    /\ NamedAfterArrivals
    /\ InConversation
    /\ ActiveHoldsLock
    /\ CloneIsCurrent
    /\ MappingsMatchHistory

----------------------------------------------------------------------------
(* Helpers of the two stores. *)

\* What the proofs need of the constants.
LEMMA Constants ==
    /\ None \notin Req \cup Key \cup Mode
    /\ MappingTTL \in Nat
    /\ MaxHistory \in Nat \ {0}
  BY ChatTurnsAssumption

\* Trimming keeps a history a history and brings no turn into it.
LEMMA TrimKeepsElements ==
    ASSUME NEW h \in Seq(Req), NEW r \in Req
    PROVE  /\ Trim(Append(h, r)) \in Seq(Req)
           /\ Elements(Trim(Append(h, r))) \subseteq {r} \cup Elements(h)
<1> DEFINE g == Append(h, r)
<1>1. /\ g \in Seq(Req)
      /\ Len(g) = Len(h) + 1
      /\ \A i \in 1 .. Len(g) : g[i] = IF i = Len(g) THEN r ELSE h[i]
  OBVIOUS
<1>2. Elements(g) \subseteq {r} \cup Elements(h)
  BY <1>1 DEF Elements
<1> HIDE DEF g
<1>3. CASE Len(g) > MaxHistory
  <2> DEFINE first == Len(g) - MaxHistory + 1
             t == SubSeq(g, first, Len(g))
  <2>1. first \in 1 .. Len(g)
    BY <1>1, <1>3, Constants
  <2>2. /\ t \in Seq(Req)
        /\ Len(t) = MaxHistory
        /\ \A i \in 1 .. Len(t) : t[i] = g[first + i - 1]
    BY <1>1, <2>1, Constants
  <2>3. \A i \in 1 .. Len(t) : first + i - 1 \in 1 .. Len(g)
    BY <1>1, <2>1, <2>2, Constants
  <2>4. Elements(t) \subseteq Elements(g)
    BY <2>2, <2>3 DEF Elements
  <2>5. Trim(g) = t
    BY <1>3 DEF Trim
  <2> QED
    BY <1>2, <2>2, <2>4, <2>5 DEF g
<1>4. CASE ~ (Len(g) > MaxHistory)
  BY <1>1, <1>2, <1>4 DEF Trim, g
<1> QED
  BY <1>3, <1>4

\* Sweeping only removes.
LEMMA SweptType ==
    ASSUME TurnsOK
    PROVE  /\ Swept \in [Key -> Req \cup {None}]
           /\ \A k \in Key : Swept[k] \in {store[k], None}
           /\ SweptMappings \in [Req -> Nat \cup {None}]
  BY DEF TurnsOK, Swept, SweptMappings

----------------------------------------------------------------------------
(* What a request does from the lock to its next await. *)

\* The outcome of Process, for a store st and an object o.
Worked(r, o, st) ==
    /\ pc' \in [Req -> PC]
    /\ pc'[r] \in (Answered \ {"ok", "failed"}) \cup {"calling", "ready"}
    /\ \A s \in Req \ {r} : pc'[s] = pc[s]
    /\ store' \in [Key -> Req \cup {None}]
    /\ \A k \in Key : store'[k] \in {st[k], None}
    /\ holder' \in [Req -> Req \cup {None}]
    /\ \A p \in Req \ {o} : holder'[p] = holder[p]
    /\ session' \in [Req -> SUBSET Req]
    /\ \A s \in Req \ {r} : session'[s] = session[s]
    /\ mapping' \in [Req -> Nat \cup {None}]
    /\ pc'[r] \in {"calling", "ready"} /\ o # None =>
          /\ holder'[o] = r
          /\ session'[r] = {r} \cup vault[o]

\* What the processing of a message does to the turn and its lock.
LEMMA ProcessWorks ==
    ASSUME TurnsOK,
           NEW r \in Req, NEW k \in Key \cup {None}, NEW o \in Req \cup {None},
           NEW kd \in {"chat", "stream"}, NEW st \in [Key -> Req \cup {None}],
           o # None => k \in Key,
           Process(r, k, o, kd, st)
    PROVE  Worked(r, o, st)
<1>0. SweptMappings \in [Req -> Nat \cup {None}]
  BY SweptType
<1> USE Constants DEF TurnsOK, Worked, Set, Answered, Active, PC
<1>1. CASE Refused(r, k, o, st)
  BY <1>1 DEF Refused
<1>2. CASE Crashed(r, o, kd, st)
  BY <1>2 DEF Crashed
<1>3. CASE NothingToCall(r, o, kd, st)
  <2>1. mapping' \in [Req -> Nat \cup {None}]
    BY <1>0, <1>3 DEF NothingToCall
  <2>2. PICK result \in {"preview", "refused"} : pc' = [pc EXCEPT ![r] = result]
    BY <1>3 DEF NothingToCall
  <2>3. store' = st /\ holder' = Set(holder, o, None) /\ session' = session
    BY <1>3 DEF NothingToCall
  <2>4. /\ pc' \in [Req -> PC]
        /\ pc'[r] = result
        /\ \A s \in Req \ {r} : pc'[s] = pc[s]
    BY <2>2
  <2>5. holder' \in [Req -> Req \cup {None}] /\ \A p \in Req \ {o} : holder'[p] = holder[p]
    BY <2>3
  <2> QED
    BY <2>1, <2>2, <2>3, <2>4, <2>5
<1>4. CASE Launched(r, o, kd, st)
  BY <1>0, <1>4 DEF Launched
<1> QED
  BY <1>1, <1>2, <1>3, <1>4 DEF Process

----------------------------------------------------------------------------
(* Every action preserves the invariant; ran is the event loop's business. *)

LEMMA InitIInv == Init => IInv
  BY Constants
     DEF Init, IInv, TurnsOK, NamedAfterArrivals, InConversation, ActiveHoldsLock,
         CloneIsCurrent, MappingsMatchHistory, Elements, PC, Active, Answered

\* A request without a conversation.
LEMMA ArriveAloneKeeps ==
    ASSUME IInv, NEW r \in Req, NEW kd \in {"chat", "stream"},
           ArriveAlone(r, kd), ran' \subseteq Req
    PROVE  IInv'
<1>1. Worked(r, None, store)
  BY ProcessWorks DEF ArriveAlone, IInv, TurnsOK
<1> USE <1>1, Constants DEF ArriveAlone, Worked
<1>2. TurnsOK'
  BY DEF IInv, TurnsOK, PC
<1>3. NamedAfterArrivals'
  <2>1. \A s \in Req : pc'[s] = "idle" => s # r /\ pc[s] = "idle"
    BY DEF Answered
  <2> QED
    BY <2>1 DEF IInv, TurnsOK, NamedAfterArrivals
<1>4. ActiveHoldsLock'
  BY DEF IInv, TurnsOK, NamedAfterArrivals, ActiveHoldsLock, Active
<1>5. CloneIsCurrent'
  BY DEF IInv, TurnsOK, NamedAfterArrivals, CloneIsCurrent
<1>6. MappingsMatchHistory'
  BY DEF IInv, MappingsMatchHistory
<1>7. InConversation'
  BY DEF IInv, TurnsOK, InConversation, Answered
<1> QED
  BY <1>2, <1>3, <1>4, <1>5, <1>6, <1>7 DEF IInv

\* A request for a new conversation while the store is full.
LEMMA ArriveAtCapacityKeeps ==
    ASSUME IInv, NEW r \in Req, NEW k \in Key, NEW kd \in {"chat", "stream"},
           ArriveAtCapacity(r, k, kd), ran' \subseteq Req
    PROVE  IInv'
<1>1. /\ Swept \in [Key -> Req \cup {None}]
      /\ \A j \in Key : Swept[j] \in {store[j], None}
  BY SweptType DEF IInv
<1> USE <1>1, Constants DEF ArriveAtCapacity, Turned
<1>2. TurnsOK'
  BY DEF IInv, TurnsOK, PC, Answered
<1>3. NamedAfterArrivals'
  BY DEF IInv, TurnsOK, NamedAfterArrivals
<1>4. ActiveHoldsLock'
  BY DEF IInv, TurnsOK, ActiveHoldsLock, Active
<1>5. CloneIsCurrent'
  BY DEF IInv, TurnsOK, CloneIsCurrent
<1>6. MappingsMatchHistory'
  BY DEF IInv, MappingsMatchHistory
<1>7. InConversation'
  BY DEF IInv, TurnsOK, InConversation, Answered
<1> QED
  BY <1>2, <1>3, <1>4, <1>5, <1>6, <1>7 DEF IInv

\* A request that creates its conversation.
LEMMA ArriveFirstKeeps ==
    ASSUME IInv, NEW r \in Req, NEW k \in Key, NEW kd \in {"chat", "stream"},
           NEW m \in Mode, ArriveFirst(r, k, kd, m), ran' \subseteq Req
    PROVE  IInv'
<1> DEFINE st == [Swept EXCEPT ![k] = r]
<1>1. /\ Swept \in [Key -> Req \cup {None}]
      /\ \A j \in Key : Swept[j] \in {store[j], None}
  BY SweptType DEF IInv
<1>2. /\ st \in [Key -> Req \cup {None}]
      /\ \A j \in Key : st[j] \in {store[j], None, r}
  BY <1>1
<1> HIDE DEF st
<1>3. Worked(r, r, st)
  <2>1. Process(r, k, r, kd, st)
    BY DEF ArriveFirst, st
  <2>2. TurnsOK
    BY DEF IInv
  <2> QED
    BY <1>2, <2>1, <2>2, ProcessWorks
<1> USE <1>2, <1>3, Constants DEF ArriveFirst, Worked
<1>4. TurnsOK'
  BY DEF IInv, TurnsOK, PC
<1>5. NamedAfterArrivals'
  <2>1. \A s \in Req : pc'[s] = "idle" => s # r /\ pc[s] = "idle"
    BY DEF Answered
  <2> QED
    BY <2>1 DEF IInv, TurnsOK, NamedAfterArrivals
<1>6. \A s \in Req : obj[s] # r
  BY DEF IInv, TurnsOK, NamedAfterArrivals
<1>7. ActiveHoldsLock'
  BY <1>6 DEF IInv, TurnsOK, ActiveHoldsLock, Active, Answered
<1>8. CloneIsCurrent'
  BY <1>6, SMTT(60) DEF IInv, TurnsOK, CloneIsCurrent, Answered
<1>9. MappingsMatchHistory'
  BY DEF IInv, MappingsMatchHistory
<1>10. InConversation'
  BY DEF IInv, TurnsOK, InConversation, Answered
<1> QED
  BY <1>4, <1>5, <1>7, <1>8, <1>9, <1>10 DEF IInv

\* With its lock free, nobody is active on an object.
LEMMA FreeMeansInactive ==
    ASSUME IInv, NEW o \in Req, holder[o] = None, NEW s \in Req, pc[s] \in Active
    PROVE  obj[s] # o
<1>1. o # None /\ s # None
  BY Constants
<1> QED
  BY <1>1 DEF IInv, ActiveHoldsLock

\* A request for a conversation that is stored.
LEMMA ArriveLaterKeeps ==
    ASSUME IInv, NEW r \in Req, NEW k \in Key, NEW kd \in {"chat", "stream"},
           NEW m \in Mode, ArriveLater(r, k, kd, m), ran' \subseteq Req
    PROVE  IInv'
<1> DEFINE o == Swept[k]
<1>1. /\ Swept \in [Key -> Req \cup {None}]
      /\ \A j \in Key : Swept[j] \in {store[j], None}
  BY SweptType DEF IInv
<1>2. o \in Req /\ store[k] = o
  BY <1>1 DEF ArriveLater
<1>3. /\ pc[r] = "idle"
      /\ access' = [access EXCEPT ![o] = now]
      /\ UNCHANGED <<now, mode, messages, vault>>
  BY DEF ArriveLater
<1>4. MappingsMatchHistory'
  BY <1>3 DEF IInv, MappingsMatchHistory
<1>5. CASE Turned(r, kd, Swept)
  <2> USE <1>1, <1>2, <1>3, <1>5, Constants DEF Turned
  <2>1. TurnsOK'
    BY DEF IInv, TurnsOK, PC, Answered
  <2>2. NamedAfterArrivals'
    BY DEF IInv, TurnsOK, NamedAfterArrivals
  <2>3. InConversation'
    BY DEF IInv, TurnsOK, InConversation
  <2>4. ActiveHoldsLock'
    BY DEF IInv, TurnsOK, ActiveHoldsLock, Active
  <2>5. CloneIsCurrent'
    BY SMTT(60) DEF IInv, TurnsOK, CloneIsCurrent
  <2> QED
    BY <1>4, <2>1, <2>2, <2>3, <2>4, <2>5 DEF IInv
<1>6. CASE /\ kind' = [kind EXCEPT ![r] = kd]
           /\ key' = [key EXCEPT ![r] = k]
           /\ obj' = [obj EXCEPT ![r] = o]
           /\ holder[o] = None
           /\ Process(r, k, o, kd, Swept)
           /\ UNCHANGED queue
  <2>1. Worked(r, o, Swept)
    BY <1>1, <1>2, <1>6, ProcessWorks DEF IInv
  <2>2. \A s \in Req : pc[s] \in Active => obj[s] # o
    BY <1>2, <1>6, FreeMeansInactive
  <2> HIDE DEF o
  <2> USE <1>1, <1>2, <1>3, <1>6, <2>1, <2>2, Constants DEF Worked
  <2>3. TurnsOK'
    BY DEF IInv, TurnsOK
  <2>4. NamedAfterArrivals'
    <3>1. \A s \in Req : pc'[s] = "idle" => s # r /\ pc[s] = "idle"
      BY DEF Answered
    <3> QED
      BY <3>1, SMTT(60) DEF IInv, TurnsOK, NamedAfterArrivals
  <2>5. InConversation'
    BY DEF IInv, TurnsOK, InConversation, Answered
  <2>6. ActiveHoldsLock'
    BY SMTT(30) DEF IInv, TurnsOK, ActiveHoldsLock, Active, Answered
  <2>7. CloneIsCurrent'
    BY SMTT(30) DEF IInv, TurnsOK, CloneIsCurrent, Answered
  <2> QED
    BY <1>4, <2>3, <2>4, <2>5, <2>6, <2>7 DEF IInv
<1>7. CASE /\ kind' = [kind EXCEPT ![r] = kd]
           /\ key' = [key EXCEPT ![r] = k]
           /\ obj' = [obj EXCEPT ![r] = o]
           /\ queue' = [queue EXCEPT ![o] = Append(@, r)]
           /\ pc' = [pc EXCEPT ![r] = "waiting"]
           /\ store' = Swept
           /\ UNCHANGED <<holder, session, mapping>>
  <2> HIDE DEF o
  <2> USE <1>1, <1>2, <1>3, <1>7, Constants
  <2>1. TurnsOK'
    BY SMTT(30) DEF IInv, TurnsOK, PC
  <2>2. NamedAfterArrivals'
    BY DEF IInv, TurnsOK, NamedAfterArrivals
  <2>3. InConversation'
    BY DEF IInv, TurnsOK, InConversation
  <2>4. ActiveHoldsLock'
    BY DEF IInv, TurnsOK, ActiveHoldsLock, Active
  <2>5. CloneIsCurrent'
    BY DEF IInv, TurnsOK, CloneIsCurrent
  <2> QED
    BY <1>4, <2>1, <2>2, <2>3, <2>4, <2>5 DEF IInv
<1> QED
  BY <1>5, <1>6, <1>7 DEF ArriveLater

\* A waiter gets the lock.
LEMMA WakeKeeps ==
    ASSUME IInv, NEW r \in Req, Wake(r), ran' \subseteq Req
    PROVE  IInv'
<1> DEFINE o == obj[r]
<1>1. o \in Req /\ key[r] \in Key /\ kind[r] \in {"chat", "stream"}
  BY DEF Wake, IInv, TurnsOK, InConversation
<1>2. /\ pc[r] = "waiting" /\ holder[o] = None /\ queue[o] # <<>>
      /\ queue' = [queue EXCEPT ![o] = Tail(@)]
      /\ Process(r, key[r], o, kind[r], store)
      /\ UNCHANGED <<now, objects, request>>
  BY DEF Wake
<1>3. Worked(r, o, store)
  BY <1>1, <1>2, ProcessWorks DEF IInv, TurnsOK
<1>4. \A s \in Req : pc[s] \in Active => obj[s] # o
  BY <1>1, <1>2, FreeMeansInactive
<1> USE <1>1, <1>2, <1>3, <1>4, Constants DEF Worked
<1>5. TurnsOK'
  <2>1. queue' \in [Req -> Seq(Req)]
    <3>1. queue[o] \in Seq(Req) /\ queue[o] # <<>>
      BY DEF IInv, TurnsOK
    <3>2. Tail(queue[o]) \in Seq(Req)
      BY <3>1
    <3> QED
      BY <3>2 DEF IInv, TurnsOK
  <2> QED
    BY <2>1 DEF IInv, TurnsOK
<1>6. NamedAfterArrivals'
  <2>1. \A s \in Req : pc'[s] = "idle" => s # r /\ pc[s] = "idle"
    BY DEF Answered
  <2>2. obj' = obj /\ \A k \in Key : store'[k] \in {store[k], None}
    BY <1>2, <1>3
  <2> QED
    BY ONLY <2>1, <2>2, Constants, IInv DEF IInv, TurnsOK, NamedAfterArrivals
<1>7. InConversation'
  BY ZenonT(60) DEF IInv, TurnsOK, InConversation, Answered
<1>8. ActiveHoldsLock'
  BY ZenonT(60) DEF IInv, TurnsOK, ActiveHoldsLock, Active, Answered
<1>9. CloneIsCurrent'
  BY ZenonT(60) DEF IInv, TurnsOK, CloneIsCurrent, Answered
<1>10. MappingsMatchHistory'
  BY DEF IInv, MappingsMatchHistory
<1> QED
  BY <1>5, <1>6, <1>7, <1>8, <1>9, <1>10 DEF IInv

\* Two active turns are never on one object: it has one holder.
LEMMA ActiveIsAlone ==
    ASSUME IInv, NEW r \in Req, pc[r] \in Active, obj[r] # None,
           NEW s \in Req \ {r}, pc[s] \in Active
    PROVE  obj[s] # obj[r]
  BY DEF IInv, ActiveHoldsLock

\* What a commit changes: the history and the session of the turn's object.
LEMMA CommitKeeps ==
    ASSUME IInv, NEW r \in Req, pc[r] \in {"calling", "streaming"}, CommitTurn(r)
    PROVE  /\ access' \in [Req -> Nat]
           /\ mode' = mode
           /\ messages' \in [Req -> Seq(Req)]
           /\ vault' \in [Req -> SUBSET Req]
           /\ \A o \in Req : o # obj[r] => vault'[o] = vault[o]
           /\ \A o \in Req : vault'[o] = Elements(messages'[o])
<1> DEFINE o == obj[r]
           h == Trim(Append(messages[o], r))
<1>1. CASE o # None /\ store[key[r]] = o
  <2>1. /\ messages' = [messages EXCEPT ![o] = h]
        /\ vault' = [vault EXCEPT ![o] = session[r] \cap Elements(h)]
        /\ access' = [access EXCEPT ![o] = now]
        /\ UNCHANGED mode
    BY <1>1 DEF CommitTurn
  <2>2. o \in Req /\ messages[o] \in Seq(Req)
    BY <1>1 DEF IInv, TurnsOK
  <2>3. h \in Seq(Req) /\ Elements(h) \subseteq {r} \cup Elements(messages[o])
    BY <2>2, TrimKeepsElements
  <2>4. session[r] = {r} \cup Elements(messages[o])
    BY <1>1, <2>2 DEF IInv, CloneIsCurrent, MappingsMatchHistory
  <2>5. session[r] \cap Elements(h) = Elements(h)
    BY <2>3, <2>4
  <2> HIDE DEF h, o
  <2>6. Elements(h) \subseteq Req
    BY <2>3 DEF Elements
  <2>7. \A p \in Req : vault'[p] = Elements(messages'[p])
    BY <2>1, <2>2, <2>5 DEF IInv, TurnsOK, MappingsMatchHistory
  <2> QED
    BY <2>1, <2>2, <2>3, <2>5, <2>6, <2>7 DEF IInv, TurnsOK, o
<1>2. CASE ~ (o # None /\ store[key[r]] = o)
  BY <1>2 DEF CommitTurn, IInv, TurnsOK, MappingsMatchHistory
<1> QED
  BY <1>1, <1>2

\* A turn that ends, with or without a commit.
LEMMA FinishKeeps ==
    ASSUME IInv, NEW r \in Req, pc[r] \in Active,
           NEW result \in {"ok", "failed"}, Finish(r, result), ran' \subseteq Req,
           access' \in [Req -> Nat], mode' = mode,
           messages' \in [Req -> Seq(Req)], vault' \in [Req -> SUBSET Req],
           \A o \in Req : o # obj[r] => vault'[o] = vault[o],
           \A o \in Req : vault'[o] = Elements(messages'[o])
    PROVE  IInv'
<1> USE Constants DEF Finish
<1>1. TurnsOK'
  BY DEF IInv, TurnsOK, PC, Answered, Set
<1>2. NamedAfterArrivals'
  BY DEF IInv, TurnsOK, NamedAfterArrivals
<1>3. InConversation'
  BY DEF IInv, TurnsOK, InConversation
<1>4. ActiveHoldsLock'
  <2> SUFFICES ASSUME NEW s \in Req, pc'[s] \in Active, obj[s] # None
               PROVE  holder'[obj[s]] = s
    BY DEF ActiveHoldsLock
  <2>1. s # r /\ pc[s] \in Active
    BY DEF IInv, TurnsOK, Active
  <2>2. obj[s] # obj[r]
    BY <2>1, ActiveIsAlone
  <2> QED
    BY <2>1, <2>2 DEF IInv, TurnsOK, ActiveHoldsLock, Set
<1>5. CloneIsCurrent'
  <2> SUFFICES ASSUME NEW s \in Req, pc'[s] \in {"calling", "ready", "streaming"},
                      obj[s] # None
               PROVE  session[s] = {s} \cup vault'[obj[s]]
    BY DEF CloneIsCurrent
  <2>1. s # r /\ pc[s] = pc'[s]
    BY DEF IInv, TurnsOK
  <2>2. obj[s] # obj[r]
    BY <2>1, ActiveIsAlone DEF Active
  <2> QED
    BY <2>1, <2>2 DEF IInv, TurnsOK, CloneIsCurrent
<1>6. MappingsMatchHistory'
  BY DEF MappingsMatchHistory
<1> QED
  BY <1>1, <1>2, <1>3, <1>4, <1>5, <1>6 DEF IInv

\* A good answer commits the turn.
LEMMA ReplyOkKeeps ==
    ASSUME IInv, NEW r \in Req, ReplyOk(r), ran' \subseteq Req
    PROVE  IInv'
<1>1. pc[r] \in {"calling", "streaming"} /\ pc[r] \in Active /\ CommitTurn(r)
  BY DEF ReplyOk, Active
<1>2. Finish(r, "ok")
  BY DEF ReplyOk
<1> QED
  BY <1>1, <1>2, CommitKeeps, FinishKeeps

\* A bad one ends it.
LEMMA ReplyBadKeeps ==
    ASSUME IInv, NEW r \in Req, ReplyBad(r), ran' \subseteq Req
    PROVE  IInv'
<1>1. pc[r] \in Active /\ Finish(r, "failed") /\ UNCHANGED objects
  BY DEF ReplyBad, Active
<1> QED
  BY <1>1, FinishKeeps DEF IInv, TurnsOK, MappingsMatchHistory

\* A stream that breaks off ends its turn.
LEMMA StreamBreaksKeeps ==
    ASSUME IInv, NEW r \in Req, StreamBreaks(r), ran' \subseteq Req
    PROVE  IInv'
<1>1. pc[r] \in Active /\ Finish(r, "failed") /\ Touch(r)
  BY DEF StreamBreaks, Active
<1>2. access' \in [Req -> Nat] /\ UNCHANGED <<mode, messages, vault>>
  BY <1>1 DEF Touch, IInv, TurnsOK
<1> QED
  BY <1>1, <1>2, FinishKeeps DEF IInv, TurnsOK, MappingsMatchHistory

\* So does one that the client closes.
LEMMA StreamCloseKeeps ==
    ASSUME IInv, NEW r \in Req, StreamClose(r), ran' \subseteq Req
    PROVE  IInv'
<1>1. pc[r] \in Active /\ Finish(r, "ok") /\ UNCHANGED objects
  BY DEF StreamClose, Active
<1> QED
  BY <1>1, FinishKeeps DEF IInv, TurnsOK, MappingsMatchHistory

\* A stream that ends well commits it.
LEMMA StreamCommitKeeps ==
    ASSUME IInv, NEW r \in Req, StreamCommit(r), ran' \subseteq Req
    PROVE  IInv'
<1>1. /\ pc[r] = "streaming" /\ pc' = [pc EXCEPT ![r] = "flushing"]
      /\ CommitTurn(r)
      /\ UNCHANGED <<now, store, locks, request, session, mapping>>
  BY DEF StreamCommit
<1>2. /\ access' \in [Req -> Nat]
      /\ mode' = mode
      /\ messages' \in [Req -> Seq(Req)]
      /\ vault' \in [Req -> SUBSET Req]
      /\ \A o \in Req : o # obj[r] => vault'[o] = vault[o]
      /\ \A o \in Req : vault'[o] = Elements(messages'[o])
  BY <1>1, CommitKeeps
<1> USE <1>1, <1>2
<1>3. TurnsOK'
  BY DEF IInv, TurnsOK, PC, Active
<1>4. NamedAfterArrivals'
  BY DEF IInv, TurnsOK, NamedAfterArrivals
<1>5. InConversation'
  BY DEF IInv, TurnsOK, InConversation
<1>6. ActiveHoldsLock'
  BY DEF IInv, TurnsOK, ActiveHoldsLock, Active
<1>7. CloneIsCurrent'
  <2> SUFFICES ASSUME NEW s \in Req, pc'[s] \in {"calling", "ready", "streaming"},
                      obj[s] # None
               PROVE  session[s] = {s} \cup vault'[obj[s]]
    BY DEF CloneIsCurrent
  <2>1. s # r /\ pc[s] = pc'[s]
    BY DEF IInv, TurnsOK
  <2>2. obj[s] # obj[r]
    BY <2>1, ActiveIsAlone DEF Active
  <2> QED
    BY <2>1, <2>2 DEF IInv, TurnsOK, CloneIsCurrent
<1>8. MappingsMatchHistory'
  BY DEF MappingsMatchHistory
<1> QED
  BY <1>3, <1>4, <1>5, <1>6, <1>7, <1>8 DEF IInv

\* The body starts, or never will.
LEMMA StreamStartKeeps ==
    ASSUME IInv, NEW r \in Req, StreamStart(r) \/ Vanish(r), ran' \subseteq Req
    PROVE  IInv'
<1>1. PICK next \in {"streaming", "vanished"} : pc' = [pc EXCEPT ![r] = next]
  BY DEF StreamStart, Vanish
<1>2. /\ pc[r] = "ready"
      /\ UNCHANGED <<now, store, objects, locks, request, session, mapping>>
  BY DEF StreamStart, Vanish
<1> USE <1>1, <1>2
<1>3. TurnsOK'
  BY DEF IInv, TurnsOK, PC, Active
<1>4. NamedAfterArrivals'
  BY DEF IInv, TurnsOK, NamedAfterArrivals
<1>5. InConversation'
  BY DEF IInv, TurnsOK, InConversation
<1>6. ActiveHoldsLock'
  BY DEF IInv, TurnsOK, ActiveHoldsLock, Active
<1>7. CloneIsCurrent'
  BY DEF IInv, TurnsOK, CloneIsCurrent
<1>8. MappingsMatchHistory'
  BY DEF IInv, MappingsMatchHistory
<1> QED
  BY <1>3, <1>4, <1>5, <1>6, <1>7, <1>8 DEF IInv

\* Clear, the sweeper and the clock touch no turn.
LEMMA BackgroundKeeps ==
    ASSUME IInv, (\E k \in Key : Clear(k)) \/ Tick \/ Sweep, UNCHANGED ran
    PROVE  IInv'
<1>1. /\ Swept \in [Key -> Req \cup {None}]
      /\ \A j \in Key : Swept[j] \in {store[j], None}
      /\ SweptMappings \in [Req -> Nat \cup {None}]
  BY SweptType DEF IInv
<1>2. /\ store' \in [Key -> Req \cup {None}]
      /\ \A j \in Key : store'[j] \in {store[j], None}
      /\ mapping' \in [Req -> Nat \cup {None}]
      /\ now' \in Nat
  <2>1. CASE \E k \in Key : Clear(k)
    BY <2>1 DEF Clear, IInv, TurnsOK
  <2>2. CASE Tick
    BY <2>2 DEF Tick, IInv, TurnsOK
  <2>3. CASE Sweep
    BY <1>1, <2>3 DEF Sweep, IInv, TurnsOK
  <2> QED
    BY <2>1, <2>2, <2>3
<1>3. UNCHANGED <<objects, locks, pc, request, session>>
  BY DEF Clear, Tick, Sweep
<1> QED
  BY <1>2, <1>3 DEF IInv, TurnsOK, NamedAfterArrivals, InConversation,
                    ActiveHoldsLock, CloneIsCurrent, MappingsMatchHistory

\* Every step of a request that is under way.
LEMMA StepKeeps ==
    ASSUME IInv, NEW r \in Req, Wake(r) \/ Step(r), Ran(r)
    PROVE  IInv'
<1>1. ran' \subseteq Req
  BY DEF Ran, IInv, TurnsOK
<1>2. CASE Wake(r)
  BY <1>1, <1>2, WakeKeeps
<1>3. CASE Arrive(r)
  BY <1>1, <1>3, ArriveAloneKeeps, ArriveAtCapacityKeeps, ArriveFirstKeeps,
     ArriveLaterKeeps DEF Arrive
<1>4. CASE ReplyOk(r)
  BY <1>1, <1>4, ReplyOkKeeps
<1>5. CASE ReplyBad(r)
  BY <1>1, <1>5, ReplyBadKeeps
<1>6. CASE StreamStart(r) \/ Vanish(r)
  BY <1>1, <1>6, StreamStartKeeps
<1>7. CASE StreamBreaks(r)
  BY <1>1, <1>7, StreamBreaksKeeps
<1>8. CASE StreamCommit(r)
  BY <1>1, <1>8, StreamCommitKeeps
<1>9. CASE StreamClose(r)
  BY <1>1, <1>9, StreamCloseKeeps
<1> QED
  BY <1>2, <1>3, <1>4, <1>5, <1>6, <1>7, <1>8, <1>9 DEF Step

----------------------------------------------------------------------------
\* IInv is inductive: what requests know between two awaits stays true under
\* every interleaving of requests, clears, sweeps and the clock.
THEOREM Inductive == Spec => []IInv
<1>1. Init => IInv
  BY InitIInv
<1>2. IInv /\ [Next]_vars => IInv'
  <2> SUFFICES ASSUME IInv, [Next]_vars PROVE IInv'
    OBVIOUS
  <2>1. CASE \E r \in Req : (Wake(r) \/ Step(r)) /\ Ran(r)
    BY <2>1, StepKeeps
  <2>2. CASE ((\E k \in Key : Clear(k)) \/ Tick \/ Sweep) /\ UNCHANGED <<ran, provider>>
    BY <2>2, BackgroundKeeps
  <2>3. CASE UNCHANGED vars
    BY <2>3 DEF vars, IInv, TurnsOK, NamedAfterArrivals, InConversation,
                ActiveHoldsLock, CloneIsCurrent, MappingsMatchHistory
  <2> QED
    BY <2>1, <2>2, <2>3 DEF Next
<1> QED
  BY <1>1, <1>2, PTL DEF Spec

\* Nothing replaces the provider of a running process.
ProviderOK == provider \in Providers

\* Every variable keeps its type (run turns_safety checks it on an instance).
THEOREM TurnsTypeOK == Spec => []TypeOK
<1>1. Init => ProviderOK
  BY DEF Init, ProviderOK
<1>2. ProviderOK /\ [Next]_vars => ProviderOK'
  BY DEF ProviderOK, Next, Ran, vars
<1>3. IInv /\ ProviderOK => TypeOK
  BY DEF IInv, ProviderOK, TypeOK
<1> QED
  BY <1>1, <1>2, <1>3, Inductive, PTL DEF Spec

\* The conversation lock and the bare acquire of the stream path keep two turns
\* from working on one conversation object at the same time.
THEOREM OneTurn == Spec => []OneTurnAtATime
<1>1. IInv => OneTurnAtATime
  BY ActiveIsAlone DEF OneTurnAtATime
<1> QED
  BY <1>1, Inductive, PTL

\* No turn's mappings are lost to a concurrent turn, and none outlive the
\* trimming of their turn.
THEOREM MappingsMatch == Spec => []MappingsMatchHistory
<1>1. IInv => MappingsMatchHistory
  BY DEF IInv
<1> QED
  BY <1>1, Inductive, PTL

----------------------------------------------------------------------------
(* The log of a conversation, and what requests leave behind. *)

\* A stored object is stored under its own key only, and an object nobody
\* created has no history.
StoredUnderItsKey ==
    /\ \A k \in Key : store[k] # None => key[store[k]] = k
    /\ \A r \in Req : pc[r] = "idle" => messages[r] = <<>>

\* A step that answers nothing: conversations may go, and may begin as objects
\* of requests that arrive in this step.
Quiet ==
    /\ messages' = messages
    /\ Accepted' = Accepted
    /\ \A k \in Key : \/ store'[k] \in {store[k], None}
                      \/ /\ store'[k] \in Req
                         /\ pc[store'[k]] = "idle"
                         /\ key'[store'[k]] = k

\* A step that answers r.
Answers(r) ==
    /\ Accepted' = Accepted \cup {r}
    /\ r \notin Accepted
    /\ store' = store
    /\ \/ messages' = messages
       \/ /\ obj[r] # None
          /\ store[key[r]] = obj[r]
          /\ messages' = [messages EXCEPT ![obj[r]] = Trim(Append(@, r))]

\* In any step, requests arrive once and keep the key they came with.
KeysStay ==
    \A r \in Req : /\ pc'[r] = "idle" => pc[r] = "idle"
                   /\ pc[r] # "idle" => key'[r] = key[r]

\* From the lock to the next await nothing is answered.
LEMMA WorkedIsQuiet ==
    ASSUME IInv, NEW r \in Req, pc[r] \in {"idle", "waiting"},
           NEW o \in Req \cup {None}, NEW st, Worked(r, o, st),
           UNCHANGED messages,
           \A s \in Req \ {r} : key'[s] = key[s],
           pc[r] = "waiting" => key'[r] = key[r],
           \A k \in Key : \/ st[k] \in {store[k], None}
                          \/ st[k] = r /\ pc[r] = "idle" /\ key'[r] = k
    PROVE  KeysStay /\ Quiet
<1>1. pc'[r] \notin {"idle", "flushing", "ok"}
  BY DEF Worked, Answered
<1>2. \A s \in Req : s # r => pc'[s] = pc[s]
  BY DEF Worked
<1>3. KeysStay
  BY <1>1, <1>2 DEF KeysStay
<1>4. Accepted' = Accepted
  BY <1>1, <1>2 DEF Accepted
<1> QED
  BY <1>3, <1>4 DEF Quiet, Worked

\* An arrival answers no turn, and names the key of its conversation for good.
LEMMA ArrivalIsQuiet ==
    ASSUME IInv, NEW r \in Req, Arrive(r)
    PROVE  KeysStay /\ Quiet
<1>1. /\ Swept \in [Key -> Req \cup {None}]
      /\ \A j \in Key : Swept[j] \in {store[j], None}
  BY SweptType DEF IInv
<1>2. ASSUME NEW kd \in {"chat", "stream"}, ArriveAlone(r, kd)
      PROVE  KeysStay /\ Quiet
  <2>1. Worked(r, None, store)
    BY <1>2, ProcessWorks DEF ArriveAlone, IInv, TurnsOK
  <2> QED
    BY <1>2, <2>1, WorkedIsQuiet DEF ArriveAlone
<1>3. ASSUME NEW kd \in {"chat", "stream"}, pc[r] = "idle", Turned(r, kd, Swept),
             UNCHANGED messages
      PROVE  KeysStay /\ Quiet
  <2>1. /\ \A s \in Req : s # r => pc'[s] = pc[s]
        /\ pc'[r] = "refused"
        /\ store' = Swept /\ key' = key
    BY <1>3 DEF Turned, IInv, TurnsOK
  <2> QED
    BY <1>1, <1>3, <2>1 DEF KeysStay, Quiet, Accepted
<1>4. ASSUME NEW kd \in {"chat", "stream"}, NEW k \in Key, ArriveAtCapacity(r, k, kd)
      PROVE  KeysStay /\ Quiet
  BY <1>3, <1>4 DEF ArriveAtCapacity
<1>5. ASSUME NEW kd \in {"chat", "stream"}, NEW k \in Key, NEW m \in Mode,
             ArriveFirst(r, k, kd, m)
      PROVE  KeysStay /\ Quiet
  <2> DEFINE st == [Swept EXCEPT ![k] = r]
  <2>1. Process(r, k, r, kd, st)
    BY <1>5 DEF ArriveFirst
  <2>2. /\ st \in [Key -> Req \cup {None}]
        /\ \A j \in Key : j # k => st[j] \in {store[j], None}
        /\ st[k] = r
    BY <1>1
  <2> HIDE DEF st
  <2>3. Worked(r, r, st)
    BY <2>1, <2>2, ProcessWorks DEF IInv
  <2>4. /\ pc[r] = "idle" /\ UNCHANGED messages
        /\ key' = [key EXCEPT ![r] = k]
    BY <1>5 DEF ArriveFirst
  <2>5. key'[r] = k /\ \A s \in Req \ {r} : key'[s] = key[s]
    BY <2>4 DEF IInv, TurnsOK
  <2> QED
    BY <2>2, <2>3, <2>4, <2>5, WorkedIsQuiet
<1>6. ASSUME NEW kd \in {"chat", "stream"}, NEW k \in Key, NEW m \in Mode,
             ArriveLater(r, k, kd, m)
      PROVE  KeysStay /\ Quiet
  <2> DEFINE o == Swept[k]
  <2>1. o \in Req /\ pc[r] = "idle" /\ UNCHANGED messages
    BY <1>1, <1>6 DEF ArriveLater
  <2>2. CASE Turned(r, kd, Swept)
    BY <1>3, <2>1, <2>2
  <2>3. CASE /\ key' = [key EXCEPT ![r] = k]
             /\ Process(r, k, o, kd, Swept)
    <3>1. Worked(r, o, Swept)
      BY <1>1, <2>1, <2>3, ProcessWorks DEF IInv
    <3>2. \A s \in Req \ {r} : key'[s] = key[s]
      BY <2>3 DEF IInv, TurnsOK
    <3> QED
      BY <1>1, <2>1, <3>1, <3>2, WorkedIsQuiet
  <2>4. CASE /\ key' = [key EXCEPT ![r] = k]
             /\ pc' = [pc EXCEPT ![r] = "waiting"]
             /\ store' = Swept
    BY <1>1, <2>1, <2>4 DEF KeysStay, Quiet, Accepted, IInv, TurnsOK
  <2> QED
    BY <1>6, <2>2, <2>3, <2>4 DEF ArriveLater
<1> QED
  BY <1>2, <1>4, <1>5, <1>6 DEF Arrive

\* Nor does a waiter that gets the lock.
LEMMA WakeIsQuiet ==
    ASSUME IInv, NEW r \in Req, Wake(r)
    PROVE  KeysStay /\ Quiet
<1> DEFINE o == obj[r]
<1>1. o \in Req /\ key[r] \in Key /\ kind[r] \in {"chat", "stream"}
  BY DEF Wake, IInv, TurnsOK, InConversation
<1>2. /\ pc[r] = "waiting" /\ UNCHANGED <<messages, key>>
      /\ Process(r, key[r], o, kind[r], store)
  BY DEF Wake
<1>3. Worked(r, o, store)
  BY <1>1, <1>2, ProcessWorks DEF IInv, TurnsOK
<1> QED
  BY <1>1, <1>2, <1>3, WorkedIsQuiet

\* The steps of a turn that reached the provider.
LEMMA TurnAnswersOrIsQuiet ==
    ASSUME IInv, NEW r \in Req,
           \/ ReplyOk(r) \/ ReplyBad(r) \/ StreamStart(r) \/ Vanish(r)
           \/ StreamBreaks(r) \/ StreamCommit(r) \/ StreamClose(r)
    PROVE  KeysStay /\ (Quiet \/ Answers(r))
<1>1. /\ pc[r] \in Active
      /\ UNCHANGED <<store, key>>
  BY DEF ReplyOk, ReplyBad, StreamStart, Vanish, StreamBreaks, StreamCommit,
         StreamClose, Finish, Active
<1>2. PICK next \in {"ok", "failed", "streaming", "vanished", "flushing"} :
          pc' = [pc EXCEPT ![r] = next]
  BY DEF ReplyOk, ReplyBad, StreamStart, Vanish, StreamBreaks, StreamCommit,
         StreamClose, Finish
<1>3. pc'[r] = next /\ \A s \in Req : s # r => pc'[s] = pc[s]
  BY <1>2 DEF IInv, TurnsOK
<1>4. KeysStay
  BY <1>1, <1>3 DEF KeysStay, Active
<1>5. CASE ReplyOk(r) \/ StreamCommit(r)
  <2>1. CommitTurn(r) /\ pc[r] \in {"calling", "streaming"} /\ pc'[r] \in {"ok", "flushing"}
    BY <1>5 DEF ReplyOk, StreamCommit, Finish, IInv, TurnsOK
  <2>2. Accepted' = Accepted \cup {r} /\ r \notin Accepted
    BY <1>3, <2>1 DEF Accepted
  <2> QED
    BY <1>1, <1>4, <2>1, <2>2 DEF CommitTurn, Answers
<1>6. CASE ReplyBad(r) \/ StreamStart(r) \/ Vanish(r) \/ StreamBreaks(r)
  <2>1. pc[r] \in {"calling", "ready", "streaming"} /\ pc'[r] \in {"failed", "streaming", "vanished"}
    BY <1>6 DEF ReplyBad, StreamStart, Vanish, StreamBreaks, Finish, IInv, TurnsOK
  <2>2. UNCHANGED messages
    BY <1>6 DEF ReplyBad, StreamStart, Vanish, StreamBreaks, Touch
  <2> QED
    BY <1>1, <1>3, <1>4, <2>1, <2>2 DEF Quiet, Accepted
<1>7. CASE StreamClose(r)
  <2>1. pc[r] = "flushing" /\ pc'[r] = "ok" /\ UNCHANGED messages
    BY <1>7 DEF StreamClose, Finish, IInv, TurnsOK
  <2> QED
    BY <1>1, <1>3, <1>4, <2>1 DEF Quiet, Accepted
<1> QED
  BY <1>5, <1>6, <1>7

\* Every step answers one turn or none.
LEMMA EveryStep ==
    ASSUME IInv, [Next]_vars
    PROVE  KeysStay /\ (Quiet \/ \E r \in Req : Answers(r))
<1>1. ASSUME NEW r \in Req, Wake(r) \/ Step(r)
      PROVE  KeysStay /\ (Quiet \/ Answers(r))
  BY <1>1, ArrivalIsQuiet, WakeIsQuiet, TurnAnswersOrIsQuiet DEF Step
<1>2. CASE (\E k \in Key : Clear(k)) \/ Tick \/ Sweep
  <2>1. \A j \in Key : Swept[j] \in {store[j], None}
    BY SweptType DEF IInv
  <2>2. \A j \in Key : store'[j] \in {store[j], None}
    BY <1>2, <2>1 DEF Clear, Tick, Sweep, IInv, TurnsOK
  <2>3. UNCHANGED <<messages, pc, key>>
    BY <1>2 DEF Clear, Tick, Sweep
  <2> QED
    BY <2>2, <2>3 DEF KeysStay, Quiet, Accepted
<1>3. CASE UNCHANGED vars
  BY <1>3 DEF vars, KeysStay, Quiet, Accepted
<1> QED
  BY <1>1, <1>2, <1>3 DEF Next

----------------------------------------------------------------------------
(* The refinement. *)

\* An object stays stored under its own key.
LEMMA StoredInductive ==
    ASSUME IInv, StoredUnderItsKey, [Next]_vars
    PROVE  StoredUnderItsKey'
<1>1. KeysStay
  BY EveryStep
<1>2. CASE Quiet
  <2>1. ASSUME NEW k \in Key, store'[k] # None
        PROVE  key'[store'[k]] = k
    <3>1. CASE store'[k] = store[k]
      BY <1>1, <2>1, <3>1 DEF StoredUnderItsKey, KeysStay, IInv, TurnsOK,
                              NamedAfterArrivals
    <3> QED
      BY <1>2, <2>1, <3>1 DEF Quiet
  <2> QED
    BY <1>1, <1>2, <2>1 DEF Quiet, KeysStay, StoredUnderItsKey
<1>3. ASSUME NEW r \in Req, Answers(r)
      PROVE  StoredUnderItsKey'
  <2>1. \A k \in Key : store'[k] # None => key'[store'[k]] = k
    BY <1>1, <1>3 DEF Answers, StoredUnderItsKey, KeysStay, IInv, TurnsOK,
                      NamedAfterArrivals
  <2>2. ASSUME NEW s \in Req, pc'[s] = "idle"
        PROVE  messages'[s] = <<>>
    <3>1. pc[s] = "idle" /\ messages[s] = <<>>
      BY <1>1, <2>2 DEF KeysStay, StoredUnderItsKey
    <3>2. obj[r] # s
      BY <3>1, Constants DEF IInv, TurnsOK, NamedAfterArrivals
    <3> QED
      BY <1>3, <3>1, <3>2 DEF Answers, IInv, TurnsOK
  <2> QED
    BY <2>1, <2>2 DEF StoredUnderItsKey
<1> QED
  BY <1>2, <1>3, EveryStep

\* A stored object has one key, and its history is the log of that key.
LEMMA AnswersIsAnswer ==
    ASSUME IInv, StoredUnderItsKey, NEW r \in Req, Answers(r)
    PROVE  Log!Answer(r)
<1>1. CASE messages' = messages
  <2>1. History' = History
    BY <1>1 DEF Answers, History
  <2> QED
    BY <2>1 DEF Answers, Log!Answer
<1>2. CASE /\ obj[r] # None
           /\ store[key[r]] = obj[r]
           /\ messages' = [messages EXCEPT ![obj[r]] = Trim(Append(@, r))]
  <2> DEFINE o == obj[r]
             k == key[r]
             h == Trim(Append(messages[o], r))
  <2>1. o \in Req /\ k \in Key
    BY <1>2 DEF IInv, TurnsOK, InConversation
  <2>2. \A j \in Key : j # k => store[j] # o
    BY <1>2, <2>1 DEF StoredUnderItsKey
  <2>3. messages'[o] = h /\ \A p \in Req : p # o => messages'[p] = messages[p]
    BY <1>2, <2>1 DEF IInv, TurnsOK
  <2>4. History[k] = messages[o]
    BY <1>2, <2>1 DEF History
  <2>5. History' = [History EXCEPT ![k] = h]
    <3> HIDE DEF h
    <3>1. \A j \in Key : History'[j] = IF j = k THEN h ELSE History[j]
      BY <1>2, <2>1, <2>2, <2>3 DEF History, Answers, IInv, TurnsOK
    <3> QED
      BY <2>1, <3>1 DEF History
  <2>6. h = Log!Newest(Append(History[k], r))
    BY <2>4 DEF Trim, Log!Newest
  <2> QED
    BY <2>1, <2>5, <2>6 DEF Answers, Log!Answer
<1> QED
  BY <1>1, <1>2 DEF Answers

\* What goes is forgotten as a whole, and what begins is empty.
LEMMA QuietIsForget ==
    ASSUME IInv, StoredUnderItsKey, Quiet
    PROVE  Log!Forget({k \in Key : store'[k] # store[k]})
<1> DEFINE gone == {k \in Key : store'[k] # store[k]}
<1>1. ASSUME NEW k \in gone
      PROVE  History'[k] = <<>>
  BY <1>1, Constants DEF Quiet, History, StoredUnderItsKey, IInv, TurnsOK
<1>2. ASSUME NEW k \in Key \ gone
      PROVE  History'[k] = History[k]
  BY <1>2 DEF Quiet, History
<1>3. History' = [k \in Key |-> IF k \in gone THEN <<>> ELSE History[k]]
  BY <1>1, <1>2 DEF History
<1> QED
  BY <1>3 DEF Quiet, Log!Forget

\* The stores, locks and streams together implement the log: every turn enters
\* at most one history, its own, at its end, histories go only as a whole, and
\* what was forgotten never comes back.
THEOREM Implementation == Spec => ImplementsLog
<1>1. Init => Log!Init /\ StoredUnderItsKey
  BY DEF Init, Log!Init, History, Accepted, StoredUnderItsKey
<1>2. IInv /\ StoredUnderItsKey /\ [Next]_vars => StoredUnderItsKey'
  BY StoredInductive
<1>3. IInv /\ StoredUnderItsKey /\ [Next]_vars => [Log!Next]_<<History, Accepted>>
  <2> SUFFICES ASSUME IInv, StoredUnderItsKey, [Next]_vars
               PROVE  Log!Next
    OBVIOUS
  <2>1. CASE Quiet
    <3>1. {k \in Key : store'[k] # store[k]} \in SUBSET Key
      OBVIOUS
    <3> QED
      BY <2>1, <3>1, QuietIsForget DEF Log!Next
  <2>2. ASSUME NEW r \in Req, Answers(r)
        PROVE  Log!Next
    BY <2>2, AnswersIsAnswer DEF Log!Next
  <2> QED
    BY <2>1, <2>2, EveryStep
<1> QED
  BY <1>1, <1>2, <1>3, Inductive, PTL DEF Spec, ImplementsLog, Log!Spec

\* No late turn writes into the history of a conversation that was cleared, has
\* expired or was replaced: a history changes only while it is stored.
THEOREM Frozen == Spec => DetachedIsFrozen
<1>1. IInv /\ [Next]_vars =>
          [\A o \in Req : messages'[o] # messages[o] => \E k \in Key : store[k] = o]_vars
  <2> SUFFICES ASSUME IInv, [Next]_vars,
                      NEW o \in Req, messages'[o] # messages[o]
               PROVE  \E k \in Key : store[k] = o
    OBVIOUS
  <2>1. PICK r \in Req : Answers(r)
    BY EveryStep DEF Quiet
  <2>2. obj[r] = o /\ store[key[r]] = o /\ obj[r] # None
    BY <2>1 DEF Answers, IInv, TurnsOK
  <2>3. key[r] \in Key
    BY <2>2 DEF IInv, TurnsOK, InConversation
  <2> QED
    BY <2>2, <2>3
<1> QED
  BY <1>1, Inductive, PTL DEF Spec, DetachedIsFrozen

-----------------------------------------------------------------------------
(* Locks, queues and what a finished request leaves behind. *)

\* The queue of an object lists exactly the requests that wait for it, once each.
QueuesListWaiters ==
    /\ \A o \in Req : \A i \in 1 .. Len(queue[o]) :
          /\ pc[queue[o][i]] = "waiting"
          /\ obj[queue[o][i]] = o
    /\ \A o \in Req : \A i, j \in 1 .. Len(queue[o]) :
          queue[o][i] = queue[o][j] => i = j
    /\ \A r \in Req : pc[r] = "waiting" => r \in Elements(queue[obj[r]])

\* Who holds a lock is at work on its object, or lost track of it.
HolderIsKnown ==
    \A o \in Req : holder[o] # None =>
        /\ obj[holder[o]] = o
        /\ pc[holder[o]] \in Active \/ Lost(holder[o])

\* Before it is finite the number of stored conversations means nothing.
CapacityKept ==
    /\ IsFiniteSet(Live(store))
    /\ Cardinality(Live(store)) <= MaxConversations

LockInv ==
    /\ IInv
    /\ QueuesListWaiters
    /\ HolderIsKnown
    /\ MappingOnlyWhileActive

\* What Process does to the lock, the mappings and the store, beyond Worked: the
\* lock is with r only while r is at work or crashed in the stream path, only a
\* launch makes a mapping, and only a refusal removes its own empty object.
Handed(r, k, o, kd, st) ==
    /\ o # None => holder'[o] \in {None, r}
    /\ o # None /\ holder'[o] = r =>
          pc'[r] \in Active \/ (pc'[r] = "crashed" /\ kd = "stream")
    /\ \A s \in Req : mapping'[s] # None =>
          mapping[s] # None \/ (s = r /\ pc'[r] \in Active)
    /\ \A j \in Key : store'[j] # st[j] =>
          o # None /\ j = k /\ Empty(o) /\ pc'[r] = "blocked"

\* What the processing of a message does to locks and mappings.
LEMMA ProcessHands ==
    ASSUME TurnsOK,
           NEW r \in Req, NEW k \in Key \cup {None}, NEW o \in Req \cup {None},
           NEW kd \in {"chat", "stream"}, NEW st \in [Key -> Req \cup {None}],
           o # None => k \in Key,
           Process(r, k, o, kd, st)
    PROVE  Handed(r, k, o, kd, st)
<1>1. \A s \in Req : SweptMappings[s] # None => mapping[s] # None
  BY DEF SweptMappings
<1>2. SweptMappings \in [Req -> Nat \cup {None}]
  BY SweptType
<1> USE Constants DEF TurnsOK, Handed, Set
<1>3. CASE Refused(r, k, o, st)
  BY <1>3 DEF Refused
<1>4. CASE Crashed(r, o, kd, st)
  BY <1>4 DEF Crashed
<1>5. CASE NothingToCall(r, o, kd, st)
  <2>1. \A s \in Req : mapping'[s] # None => mapping[s] # None
    BY <1>1, <1>2, <1>5 DEF NothingToCall
  <2>2. store' = st /\ holder' = Set(holder, o, None)
    BY <1>5 DEF NothingToCall
  <2> QED
    BY <2>1, <2>2
<1>6. CASE Launched(r, o, kd, st)
  <2>1. pc'[r] \in Active
    BY <1>6 DEF Launched, Active
  <2>2. store' = st /\ holder' = Set(holder, o, r)
    BY <1>6 DEF Launched
  <2>3. \A s \in Req : mapping'[s] # None => mapping[s] # None \/ s = r
    BY <1>1, <1>2, <1>6 DEF Launched
  <2> QED
    BY <2>1, <2>2, <2>3
<1> QED
  BY <1>3, <1>4, <1>5, <1>6 DEF Process

----------------------------------------------------------------------------
(* The queues. *)

\* Initially nobody holds or wants anything.
LEMMA InitLocks == Init => LockInv /\ CapacityKept
<1>1. ASSUME Init
      PROVE  Live(store) = {}
  BY <1>1 DEF Init, Live
<1>2. Init => CapacityKept
  BY <1>1, FS_EmptySet, ChatTurnsAssumption DEF CapacityKept
<1>3. Init => LockInv
  BY InitIInv, Constants DEF Init, LockInv, QueuesListWaiters, HolderIsKnown,
                             MappingOnlyWhileActive
<1> QED
  BY <1>2, <1>3

\* Nobody begins or stops to wait.
LEMMA QueuesStay ==
    ASSUME LockInv, queue' = queue,
           \A s \in Req : pc'[s] = "waiting" <=> pc[s] = "waiting",
           \A s \in Req : pc[s] = "waiting" => obj'[s] = obj[s]
    PROVE  QueuesListWaiters'
<1>1. \A o \in Req : \A i \in 1 .. Len(queue[o]) : queue[o][i] \in Req
  BY DEF LockInv, IInv, TurnsOK
<1> QED
  BY <1>1 DEF LockInv, QueuesListWaiters, Elements

\* A request that arrives joins the queue of its object.
LEMMA QueueGrows ==
    ASSUME LockInv, NEW r \in Req, NEW o \in Req, pc[r] = "idle",
           queue' = [queue EXCEPT ![o] = Append(@, r)],
           pc' = [pc EXCEPT ![r] = "waiting"],
           obj' = [obj EXCEPT ![r] = o]
    PROVE  QueuesListWaiters'
<1> DEFINE q == queue[o]
           g == Append(q, r)
<1>1. q \in Seq(Req) /\ \A p \in Req : queue[p] \in Seq(Req)
  BY DEF LockInv, IInv, TurnsOK
<1>2. /\ queue'[o] = g
      /\ \A p \in Req : p # o => queue'[p] = queue[p]
  BY DEF LockInv, IInv, TurnsOK
<1>3. /\ Len(g) = Len(q) + 1
      /\ g[Len(g)] = r
      /\ \A i \in 1 .. Len(q) : g[i] = q[i]
  BY <1>1
<1>4. /\ pc'[r] = "waiting" /\ obj'[r] = o
      /\ \A s \in Req : s # r => pc'[s] = pc[s] /\ obj'[s] = obj[s]
  BY DEF LockInv, IInv, TurnsOK
<1>5. \A p \in Req : \A i \in 1 .. Len(queue[p]) :
         /\ queue[p][i] \in Req \ {r}
         /\ pc[queue[p][i]] = "waiting"
         /\ obj[queue[p][i]] = p
  BY <1>1 DEF LockInv, QueuesListWaiters
<1> HIDE DEF g
<1>6. \A i \in 1 .. Len(g) : i \in 1 .. Len(q) \/ i = Len(g)
  BY <1>1, <1>3
<1>7. ASSUME NEW p \in Req, NEW i \in 1 .. Len(queue'[p])
      PROVE  pc'[queue'[p][i]] = "waiting" /\ obj'[queue'[p][i]] = p
  BY <1>2, <1>3, <1>4, <1>5, <1>6, <1>7
<1>8. ASSUME NEW p \in Req, NEW i \in 1 .. Len(queue'[p]), NEW j \in 1 .. Len(queue'[p]),
             queue'[p][i] = queue'[p][j]
      PROVE  i = j
  <2>1. CASE p # o
    BY <1>2, <1>8, <2>1 DEF LockInv, QueuesListWaiters
  <2>2. CASE p = o
    <3>1. \A l, m \in 1 .. Len(q) : q[l] = q[m] => l = m
      BY DEF LockInv, QueuesListWaiters
    <3> QED
      BY <1>2, <1>3, <1>5, <1>6, <1>8, <2>2, <3>1
  <2> QED
    BY <2>1, <2>2
<1>9. ASSUME NEW s \in Req, pc'[s] = "waiting"
      PROVE  s \in Elements(queue'[obj'[s]])
  <2>1. CASE s = r
    <3>1. Len(g) \in 1 .. Len(g)
      BY <1>1, <1>3
    <3> QED
      BY <1>2, <1>3, <1>4, <2>1, <3>1 DEF Elements
  <2>2. CASE s # r
    <3>1. s \in Elements(queue[obj[s]]) /\ obj[s] \in Req
      BY <1>4, <1>9, <2>2 DEF LockInv, QueuesListWaiters, IInv, TurnsOK, InConversation
    <3>2. \A i \in 1 .. Len(q) : i \in 1 .. Len(g)
      BY <1>1, <1>3
    <3> QED
      BY <1>2, <1>3, <1>4, <2>2, <3>1, <3>2 DEF Elements
  <2> QED
    BY <2>1, <2>2
<1> QED
  BY <1>7, <1>8, <1>9 DEF QueuesListWaiters

\* The first of a queue gets the lock and waits no more, nobody else does.
LEMMA QueueShrinks ==
    ASSUME LockInv, NEW r \in Req, NEW o \in Req, pc[r] = "waiting",
           queue[o] # <<>>, r = Head(queue[o]),
           queue' = [queue EXCEPT ![o] = Tail(@)],
           pc'[r] # "waiting",
           \A s \in Req \ {r} : pc'[s] = pc[s],
           obj' = obj
    PROVE  QueuesListWaiters'
<1> DEFINE q == queue[o]
           t == Tail(q)
<1>1. q \in Seq(Req) /\ q # <<>> /\ \A p \in Req : queue[p] \in Seq(Req)
  BY DEF LockInv, IInv, TurnsOK
<1>2. /\ queue'[o] = t
      /\ \A p \in Req : p # o => queue'[p] = queue[p]
  BY DEF LockInv, IInv, TurnsOK
<1>3. /\ q[1] = r
      /\ Len(q) \in Nat \ {0}
      /\ Len(t) = Len(q) - 1
      /\ \A i \in 1 .. Len(t) : t[i] = q[i + 1]
  BY <1>1
<1> HIDE DEF t
<1>4. \A i \in 1 .. Len(t) : i + 1 \in 2 .. Len(q) /\ i + 1 \in 1 .. Len(q)
  BY <1>3
<1>5. \A l, m \in 1 .. Len(q) : q[l] = q[m] => l = m
  BY DEF LockInv, QueuesListWaiters
<1>6. \A i \in 1 .. Len(t) : t[i] # r
  BY SMTT(30), <1>3, <1>4, <1>5
<1>7. obj[r] = o
  BY <1>3 DEF LockInv, QueuesListWaiters
<1>8. \A p \in Req : \A i \in 1 .. Len(queue[p]) :
         /\ queue[p][i] \in Req
         /\ pc[queue[p][i]] = "waiting"
         /\ obj[queue[p][i]] = p
  BY <1>1 DEF LockInv, QueuesListWaiters
<1>9. ASSUME NEW p \in Req, NEW i \in 1 .. Len(queue'[p])
      PROVE  pc'[queue'[p][i]] = "waiting" /\ obj'[queue'[p][i]] = p
  <2>1. CASE p = o
    <3>1. i \in 1 .. Len(t) /\ queue'[p][i] = t[i]
      BY <1>2, <2>1
    <3>2. t[i] = q[i + 1] /\ t[i] # r
      BY <1>3, <1>6, <3>1
    <3>3. /\ q[i + 1] \in Req
          /\ pc[q[i + 1]] = "waiting" /\ obj[q[i + 1]] = o
      BY <1>4, <1>8, <3>1
    <3> QED
      BY <2>1, <3>1, <3>2, <3>3
  <2>2. CASE p # o
    BY <1>2, <1>7, <1>8, <1>9, <2>2
  <2> QED
    BY <2>1, <2>2
<1>10. ASSUME NEW p \in Req, NEW i \in 1 .. Len(queue'[p]), NEW j \in 1 .. Len(queue'[p]),
              queue'[p][i] = queue'[p][j]
       PROVE  i = j
  <2>1. CASE p # o
    BY <1>2, <1>10, <2>1 DEF LockInv, QueuesListWaiters
  <2>2. CASE p = o
    BY <1>2, <1>3, <1>4, <1>5, <1>10, <2>2
  <2> QED
    BY <2>1, <2>2
<1>11. ASSUME NEW s \in Req, pc'[s] = "waiting"
       PROVE  s \in Elements(queue'[obj'[s]])
  <2>1. s # r /\ pc[s] = "waiting"
    BY <1>11
  <2>2. s \in Elements(queue[obj[s]]) /\ obj[s] \in Req
    BY <2>1 DEF LockInv, QueuesListWaiters, IInv, TurnsOK, InConversation
  <2>3. CASE obj[s] = o
    <3>1. PICK i \in 1 .. Len(q) : s = q[i]
      BY <2>2, <2>3 DEF Elements
    <3>2. i # 1 /\ i - 1 \in 1 .. Len(t)
      BY <1>3, <2>1, <3>1
    <3>3. t[i - 1] = s
      BY <1>3, <3>1, <3>2
    <3> QED
      BY <1>2, <2>3, <3>2, <3>3, SMTT(60) DEF Elements
  <2>4. CASE obj[s] # o
    BY <1>2, <2>2, <2>4
  <2> QED
    BY <2>3, <2>4
<1> QED
  BY <1>9, <1>10, <1>11 DEF QueuesListWaiters

----------------------------------------------------------------------------
(* Holders and mappings. *)

\* A request that has not arrived or waits holds no lock.
LEMMA HolderIsBusy ==
    ASSUME LockInv, NEW r \in Req, pc[r] \in {"idle", "waiting"}, NEW p \in Req
    PROVE  holder[p] \in Req \cup {None} /\ holder[p] # r
<1>1. r # None /\ holder[p] \in Req \cup {None}
  BY Constants DEF LockInv, IInv, TurnsOK
<1>2. pc[r] \notin Active /\ ~ Lost(r)
  BY DEF Active, Lost
<1> QED
  BY <1>1, <1>2 DEF LockInv, HolderIsKnown

\* From the lock to the next await: the lock is free or with r, who knows it.
LEMMA HolderWorks ==
    ASSUME LockInv, NEW r \in Req, pc[r] \in {"idle", "waiting"},
           NEW k, NEW o \in Req \cup {None}, NEW kd, NEW st,
           Worked(r, o, st), Handed(r, k, o, kd, st),
           obj'[r] = o, kind'[r] = kd,
           \A s \in Req \ {r} : obj'[s] = obj[s] /\ kind'[s] = kind[s]
    PROVE  HolderIsKnown' /\ MappingOnlyWhileActive'
<1>1. \A s \in Req : s # r => pc'[s] = pc[s]
  BY DEF Worked
<1>2. \A p \in Req : holder[p] \in Req \cup {None} /\ holder[p] # r
  BY HolderIsBusy
<1>3. ASSUME NEW p \in Req, holder'[p] # None
      PROVE  /\ obj'[holder'[p]] = p
             /\ pc'[holder'[p]] \in Active \/ Lost(holder[p])'
  <2>1. CASE p = o
    <3>1. holder'[p] = r
      BY <1>3, <2>1, Constants DEF Handed
    <3> QED
      BY <1>3, <2>1, <3>1, Constants DEF Handed, Lost
  <2>2. CASE p # o
    <3>1. holder'[p] = holder[p] /\ holder[p] \in Req \ {r}
      BY <1>2, <1>3, <2>2 DEF Worked
    <3>2. obj[holder[p]] = p /\ (pc[holder[p]] \in Active \/ Lost(holder[p]))
      BY <1>3, <3>1 DEF LockInv, HolderIsKnown
    <3> QED
      BY <1>1, <3>1, <3>2 DEF Lost
  <2> QED
    BY <2>1, <2>2
<1>4. ASSUME NEW s \in Req, mapping'[s] # None
      PROVE  pc'[s] \in Active \cup {"vanished"}
  <2>1. CASE mapping[s] # None
    <3>1. pc[s] \in Active \cup {"vanished"}
      BY <2>1 DEF LockInv, MappingOnlyWhileActive
    <3>2. s # r
      BY <3>1 DEF Active
    <3> QED
      BY <1>1, <3>1, <3>2
  <2> QED
    BY <1>4, <2>1 DEF Handed
<1> QED
  BY <1>3, <1>4 DEF HolderIsKnown, MappingOnlyWhileActive

\* A request that has not arrived or waits may change where it stands.
LEMMA HolderStays ==
    ASSUME LockInv, NEW r \in Req, pc[r] = "idle",
           holder' = holder, mapping' = mapping,
           \A s \in Req \ {r} :
              pc'[s] = pc[s] /\ obj'[s] = obj[s] /\ kind'[s] = kind[s]
    PROVE  HolderIsKnown' /\ MappingOnlyWhileActive'
<1>1. \A p \in Req : holder[p] \in Req \cup {None} /\ holder[p] # r
  BY HolderIsBusy
<1>2. mapping[r] = None
  BY DEF LockInv, MappingOnlyWhileActive, Active
<1> QED
  BY <1>1, <1>2 DEF LockInv, HolderIsKnown, MappingOnlyWhileActive, Lost

\* A turn that reached the provider goes on, loses its client or ends.
LEMMA TurnKeepsLocks ==
    ASSUME LockInv, NEW r \in Req,
           \/ ReplyOk(r) \/ ReplyBad(r) \/ StreamStart(r) \/ Vanish(r)
           \/ StreamBreaks(r) \/ StreamCommit(r) \/ StreamClose(r)
    PROVE  QueuesListWaiters' /\ HolderIsKnown' /\ MappingOnlyWhileActive'
<1>1. /\ pc[r] \in Active
      /\ UNCHANGED <<queue, obj, kind>>
  BY DEF ReplyOk, ReplyBad, StreamStart, Vanish, StreamBreaks, StreamCommit,
         StreamClose, Finish, Active
<1>2. PICK next \in {"ok", "failed", "streaming", "vanished", "flushing"} :
          pc' = [pc EXCEPT ![r] = next]
  BY DEF ReplyOk, ReplyBad, StreamStart, Vanish, StreamBreaks, StreamCommit,
         StreamClose, Finish
<1>3. pc'[r] = next /\ \A s \in Req : s # r => pc'[s] = pc[s]
  BY <1>2 DEF LockInv, IInv, TurnsOK
<1>4. QueuesListWaiters'
  <2>1. \A s \in Req : pc'[s] = "waiting" <=> pc[s] = "waiting"
    BY <1>1, <1>3 DEF Active
  <2> QED
    BY <1>1, <2>1, QueuesStay
<1>5. CASE StreamStart(r) \/ Vanish(r) \/ StreamCommit(r)
  <2>1. next \in Active \cup {"vanished"} /\ UNCHANGED <<holder, mapping>>
    BY <1>3, <1>5 DEF StreamStart, Vanish, StreamCommit, Active, LockInv, IInv, TurnsOK
  <2>2. ASSUME NEW p \in Req, holder[p] # None
        PROVE  /\ obj[holder[p]] = p
               /\ pc'[holder[p]] \in Active \/ Lost(holder[p])'
    <3>1. /\ holder[p] \in Req /\ obj[holder[p]] = p
          /\ pc[holder[p]] \in Active \/ Lost(holder[p])
      BY <2>2 DEF LockInv, IInv, TurnsOK, HolderIsKnown
    <3>2. CASE holder[p] = r
      <4>1. pc'[r] \in Active \cup {"vanished"}
        BY <1>3, <2>1
      <4> QED
        BY <2>1, <3>1, <3>2, <4>1 DEF Lost
    <3>3. CASE holder[p] # r
      BY <1>1, <1>3, <2>1, <3>1, <3>3 DEF Lost
    <3> QED
      BY <3>2, <3>3
  <2>3. MappingOnlyWhileActive'
    BY <1>3, <2>1 DEF LockInv, MappingOnlyWhileActive
  <2> QED
    BY <1>1, <1>4, <2>1, <2>2, <2>3 DEF HolderIsKnown
<1>6. CASE Finish(r, next)
  <2>1. holder' = Set(holder, obj[r], None) /\ mapping' = [mapping EXCEPT ![r] = None]
    BY <1>6 DEF Finish
  <2>2. ASSUME NEW p \in Req, holder'[p] # None
        PROVE  holder'[p] = holder[p] /\ holder[p] \in Req \ {r}
    <3>1. p # obj[r] /\ holder'[p] = holder[p] /\ holder[p] \in Req
      BY <2>1, <2>2, Constants DEF Set, LockInv, IInv, TurnsOK
    <3>2. obj[holder[p]] = p
      BY <2>2, <3>1 DEF LockInv, HolderIsKnown
    <3> QED
      BY <3>1, <3>2
  <2>3. HolderIsKnown'
    BY <1>1, <1>3, <2>2 DEF LockInv, HolderIsKnown, Lost
  <2>4. MappingOnlyWhileActive'
    BY <1>1, <1>3, <2>1 DEF LockInv, IInv, TurnsOK, MappingOnlyWhileActive
  <2> QED
    BY <1>4, <2>3, <2>4
<1>7. (StreamStart(r) \/ Vanish(r) \/ StreamCommit(r)) \/ Finish(r, next)
  <2>1. ASSUME NEW result \in {"ok", "failed"}, Finish(r, result)
        PROVE  Finish(r, next)
    BY <1>3, <2>1 DEF Finish, LockInv, IInv, TurnsOK
  <2> QED
    BY <2>1 DEF ReplyOk, ReplyBad, StreamBreaks, StreamClose
<1> QED
  BY <1>5, <1>6, <1>7

\* An arrival takes a free lock, joins the queue of a taken one, or leaves at once.
LEMMA ArrivalKeepsLocks ==
    ASSUME LockInv, NEW r \in Req, Arrive(r)
    PROVE  QueuesListWaiters' /\ HolderIsKnown' /\ MappingOnlyWhileActive'
<1>1. /\ Swept \in [Key -> Req \cup {None}]
      /\ \A j \in Key : Swept[j] \in {store[j], None}
  BY SweptType DEF LockInv, IInv
<1>2. ASSUME NEW k \in Key \cup {None}, NEW o \in Req \cup {None},
             NEW kd \in {"chat", "stream"}, NEW st \in [Key -> Req \cup {None}],
             o # None => k \in Key, pc[r] = "idle", Process(r, k, o, kd, st),
             kind' = [kind EXCEPT ![r] = kd], obj' = [obj EXCEPT ![r] = o],
             queue' = queue
      PROVE  QueuesListWaiters' /\ HolderIsKnown' /\ MappingOnlyWhileActive'
  <2>1. Worked(r, o, st) /\ Handed(r, k, o, kd, st)
    BY <1>2, ProcessWorks, ProcessHands DEF LockInv, IInv
  <2>2. /\ obj'[r] = o /\ kind'[r] = kd
        /\ \A s \in Req \ {r} : obj'[s] = obj[s] /\ kind'[s] = kind[s]
    BY <1>2 DEF LockInv, IInv, TurnsOK
  <2>3. \A s \in Req : pc'[s] = "waiting" <=> pc[s] = "waiting"
    BY <1>2, <2>1 DEF Worked, Answered
  <2>4. QueuesListWaiters'
    BY <1>2, <2>2, <2>3, QueuesStay
  <2> QED
    BY <1>2, <2>1, <2>2, <2>4, HolderWorks
<1>3. ASSUME NEW kd \in {"chat", "stream"}, Turned(r, kd, Swept), pc[r] = "idle"
      PROVE  QueuesListWaiters' /\ HolderIsKnown' /\ MappingOnlyWhileActive'
  <2>1. /\ pc'[r] = "refused" /\ UNCHANGED <<holder, queue, mapping, obj>>
        /\ \A s \in Req \ {r} :
              pc'[s] = pc[s] /\ obj'[s] = obj[s] /\ kind'[s] = kind[s]
    BY <1>3 DEF Turned, LockInv, IInv, TurnsOK
  <2>2. \A s \in Req : pc'[s] = "waiting" <=> pc[s] = "waiting"
    BY <1>3, <2>1
  <2> QED
    BY <1>3, <2>1, <2>2, QueuesStay, HolderStays
<1>4. ASSUME NEW kd \in {"chat", "stream"}, ArriveAlone(r, kd)
      PROVE  QueuesListWaiters' /\ HolderIsKnown' /\ MappingOnlyWhileActive'
  <2>1. obj' = [obj EXCEPT ![r] = None]
    BY <1>4 DEF ArriveAlone, LockInv, IInv, TurnsOK, NamedAfterArrivals
  <2>2. /\ Process(r, None, None, kd, store) /\ pc[r] = "idle"
        /\ kind' = [kind EXCEPT ![r] = kd] /\ queue' = queue
        /\ store \in [Key -> Req \cup {None}]
    BY <1>4 DEF ArriveAlone, LockInv, IInv, TurnsOK
  <2> QED
    BY <1>2, <2>1, <2>2
<1>5. ASSUME NEW kd \in {"chat", "stream"}, NEW k \in Key, NEW m \in Mode,
             ArriveFirst(r, k, kd, m)
      PROVE  QueuesListWaiters' /\ HolderIsKnown' /\ MappingOnlyWhileActive'
  <2>1. [Swept EXCEPT ![k] = r] \in [Key -> Req \cup {None}]
    BY <1>1
  <2> QED
    BY <1>2, <1>5, <2>1 DEF ArriveFirst
<1>6. ASSUME NEW kd \in {"chat", "stream"}, NEW k \in Key, NEW m \in Mode,
             ArriveLater(r, k, kd, m)
      PROVE  QueuesListWaiters' /\ HolderIsKnown' /\ MappingOnlyWhileActive'
  <2> DEFINE o == Swept[k]
  <2>1. o \in Req /\ pc[r] = "idle"
    BY <1>1, <1>6 DEF ArriveLater
  <2>2. CASE Turned(r, kd, Swept)
    BY <1>3, <2>1, <2>2
  <2>3. CASE /\ kind' = [kind EXCEPT ![r] = kd]
             /\ obj' = [obj EXCEPT ![r] = o]
             /\ Process(r, k, o, kd, Swept)
             /\ UNCHANGED queue
    BY <1>1, <1>2, <2>1, <2>3
  <2>4. CASE /\ kind' = [kind EXCEPT ![r] = kd]
             /\ obj' = [obj EXCEPT ![r] = o]
             /\ queue' = [queue EXCEPT ![o] = Append(@, r)]
             /\ pc' = [pc EXCEPT ![r] = "waiting"]
             /\ UNCHANGED <<holder, session, mapping>>
    <3>1. QueuesListWaiters'
      BY <2>1, <2>4, QueueGrows
    <3>2. \A s \in Req \ {r} :
             pc'[s] = pc[s] /\ obj'[s] = obj[s] /\ kind'[s] = kind[s]
      BY <2>4 DEF LockInv, IInv, TurnsOK
    <3> QED
      BY <2>1, <2>4, <3>1, <3>2, HolderStays
  <2> QED
    BY <1>6, <2>2, <2>3, <2>4 DEF ArriveLater
<1> QED
  BY <1>3, <1>4, <1>5, <1>6 DEF Arrive, ArriveAtCapacity

\* A waiter takes the lock that was handed to it, and leaves the queue.
LEMMA WakeKeepsLocks ==
    ASSUME LockInv, NEW r \in Req, Wake(r)
    PROVE  QueuesListWaiters' /\ HolderIsKnown' /\ MappingOnlyWhileActive'
<1> DEFINE o == obj[r]
<1>1. o \in Req /\ key[r] \in Key /\ kind[r] \in {"chat", "stream"}
  BY DEF Wake, LockInv, IInv, TurnsOK, InConversation
<1>2. /\ pc[r] = "waiting" /\ queue[o] # <<>> /\ r = Head(queue[o])
      /\ queue' = [queue EXCEPT ![o] = Tail(@)]
      /\ Process(r, key[r], o, kind[r], store)
      /\ UNCHANGED <<kind, obj>>
  BY DEF Wake
<1>3. Worked(r, o, store) /\ Handed(r, key[r], o, kind[r], store)
  BY <1>1, <1>2, ProcessWorks, ProcessHands DEF LockInv, IInv, TurnsOK
<1>4. QueuesListWaiters'
  <2>1. pc'[r] # "waiting" /\ \A s \in Req \ {r} : pc'[s] = pc[s]
    BY <1>3 DEF Worked, Answered
  <2> QED
    BY <1>1, <1>2, <2>1, QueueShrinks
<1>5. HolderIsKnown' /\ MappingOnlyWhileActive'
  BY <1>1, <1>2, <1>3, HolderWorks
<1> QED
  BY <1>4, <1>5

\* Every step keeps the accounts of locks and mappings.
LEMMA StepKeepsLocks ==
    ASSUME LockInv, [Next]_vars
    PROVE  QueuesListWaiters' /\ HolderIsKnown' /\ MappingOnlyWhileActive'
<1>1. ASSUME NEW r \in Req, Wake(r) \/ Step(r)
      PROVE  QueuesListWaiters' /\ HolderIsKnown' /\ MappingOnlyWhileActive'
  BY <1>1, ArrivalKeepsLocks, WakeKeepsLocks, TurnKeepsLocks DEF Step
<1>2. CASE \/ (\E k \in Key : Clear(k)) \/ Tick \/ Sweep
           \/ UNCHANGED vars
  <2>1. UNCHANGED <<holder, queue, pc, kind, obj>>
    BY <1>2 DEF Clear, Tick, Sweep, vars
  <2>2. \A s \in Req : mapping'[s] # None => mapping[s] # None
    BY <1>2 DEF Clear, Tick, Sweep, SweptMappings, vars
  <2>3. QueuesListWaiters'
    BY <2>1, QueuesStay
  <2> QED
    BY <2>1, <2>2, <2>3 DEF LockInv, HolderIsKnown, MappingOnlyWhileActive, Lost
<1> QED
  BY <1>1, <1>2 DEF Next

----------------------------------------------------------------------------
(* The store. *)

\* A step removes conversations, or puts one where the swept store has room.
StoreStep ==
    \/ \A k \in Key : store'[k] \in {store[k], None}
    \/ /\ HasRoom
       /\ \E k \in Key : \A j \in Key \ {k} : store'[j] \in {Swept[j], None}

\* Every step keeps, creates or removes entries of the store one at a time.
LEMMA StoreSteps ==
    ASSUME IInv, [Next]_vars
    PROVE  StoreStep
<1>1. /\ Swept \in [Key -> Req \cup {None}]
      /\ \A j \in Key : Swept[j] \in {store[j], None}
  BY SweptType DEF IInv
<1>2. ASSUME NEW r \in Req, Arrive(r)
      PROVE  StoreStep
  <2>1. ASSUME NEW kd \in {"chat", "stream"}, ArriveAlone(r, kd)
        PROVE  StoreStep
    <3>1. Worked(r, None, store)
      BY <2>1, ProcessWorks DEF ArriveAlone, IInv, TurnsOK
    <3> QED
      BY <3>1 DEF Worked, StoreStep
  <2>2. ASSUME NEW kd \in {"chat", "stream"}, NEW k \in Key, ArriveAtCapacity(r, k, kd)
        PROVE  StoreStep
    BY <1>1, <2>2 DEF ArriveAtCapacity, Turned, StoreStep
  <2>3. ASSUME NEW kd \in {"chat", "stream"}, NEW k \in Key, NEW m \in Mode,
               ArriveFirst(r, k, kd, m)
        PROVE  StoreStep
    <3> DEFINE st == [Swept EXCEPT ![k] = r]
    <3>1. HasRoom /\ Process(r, k, r, kd, st)
      BY <2>3 DEF ArriveFirst
    <3>2. st \in [Key -> Req \cup {None}] /\ \A j \in Key \ {k} : st[j] = Swept[j]
      BY <1>1
    <3> HIDE DEF st
    <3>3. Worked(r, r, st)
      BY <3>1, <3>2, ProcessWorks DEF IInv
    <3> QED
      BY <3>1, <3>2, <3>3 DEF Worked, StoreStep
  <2>4. ASSUME NEW kd \in {"chat", "stream"}, NEW k \in Key, NEW m \in Mode,
               ArriveLater(r, k, kd, m)
        PROVE  StoreStep
    <3>1. Swept[k] \in Req
      BY <1>1, <2>4 DEF ArriveLater
    <3>2. store' = Swept \/ Process(r, k, Swept[k], kd, Swept)
      BY <2>4 DEF ArriveLater, Turned
    <3>3. \A j \in Key : store'[j] \in {Swept[j], None}
      BY <1>1, <3>1, <3>2, ProcessWorks DEF Worked, IInv
    <3> QED
      BY <1>1, <3>3 DEF StoreStep
  <2> QED
    BY <1>2, <2>1, <2>2, <2>3, <2>4 DEF Arrive
<1>3. ASSUME NEW r \in Req, Wake(r)
      PROVE  StoreStep
  <2>1. obj[r] \in Req /\ key[r] \in Key /\ kind[r] \in {"chat", "stream"}
    BY <1>3 DEF Wake, IInv, TurnsOK, InConversation
  <2>2. Worked(r, obj[r], store)
    BY <1>3, <2>1, ProcessWorks, ZenonT(60) DEF Wake, IInv, TurnsOK
  <2> QED
    BY <2>2 DEF Worked, StoreStep
<1>4. CASE \/ (\E k \in Key : Clear(k)) \/ Tick \/ Sweep
           \/ UNCHANGED vars
  BY <1>1, <1>4 DEF Clear, Tick, Sweep, vars, StoreStep, IInv, TurnsOK
<1>5. ASSUME NEW r \in Req,
             \/ ReplyOk(r) \/ ReplyBad(r) \/ StreamStart(r) \/ Vanish(r)
             \/ StreamBreaks(r) \/ StreamCommit(r) \/ StreamClose(r)
      PROVE  StoreStep
  <2>1. store' = store
    BY <1>5 DEF ReplyOk, ReplyBad, StreamStart, Vanish, StreamBreaks, StreamCommit,
                StreamClose, Finish
  <2> QED
    BY <2>1 DEF StoreStep
<1> QED
  BY <1>2, <1>3, <1>4, <1>5 DEF Next, Step

\* The store never grows beyond its capacity.
LEMMA CapacityInductive ==
    ASSUME IInv, CapacityKept, [Next]_vars
    PROVE  CapacityKept'
<1>1. Live(Swept) \in SUBSET Live(store)
  BY SweptType DEF IInv, Live
<1>2. /\ IsFiniteSet(Live(Swept))
      /\ Cardinality(Live(Swept)) \in Nat
      /\ MaxConversations \in Nat
  BY <1>1, FS_Subset, FS_CardinalityType, ChatTurnsAssumption DEF CapacityKept
<1>3. CASE \A k \in Key : store'[k] \in {store[k], None}
  <2>1. Live(store') \in SUBSET Live(store)
    BY <1>3 DEF Live
  <2>2. /\ IsFiniteSet(Live(store'))
        /\ Cardinality(Live(store')) <= Cardinality(Live(store))
    BY <2>1, FS_Subset DEF CapacityKept
  <2>3. Cardinality(Live(store')) \in Nat /\ Cardinality(Live(store)) \in Nat
    BY <2>2, FS_CardinalityType DEF CapacityKept
  <2> QED
    BY <1>2, <2>2, <2>3 DEF CapacityKept, Live
<1>4. ASSUME HasRoom, NEW k \in Key,
             \A j \in Key \ {k} : store'[j] \in {Swept[j], None}
      PROVE  CapacityKept'
  <2>1. Live(store') \in SUBSET (Live(Swept) \cup {k})
    BY <1>4 DEF Live
  <2>2. /\ IsFiniteSet(Live(Swept) \cup {k})
        /\ Cardinality(Live(Swept) \cup {k}) <= MaxConversations
    <3> DEFINE L == Live(Swept)
    <3>1. /\ IsFiniteSet(L \cup {k})
          /\ Cardinality(L \cup {k}) = IF k \in L THEN Cardinality(L) ELSE Cardinality(L) + 1
      BY <1>2, FS_AddElement
    <3>2. Cardinality(L) < MaxConversations /\ Cardinality(L) \in Nat
      BY <1>2, <1>4 DEF HasRoom
    <3> HIDE DEF L
    <3>3. Cardinality(L \cup {k}) <= MaxConversations
      BY <1>2, <3>1, <3>2
    <3> QED
      BY <3>1, <3>3 DEF L
  <2>3. /\ IsFiniteSet(Live(store'))
        /\ Cardinality(Live(store')) <= Cardinality(Live(Swept) \cup {k})
    BY <2>1, <2>2, FS_Subset
  <2>4. Cardinality(Live(store')) \in Nat /\ Cardinality(Live(Swept) \cup {k}) \in Nat
    BY <2>2, <2>3, FS_CardinalityType
  <2> QED
    BY <1>2, <2>2, <2>3, <2>4 DEF CapacityKept, Live
<1> QED
  BY <1>3, <1>4, StoreSteps DEF StoreStep

----------------------------------------------------------------------------
\* Queues list who waits, holders know their object, and mappings belong to turns
\* under way, under every interleaving of requests, clears, sweeps and the clock.
THEOREM LocksInductive == Spec => [](LockInv /\ CapacityKept /\ StoredUnderItsKey)
<1>1. Init => LockInv /\ CapacityKept /\ StoredUnderItsKey
  BY InitLocks DEF Init, StoredUnderItsKey
<1>2. /\ IInv /\ IInv' /\ LockInv /\ CapacityKept /\ StoredUnderItsKey
      /\ [Next]_vars
      => (LockInv /\ CapacityKept /\ StoredUnderItsKey)'
  BY StepKeepsLocks, CapacityInductive, StoredInductive DEF LockInv
<1> QED
  BY <1>1, <1>2, Inductive, PTL DEF Spec

\* Every exit the code foresees gives its lock and its mapping back, mappings are
\* those of turns under way, and the store keeps to its capacity and its keys
\* (run turns_safety checks it on an instance).
THEOREM TidyExits == Spec => []NothingIsLeftBehind
<1>1. LockInv => ForeseenExitsHoldNothing
  <2> SUFFICES ASSUME LockInv, NEW r \in Req, pc[r] \in Answered
               PROVE  /\ \A o \in Req : holder[o] = r => Lost(r)
                      /\ mapping[r] = None
    BY DEF ForeseenExitsHoldNothing
  <2>1. pc[r] \notin Active \cup {"vanished"} /\ r # None
    BY Constants DEF Answered, Active
  <2> QED
    BY <2>1 DEF LockInv, HolderIsKnown, MappingOnlyWhileActive
<1>2. CapacityKept /\ StoredUnderItsKey => StoreBounded
  BY DEF CapacityKept, StoredUnderItsKey, StoreBounded, Live
<1>3. LockInv /\ CapacityKept /\ StoredUnderItsKey => NothingIsLeftBehind
  BY <1>1, <1>2 DEF LockInv, NothingIsLeftBehind
<1> QED
  BY <1>3, LocksInductive, PTL

\* Whoever waits is queued behind somebody who works, or is about to be woken, or
\* behind a request that lost its lock: no wake-up is lost.
THEOREM NoLostWakeUp == Spec => []NobodyWaitsInVain
<1>1. LockInv => NobodyWaitsInVain
  <2> SUFFICES ASSUME LockInv, NEW r \in Req, pc[r] = "waiting"
               PROVE  /\ r \in Elements(queue[obj[r]])
                      /\ \/ holder[obj[r]] = None
                         \/ pc[holder[obj[r]]] \in Active
                         \/ Lost(holder[obj[r]])
    BY DEF NobodyWaitsInVain
  <2>1. obj[r] \in Req
    BY DEF LockInv, IInv, TurnsOK, InConversation
  <2> QED
    BY <2>1 DEF LockInv, QueuesListWaiters, HolderIsKnown
<1> QED
  BY <1>1, LocksInductive, PTL

\* Which requests a step may blame for a conversation with history that goes
\* before it expires: nobody, or a blocked turn on an older object of its key.
Blamed(k) ==
    \/ access[store[k]] + TTL <= now
    \/ pc' = pc
    \/ \E r \in Req : /\ pc[r] = "waiting"
                      /\ pc'[r] = "blocked"
                      /\ key[r] = k
                      /\ obj[r] # store[k]

\* A turn on the live object itself never deletes what was committed to it: the
\* refusal deletes by key only what is empty.
THEOREM HistoryIsKept == Spec => OwnTurnsKeepHistory
<1>1. ASSUME IInv, [Next]_vars, NEW k \in Key,
             store[k] # None, ~ Empty(store[k]), store'[k] # store[k]
      PROVE  Blamed(k)
  <2>1. /\ Swept \in [Key -> Req \cup {None}]
        /\ \A j \in Key : Swept[j] \in {store[j], None}
    BY <1>1, SweptType DEF IInv
  <2>2. Swept[k] # store[k] => Blamed(k)
    BY DEF Swept, Blamed
  <2>3. ASSUME NEW r \in Req, Arrive(r)
        PROVE  Blamed(k)
    <3>1. ASSUME NEW kd \in {"chat", "stream"}, ArriveAlone(r, kd)
          PROVE  FALSE
      <4>1. Handed(r, None, None, kd, store)
        BY <1>1, <3>1, ProcessHands DEF ArriveAlone, IInv, TurnsOK
      <4> QED
        BY <1>1, <4>1 DEF Handed
    <3>2. ASSUME NEW kd \in {"chat", "stream"}, NEW j \in Key, NEW m \in Mode,
                 ArriveFirst(r, j, kd, m)
          PROVE  Blamed(k)
      <4> DEFINE st == [Swept EXCEPT ![j] = r]
      <4>1. Swept[j] = None /\ Process(r, j, r, kd, st)
        BY <3>2 DEF ArriveFirst
      <4>2. st \in [Key -> Req \cup {None}] /\ \A i \in Key \ {j} : st[i] = Swept[i]
        BY <2>1
      <4> HIDE DEF st
      <4>3. Handed(r, j, r, kd, st)
        BY <1>1, <4>1, <4>2, ProcessHands DEF IInv
      <4> QED
        BY <1>1, <2>2, <4>1, <4>2, <4>3 DEF Handed
    <3>3. ASSUME NEW kd \in {"chat", "stream"}, NEW j \in Key, NEW m \in Mode,
                 ArriveLater(r, j, kd, m)
          PROVE  Blamed(k)
      <4>1. Swept[j] \in Req
        BY <2>1, <3>3 DEF ArriveLater
      <4>2. store' = Swept \/ Process(r, j, Swept[j], kd, Swept)
        BY <3>3 DEF ArriveLater, Turned
      <4>3. store' = Swept \/ Handed(r, j, Swept[j], kd, Swept)
        BY <1>1, <2>1, <4>1, <4>2, ProcessHands DEF IInv
      <4> QED
        BY <1>1, <2>1, <2>2, <4>3 DEF Handed
    <3>4. ASSUME NEW kd \in {"chat", "stream"}, NEW j \in Key, ArriveAtCapacity(r, j, kd)
          PROVE  Blamed(k)
      BY <1>1, <2>2, <3>4 DEF ArriveAtCapacity, Turned
    <3> QED
      BY <2>3, <3>1, <3>2, <3>3, <3>4 DEF Arrive
  <2>4. ASSUME NEW r \in Req, Wake(r)
        PROVE  Blamed(k)
    <3>1. /\ obj[r] \in Req /\ key[r] \in Key /\ kind[r] \in {"chat", "stream"}
          /\ pc[r] = "waiting"
      BY <1>1, <2>4 DEF Wake, IInv, TurnsOK, InConversation
    <3>2. Handed(r, key[r], obj[r], kind[r], store)
      BY ZenonT(60), <1>1, <2>4, <3>1, ProcessHands DEF Wake, IInv, TurnsOK
    <3> QED
      BY <1>1, <3>1, <3>2 DEF Handed, Blamed
  <2>5. ASSUME NEW r \in Req,
               \/ ReplyOk(r) \/ ReplyBad(r) \/ StreamStart(r) \/ Vanish(r)
               \/ StreamBreaks(r) \/ StreamCommit(r) \/ StreamClose(r)
        PROVE  FALSE
    BY <1>1, <2>5 DEF ReplyOk, ReplyBad, StreamStart, Vanish, StreamBreaks,
                      StreamCommit, StreamClose, Finish
  <2>6. CASE \/ (\E j \in Key : Clear(j)) \/ Tick \/ Sweep
             \/ UNCHANGED vars
    BY <2>6 DEF Clear, Tick, Sweep, vars, Blamed
  <2> QED
    BY <1>1, <2>3, <2>4, <2>5, <2>6 DEF Next, Step
<1>2. IInv /\ [Next]_vars =>
          [\A k \in Key :
              /\ store[k] # None
              /\ ~ Empty(store[k])
              /\ store'[k] # store[k]
              => \/ access[store[k]] + TTL <= now
                 \/ pc' = pc
                 \/ \E r \in Req : /\ pc[r] = "waiting"
                                   /\ pc'[r] = "blocked"
                                   /\ key[r] = k
                                   /\ obj[r] # store[k]]_vars
  BY <1>1 DEF Blamed
<1> QED
  BY <1>2, Inductive, PTL DEF Spec, OwnTurnsKeepHistory
==============================================================================
