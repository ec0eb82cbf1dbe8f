------------------------ MODULE RoleTransactionProofs ------------------------
(***************************************************************************)
(* Proofs about RoleTransaction for every set of requests, clients and     *)
(* roles: its type invariant, the safety properties MCRoleTransaction      *)
(* checks, and that it implements AtomicRequests.                          *)
(***************************************************************************)
EXTENDS RoleTransaction, SequenceTheorems, TLAPS

-----------------------------------------------------------------------------
(* The inductive invariant.                                                *)

\* The waiters of the pool are at "connect", each once.
QueueInv ==
    /\ \A i \in 1..Len(queue) : pc[queue[i]] = "connect"
    /\ \A i, j \in 1..Len(queue) : queue[i] = queue[j] => i = j

\* A session with no transaction and nothing left of one.
Clean(c) ==
    /\ txState[c] = "none"
    /\ localRole[c] = None
    /\ localClaims[c] = None
    /\ staged[c] = {}

\* What each position of the envelope knows of the session it drives.
SessionInv(r) ==
    LET c == conn[r] IN
    /\ pc[r] = "begin" => Clean(c)
    /\ pc[r] \in {"setRole", "setClaims", "work"} =>
         /\ txState[c] = "open"
         /\ readOnly[c] = (KindOf[r] = "get")
         /\ staged[c] = {}
    /\ pc[r] \in {"setClaims", "work"} => localRole[c] = RoleOf[r]
    /\ pc[r] = "work" => localClaims[c] = r
    /\ pc[r] = "commit" =>
         /\ txState[c] # "none"
         /\ staged[c] = IF r \in wrote THEN {r} ELSE {}
         /\ result[r] \in Completed => txState[c] = "open"
         /\ result[r] = "error" => r \notin wrote
    /\ pc[r] = "release" => Destroyed(r) \/ Clean(c)

\* What it knows of the request's own effects and answer.
EffectInv(r) ==
    /\ pc[r] \in Unserved \cup {"begin", "setRole", "setClaims", "work"} =>
         result[r] = "none" /\ r \notin wrote
    /\ pc[r] \in Unserved \cup {"begin", "setRole", "setClaims", "work", "commit"} =>
         r \notin committed /\ r \notin doubt
    /\ pc[r] = "commit" => result[r] # "none"
    /\ pc[r] = "rollback" => result[r] = "error"
    /\ pc[r] \in {"rollback", "release", "done"} =>
         /\ result[r] # "none"
         /\ result[r] \in Completed => r \notin doubt /\ (r \in wrote => r \in committed)
         /\ result[r] = "error" /\ r \in committed => r \in doubt

IInv ==
    /\ TypeOK
    /\ ClientsAccountedFor
    /\ QueueInv
    /\ \A c \in Clients : slot[c] # "busy" => Clean(c)
    /\ \A r \in Reqs : SessionInv(r) /\ EffectInv(r)
    /\ \A r \in wrote : KindOf[r] # "get"
    /\ committed \subseteq wrote

\* A request nothing happened to keeps its invariant.
Untouched(q) ==
    LET c == conn[q] IN
    /\ pc'[q] = pc[q] /\ conn'[q] = conn[q]
    /\ result'[q] = result[q] /\ unclean'[q] = unclean[q]
    /\ q \in wrote' <=> q \in wrote
    /\ pc[q] \in Holding =>
         /\ txState'[c] = txState[c]
         /\ readOnly'[c] = readOnly[c]
         /\ localRole'[c] = localRole[c]
         /\ localClaims'[c] = localClaims[c]
         /\ staged'[c] = staged[c]

LEMMA UntouchedLemma ==
    ASSUME NEW q \in Reqs, SessionInv(q), Untouched(q)
    PROVE  SessionInv(q)'
<1>1. CASE pc[q] \in Holding
  BY <1>1 DEF Untouched, SessionInv, Clean, Destroyed
<1>2. CASE pc[q] \notin Holding
  BY <1>2 DEF Untouched, SessionInv, Holding
<1>. QED  BY <1>1, <1>2

-----------------------------------------------------------------------------
(* Steps that move a single request which holds a client: Begin to         *)
(* Rollback.  All of them leave the pool alone and write only the session  *)
(* of that client, so the rest of the invariant is a frame condition.      *)

\* The frame: only request r and its client's session may change, r goes on
\* holding that client, and r alone may become durable, written or in doubt.
Frame(r) ==
    LET c == conn[r] IN
    /\ r \in Reqs /\ pc[r] \in Holding
    /\ \E p \in Holding : pc' = [pc EXCEPT ![r] = p]
    /\ UNCHANGED <<conn, queue, slot>>
    /\ \A q \in Reqs \ {r} : result'[q] = result[q] /\ unclean'[q] = unclean[q]
    /\ \A d \in Clients \ {c} :
         /\ txState'[d] = txState[d]
         /\ readOnly'[d] = readOnly[d]
         /\ localRole'[d] = localRole[d]
         /\ localClaims'[d] = localClaims[d]
         /\ staged'[d] = staged[d]
    /\ \A q \in Reqs \ {r} :
         /\ q \in committed' <=> q \in committed
         /\ q \in wrote' <=> q \in wrote
         /\ q \in doubt' <=> q \in doubt

\* A framed step preserves what IInv says of everyone but r.
LEMMA FrameLemma ==
    ASSUME IInv, NEW r \in Reqs, Frame(r), TypeOK'
    PROVE  /\ ClientsAccountedFor'
           /\ QueueInv'
           /\ \A c \in Clients : slot'[c] # "busy" => Clean(c)'
           /\ \A q \in Reqs \ {r} : SessionInv(q)' /\ EffectInv(q)'
<1>1. ClientsAccountedFor'
  BY ConstantsAssumption DEF IInv, TypeOK, Frame, ClientsAccountedFor, Holding
<1>2. QueueInv'
  <2>1. queue' = queue
    BY DEF Frame
  <2>2. ASSUME NEW i \in 1..Len(queue) PROVE pc'[queue[i]] = "connect"
    <3>0. queue \in Seq(Reqs) /\ pc[queue[i]] = "connect"
      BY DEF IInv, TypeOK, QueueInv
    <3>1. queue[i] \in Reqs /\ pc[queue[i]] = "connect"
      BY <3>0
    <3>2. queue[i] # r
      BY <3>1 DEF Frame, Holding
    <3>. QED  BY <3>1, <3>2 DEF Frame, IInv, TypeOK
  <2>. QED  BY <2>1, <2>2 DEF IInv, QueueInv
<1>3. ASSUME NEW c \in Clients, slot'[c] # "busy" PROVE Clean(c)'
  BY <1>3 DEF IInv, Frame, ClientsAccountedFor, Clean
<1>4. ASSUME NEW q \in Reqs \ {r} PROVE SessionInv(q)' /\ EffectInv(q)'
  <2>1. pc'[q] = pc[q] /\ conn'[q] = conn[q]
    BY DEF IInv, TypeOK, Frame
  <2>2. EffectInv(q)'
    BY <2>1 DEF IInv, Frame, EffectInv
  <2>3. pc[q] \in Holding => conn[q] \in Clients \ {conn[r]}
    BY DEF IInv, TypeOK, Frame, ClientsAccountedFor
  <2>4. Untouched(q)
    BY <2>1, <2>3 DEF Frame, Untouched
  <2>5. SessionInv(q)
    BY DEF IInv
  <2>. QED  BY <2>2, <2>4, <2>5, UntouchedLemma
<1>. QED  BY <1>1, <1>2, <1>3, <1>4

\* The actions the frame covers.
Driven(r) ==
    Begin(r) \/ SetLocalRole(r) \/ SetConfig(r) \/ Work(r) \/ Commit(r) \/ Rollback(r)

\* The type of the session variables.
SessionTypeOK ==
    /\ txState \in [Clients -> TxStates]
    /\ readOnly \in [Clients -> BOOLEAN]
    /\ localRole \in [Clients -> AnyRole \cup {None}]
    /\ localClaims \in [Clients -> Reqs \cup {None}]
    /\ sessionRole \in [Clients -> AnyRole]
    /\ staged \in [Clients -> SUBSET Reqs]

\* What ends or breaks a transaction keeps the session well typed.
LEMMA SessionTyped ==
    ASSUME TypeOK, NEW c \in Clients, sessionRole' \in [Clients -> AnyRole]
    PROVE  /\ \A s \in TxStates : EndTx(c, s) => SessionTypeOK'
           /\ LoseConnection(c) => SessionTypeOK'
           /\ Refuse(c) => SessionTypeOK'
<1>1. ASSUME NEW s \in TxStates, EndTx(c, s) PROVE SessionTypeOK'
  BY <1>1 DEF TypeOK, EndTx, SessionTypeOK
<1>2. LoseConnection(c) => SessionTypeOK'
  BY <1>1 DEF LoseConnection, TxStates
<1>3. Refuse(c) => SessionTypeOK'
  BY DEF Refuse, TypeOK, SessionTypeOK, TxStates
<1>. QED  BY <1>1, <1>2, <1>3

\* So does what sets its role and its claims.
LEMMA SettingsTyped ==
    ASSUME TypeOK, NEW r \in Reqs, conn[r] \in Clients, SetLocalRole(r) \/ SetConfig(r)
    PROVE  SessionTypeOK'
<1>. DEFINE c == conn[r]
<1>1. sessionRole' = sessionRole /\ sessionRole \in [Clients -> AnyRole]
  BY DEF SetLocalRole, SetConfig, LoseConnection, Refuse, TypeOK
<1>2. CASE Refuse(c) \/ LoseConnection(c)
  BY <1>1, <1>2, SessionTyped
<1>3. CASE /\ localRole' = [localRole EXCEPT ![c] = RoleOf[r]]
           /\ UNCHANGED <<txState, readOnly, localClaims, sessionRole, staged>>
  <2>1. RoleOf[r] \in AnyRole
    BY ConstantsAssumption DEF AnyRole
  <2>2. localRole' \in [Clients -> AnyRole \cup {None}]
    BY <1>3, <2>1 DEF TypeOK
  <2>. QED  BY <1>3, <2>2 DEF TypeOK, SessionTypeOK
<1>4. CASE /\ localClaims' = [localClaims EXCEPT ![c] = r]
           /\ UNCHANGED <<txState, readOnly, localRole, sessionRole, staged>>
  <2>1. localClaims' \in [Clients -> Reqs \cup {None}]
    BY <1>4 DEF TypeOK
  <2>. QED  BY <1>4, <2>1 DEF TypeOK, SessionTypeOK
<1>. QED  BY <1>2, <1>3, <1>4 DEF SetLocalRole, SetConfig

LEMMA DrivenTypeOK ==
    ASSUME TypeOK, NEW r \in Reqs, conn[r] \in Clients, Driven(r)
    PROVE  TypeOK'
<1>. DEFINE c == conn[r]
<1>. SUFFICES /\ pc' \in [Reqs -> PC] /\ result' \in [Reqs -> Results]
              /\ unclean' \in [Reqs -> BOOLEAN]
              /\ UNCHANGED <<conn, queue, slot>>
              /\ SessionTypeOK'
              /\ committed' \subseteq Reqs /\ wrote' \subseteq Reqs /\ doubt' \subseteq Reqs
  BY DEF TypeOK, SessionTypeOK
<1>0. /\ "open" \in TxStates /\ "aborted" \in TxStates
      /\ "lost" \in TxStates /\ "none" \in TxStates
      /\ RoleOf[r] \in AnyRole /\ staged[c] \subseteq Reqs
  BY ConstantsAssumption DEF TxStates, AnyRole, TypeOK
<1>. USE <1>0 DEF TypeOK, PC, Holding, Results, Goto, Answer, Throw,
                 poolVars, sessionVars, history
<1>1. CASE Begin(r)
  <2>1. CASE LoseConnection(c)
    <3>1. SessionTypeOK'
      BY <2>1, SessionTyped DEF LoseConnection
    <3>. QED  BY <1>1, <3>1 DEF Begin, AfterBegin
  <2>2. CASE ~LoseConnection(c)
    <3>1. OpensReadOnly(r) \in BOOLEAN
      BY DEF OpensReadOnly
    <3>2. /\ txState' = [txState EXCEPT ![c] = "open"]
          /\ readOnly' = [readOnly EXCEPT ![c] = OpensReadOnly(r)]
          /\ UNCHANGED <<localRole, localClaims, sessionRole, staged>>
      BY <1>1, <2>2 DEF Begin
    <3>3. readOnly' \in [Clients -> BOOLEAN]
      BY <3>1, <3>2, Zenon
    <3>4. SessionTypeOK'
      BY <3>2, <3>3 DEF SessionTypeOK
    <3>. QED  BY <1>1, <3>4 DEF Begin, AfterBegin
  <2>. QED  BY <2>1, <2>2
<1>2. CASE SetLocalRole(r)
  <2>1. SessionTypeOK'
    BY <1>2, SettingsTyped
  <2>. QED  BY <1>2, <2>1 DEF SetLocalRole
<1>3. CASE SetConfig(r)
  <2>1. SessionTypeOK'
    BY <1>3, SettingsTyped
  <2>. QED  BY <1>3, <2>1 DEF SetConfig
<1>4. CASE StatementWrites(r)
  BY <1>4 DEF StatementWrites, AnswerChange, SessionTypeOK
<1>5. CASE WorkReads(r)
  BY <1>5 DEF WorkReads, SessionTypeOK
<1>6. CASE StatementFails(r)
  <2>1. SessionTypeOK'
    BY <1>6, SessionTyped DEF StatementFails, LoseConnection, Refuse
  <2>. QED  BY <1>6, <2>1 DEF StatementFails
<1>7. CASE Commit(r)
  <2>1. CASE CommitOpen(r)
    <3>1. sessionRole' \in [Clients -> AnyRole]
      BY <2>1 DEF CommitOpen
    <3>2. SessionTypeOK'
      BY <2>1, <3>1, SessionTyped DEF CommitOpen
    <3>. QED  BY <1>7, <2>1, <3>2 DEF Commit, CommitOpen
  <2>2. CASE CommitAborted(r)
    <3>1. SessionTypeOK'
      BY <2>2, SessionTyped DEF CommitAborted
    <3>. QED  BY <1>7, <2>2, <3>1 DEF Commit, CommitAborted
  <2>3. CASE CommitRefused(r)
    <3>1. SessionTypeOK'
      BY <2>3, SessionTyped DEF CommitRefused, SessionTypeOK
    <3>. QED  BY <1>7, <2>3, <3>1 DEF Commit, CommitRefused
  <2>4. CASE CommitInDoubt(r)
    <3>1. SessionTypeOK'
      BY <2>4, SessionTyped DEF CommitInDoubt, LoseConnection
    <3>. QED  BY <1>7, <2>4, <3>1 DEF Commit, CommitInDoubt
  <2>. QED  BY <1>7, <2>1, <2>2, <2>3, <2>4 DEF Commit
<1>8. CASE Rollback(r)
  <2>1. SessionTypeOK'
    BY <1>8, SessionTyped DEF Rollback, SessionTypeOK, LoseConnection
  <2>. QED  BY <1>8, <2>1 DEF Rollback
<1>. QED
  BY <1>1, <1>2, <1>3, <1>4, <1>5, <1>6, <1>7, <1>8 DEF Driven, Work

\* A driven step moves only r and the session of its client.
LEMMA DrivenFrame ==
    ASSUME IInv, NEW r \in Reqs, conn[r] \in Clients, Driven(r)
    PROVE  Frame(r)
<1>. USE DEF IInv, TypeOK, Holding, Frame, Goto, Answer, Throw, LoseConnection, Refuse, EndTx,
             poolVars, sessionVars, history
<1>1. CASE Begin(r)
  BY <1>1 DEF Begin, AfterBegin
<1>2. CASE SetLocalRole(r)
  BY <1>2 DEF SetLocalRole
<1>3. CASE SetConfig(r)
  BY <1>3 DEF SetConfig
<1>4. CASE StatementWrites(r)
  BY <1>4 DEF StatementWrites, AnswerChange
<1>5. CASE WorkReads(r)
  BY <1>5 DEF WorkReads
<1>6. CASE StatementFails(r)
  BY <1>6 DEF StatementFails
<1>7. CASE Commit(r)
  <2>1. pc[r] = "commit" /\ SessionInv(r) /\ EffectInv(r)
    BY <1>7 DEF Commit
  <2>2. staged[conn[r]] \subseteq {r}
    BY <2>1 DEF SessionInv
  <2>3. CASE CommitOpen(r)
    BY <1>7, <2>2, <2>3 DEF Commit, CommitOpen
  <2>4. CASE CommitAborted(r)
    BY <1>7, <2>4 DEF Commit, CommitAborted
  <2>5. CASE CommitRefused(r)
    BY <1>7, <2>5 DEF Commit, CommitRefused
  <2>6. CASE CommitInDoubt(r)
    BY <1>7, <2>2, <2>6 DEF Commit, CommitInDoubt
  <2>. QED  BY <1>7, <2>3, <2>4, <2>5, <2>6 DEF Commit
<1>8. CASE Rollback(r)
  BY <1>8 DEF Rollback
<1>. QED
  BY <1>1, <1>2, <1>3, <1>4, <1>5, <1>6, <1>7, <1>8 DEF Driven, Work

\* It preserves what the invariant says of r itself.
LEMMA DrivenOwn ==
    ASSUME IInv, NEW r \in Reqs, conn[r] \in Clients, Driven(r)
    PROVE  /\ SessionInv(r)' /\ EffectInv(r)'
           /\ \A q \in wrote' : KindOf[q] # "get"
           /\ committed' \subseteq wrote'
<1>. DEFINE c == conn[r]
<1>0. /\ SessionInv(r) /\ EffectInv(r)
      /\ pc \in [Reqs -> PC] /\ result \in [Reqs -> Results]
      /\ unclean \in [Reqs -> BOOLEAN]
      /\ SessionTypeOK
      /\ \A q \in wrote : KindOf[q] # "get"
      /\ committed \subseteq wrote
  BY DEF IInv, TypeOK, SessionTypeOK
<1>. USE <1>0 DEF SessionTypeOK, SessionInv, EffectInv, Completed, Clean, Unserved, Goto, Answer,
         Throw, EndTx, poolVars, sessionVars, history
<1>1. CASE Begin(r)
  BY <1>1 DEF Begin, AfterBegin, OpensReadOnly, LoseConnection
<1>2. CASE SetLocalRole(r)
  BY <1>2 DEF SetLocalRole, LoseConnection, Refuse
<1>3. CASE SetConfig(r)
  BY <1>3 DEF SetConfig, LoseConnection
<1>4. CASE StatementWrites(r)
  BY <1>4 DEF StatementWrites, AnswerChange
<1>5. CASE WorkReads(r)
  BY <1>5 DEF WorkReads
<1>6. CASE StatementFails(r)
  BY <1>6 DEF StatementFails, LoseConnection, Refuse
<1>7. CASE Commit(r)
  <2>3. CASE CommitOpen(r)
    BY <1>7, <2>3 DEF Commit, CommitOpen, Destroyed, Results
  <2>4. CASE CommitAborted(r)
    BY <1>7, <2>4 DEF Commit, CommitAborted, Destroyed, Results
  <2>5. CASE CommitRefused(r)
    BY <1>7, <2>5 DEF Commit, CommitRefused
  <2>6. CASE CommitInDoubt(r)
    BY <1>7, <2>6 DEF Commit, CommitInDoubt, LoseConnection
  <2>. QED  BY <1>7, <2>3, <2>4, <2>5, <2>6 DEF Commit
<1>8. CASE Rollback(r)
  BY <1>8 DEF Rollback, Destroyed, LoseConnection
<1>. QED
  BY <1>1, <1>2, <1>3, <1>4, <1>5, <1>6, <1>7, <1>8 DEF Driven, Work

LEMMA DrivenHolds ==
    ASSUME IInv, NEW r \in Reqs, Driven(r)
    PROVE  conn[r] \in Clients
  BY DEF Driven, Begin, SetLocalRole, SetConfig, Work, StatementWrites, WorkReads,
         StatementFails, Commit, Rollback, Holding, IInv, TypeOK, ClientsAccountedFor

LEMMA DrivenInv ==
    ASSUME IInv, NEW r \in Reqs, Driven(r)
    PROVE  IInv'
<1>1. conn[r] \in Clients
  BY DrivenHolds
<1>2. TypeOK'
  BY <1>1, DrivenTypeOK DEF IInv
<1>3. Frame(r)
  BY <1>1, DrivenFrame
<1>. QED
  BY <1>1, <1>2, <1>3, FrameLemma, DrivenOwn DEF IInv

-----------------------------------------------------------------------------
(* The other steps: before a client is held, its release, the environment. *)

LEMMA InitIInv == Init => IInv
<1>. SUFFICES ASSUME Init PROVE IInv
  OBVIOUS
<1>1. TypeOK
  BY ConstantsAssumption
  DEF Init, TypeOK, PC, Unserved, Holding, Finished, Results, TxStates, AnyRole
<1>2. ClientsAccountedFor
  BY ConstantsAssumption DEF Init, ClientsAccountedFor, Holding
<1>3. QueueInv
  BY DEF Init, QueueInv
<1>4. \A r \in Reqs : SessionInv(r) /\ EffectInv(r)
  BY DEF Init, SessionInv, EffectInv
<1>. QED  BY <1>1, <1>2, <1>3, <1>4 DEF IInv, Init, Clean

\* A request that holds no client moves (to the queue or to its answer) and
\* nothing else does.
LEMMA UnservedInv ==
    ASSUME IInv, NEW r \in Reqs, Authenticate(r) \/ ReadBody(r) \/ ConnectFails(r)
    PROVE  IInv'
<1>. USE DEF Goto, Answer, poolVars, sessionVars, history
<1>1. /\ TypeOK /\ ClientsAccountedFor /\ QueueInv
      /\ \A c \in Clients : slot[c] # "busy" => Clean(c)
      /\ \A q \in Reqs : SessionInv(q) /\ EffectInv(q)
      /\ \A q \in wrote : KindOf[q] # "get"
      /\ committed \subseteq wrote
  BY DEF IInv
<1>2. pc[r] \in Unserved
  BY <1>1 DEF Authenticate, ReadBody, ConnectFails, Unserved, QueueInv, TypeOK
<1>3. /\ UNCHANGED <<conn, slot, unclean, sessionVars, committed, history>>
      /\ pc' \in [Reqs -> PC] /\ result' \in [Reqs -> Results]
      /\ \A q \in Reqs \ {r} : pc'[q] = pc[q] /\ result'[q] = result[q]
      /\ \/ pc'[r] \in {"readBody", "connect"} /\ result'[r] = result[r]
         \/ pc'[r] = "done" /\ result'[r] = "error"
  <2>1. /\ {"readBody", "connect", "done"} \subseteq PC /\ "error" \in Results
        /\ pc \in [Reqs -> PC] /\ result \in [Reqs -> Results]
    BY <1>1 DEF TypeOK, PC, Unserved, Finished, Results
  <2>2. /\ UNCHANGED <<conn, slot, unclean, sessionVars, committed, history>>
        /\ \/ /\ \E p \in {"readBody", "connect"} : pc' = [pc EXCEPT ![r] = p]
              /\ result' = result
           \/ /\ pc' = [pc EXCEPT ![r] = "done"]
              /\ result' = [result EXCEPT ![r] = "error"]
    BY <1>1 DEF Authenticate, ReadBody, ConnectFails, Goto, Answer
  <2>. QED  BY <2>1, <2>2
<1>4. TypeOK'
  <2>1. queue' \in Seq(Reqs)
    <3>. queue \in Seq(Reqs)
      BY <1>1 DEF TypeOK
    <3>1. CASE ReadBody(r)
      BY <3>1, AppendProperties DEF ReadBody
    <3>2. CASE ConnectFails(r)
      BY <3>2, HeadTailProperties DEF ConnectFails
    <3>. QED  BY <3>1, <3>2 DEF Authenticate
  <2>. QED  BY <1>1, <1>3, <2>1 DEF TypeOK
<1>5. ClientsAccountedFor'
  BY <1>1, <1>2, <1>3 DEF ClientsAccountedFor, Holding, Unserved
<1>6. QueueInv'
  <2>. queue \in Seq(Reqs)
    BY <1>1 DEF TypeOK
  <2>1. CASE Authenticate(r)
    BY <1>1, <1>3, <2>1 DEF Authenticate, QueueInv
  <2>2. CASE ReadBody(r)
    <3>1. CASE queue' = queue
      BY <1>1, <1>3, <2>2, <3>1 DEF ReadBody, QueueInv
    <3>2. CASE queue' = Append(queue, r) /\ pc'[r] = "connect"
      <4>1. /\ Len(queue') = Len(queue) + 1 /\ Len(queue) \in Nat
            /\ queue'[Len(queue) + 1] = r
            /\ \A i \in 1..Len(queue) : queue'[i] = queue[i]
        BY <3>2, AppendProperties
      <4>2. \A i \in 1..Len(queue) : pc[queue[i]] = "connect" /\ queue[i] # r
        BY <1>1, <2>2 DEF QueueInv, ReadBody
      <4>3. \A i \in 1..Len(queue) : pc'[queue[i]] = "connect"
        BY <1>1, <1>3, <4>2, ElementOfSeq
      <4>. QED  BY <1>1, <3>2, <4>1, <4>2, <4>3 DEF QueueInv
    <3>. QED  BY <1>1, <2>2, <3>1, <3>2 DEF ReadBody, TypeOK
  <2>3. CASE ConnectFails(r)
    BY <1>1, <1>3, <2>3 DEF ConnectFails, QueueInv
  <2>. QED  BY <2>1, <2>2, <2>3
<1>7. \A c \in Clients : slot'[c] # "busy" => Clean(c)'
  BY <1>1, <1>3 DEF Clean
<1>8. ASSUME NEW q \in Reqs PROVE SessionInv(q)' /\ EffectInv(q)'
  <2>1. CASE q = r
    BY <1>1, <1>2, <1>3, <2>1 DEF SessionInv, EffectInv, Unserved
  <2>2. CASE q # r
    <3>1. /\ pc'[q] = pc[q] /\ result'[q] = result[q]
          /\ UNCHANGED <<conn, unclean, txState, readOnly, localRole, localClaims, staged,
                         committed, wrote, doubt>>
      BY <1>3, <2>2
    <3>2. SessionInv(q)'
      BY <1>1, <3>1, UntouchedLemma DEF Untouched
    <3>3. EffectInv(q)'
      BY <1>1, <3>1 DEF EffectInv
    <3>. QED  BY <3>2, <3>3
  <2>. QED  BY <2>1, <2>2
<1>. QED  BY <1>1, <1>3, <1>4, <1>5, <1>6, <1>7, <1>8 DEF IInv

\* The oldest waiter takes a client, which is clean whether idle or new.
LEMMA ConnectInv ==
    ASSUME IInv, NEW r \in Reqs, Connect(r)
    PROVE  IInv'
<1>. USE DEF Goto, poolVars, sessionVars, history
<1>1. /\ TypeOK /\ ClientsAccountedFor /\ QueueInv
      /\ \A q \in Reqs : SessionInv(q) /\ EffectInv(q)
      /\ \A q \in wrote : KindOf[q] # "get"
      /\ committed \subseteq wrote
      /\ \A c \in Clients : slot[c] # "busy" => Clean(c)
  BY DEF IInv
<1>2. PICK c \in Clients : /\ slot[c] # "busy"
                           /\ slot' = [slot EXCEPT ![c] = "busy"]
                           /\ conn' = [conn EXCEPT ![r] = c]
  BY DEF Connect
<1>3. queue \in Seq(Reqs) /\ queue # << >> /\ r = queue[1] /\ pc[r] = "connect"
  <2>1. queue \in Seq(Reqs) /\ queue # << >> /\ r = Head(queue)
    BY <1>1 DEF Connect, TypeOK
  <2>. QED  BY <1>1, <2>1, HeadTailProperties DEF QueueInv
<1>4. /\ pc' = [pc EXCEPT ![r] = "begin"] /\ queue' = Tail(queue)
      /\ UNCHANGED <<result, unclean, txState, readOnly, localRole, localClaims,
                     sessionRole, staged, committed, wrote, doubt>>
  BY DEF Connect
<1>5. TypeOK'
  <2>1. queue' \in Seq(Reqs)
    BY <1>3, <1>4, HeadTailProperties
  <2>. QED  BY <1>1, <1>2, <1>4, <2>1 DEF TypeOK, PC, Holding
<1>6. ClientsAccountedFor'
  <2>1. \A q \in Reqs : conn[q] # c
    BY <1>1, <1>2 DEF ClientsAccountedFor
  <2>2. c # None /\ conn \in [Reqs -> Clients \cup {None}]
    BY <1>1, ConstantsAssumption DEF TypeOK
  <2>3. \A q \in Reqs : conn'[q] = IF q = r THEN c ELSE conn[q]
    BY <1>1, <1>2 DEF TypeOK
  <2>4. \A q \in Reqs : pc'[q] = IF q = r THEN "begin" ELSE pc[q]
    BY <1>1, <1>4 DEF TypeOK
  <2>5. \A d \in Clients : slot'[d] = IF d = c THEN "busy" ELSE slot[d]
    BY <1>1, <1>2 DEF TypeOK
  <2>6. conn[r] = None
    BY <1>1, <1>3 DEF ClientsAccountedFor, Holding
  <2>7. /\ \A d \in Clients : slot[d] = "busy" <=> \E q \in Reqs : conn[q] = d
        /\ \A q, s \in Reqs : conn[q] # None /\ conn[q] = conn[s] => q = s
        /\ \A q \in Reqs : conn[q] # None <=> pc[q] \in Holding
    BY <1>1 DEF ClientsAccountedFor
  <2>8. \A d \in Clients : slot'[d] = "busy" <=> \E q \in Reqs : conn'[q] = d
    <3>. TAKE d \in Clients
    <3>1. CASE d = c
      BY <2>3, <2>5, <3>1
    <3>2. CASE d # c
      BY <2>2, <2>3, <2>5, <2>6, <2>7, <3>2, ConstantsAssumption
    <3>. QED  BY <3>1, <3>2
  <2>9. \A q, s \in Reqs : conn'[q] # None /\ conn'[q] = conn'[s] => q = s
    BY <2>1, <2>3, <2>7
  <2>10. \A q \in Reqs : conn'[q] # None <=> pc'[q] \in Holding
    BY <2>2, <2>3, <2>4, <2>7 DEF Holding
  <2>. QED  BY <2>8, <2>9, <2>10 DEF ClientsAccountedFor
<1>7. QueueInv'
  <2>1. /\ Len(queue') = Len(queue) - 1 /\ Len(queue) \in Nat
        /\ \A i \in 1..Len(queue') : queue'[i] = queue[i + 1]
    BY <1>3, <1>4, HeadTailProperties
  <2>2. \A i \in 1..Len(queue') : queue[i + 1] # r /\ queue[i + 1] \in Reqs
    BY <1>1, <1>3, <2>1, ElementOfSeq DEF QueueInv
  <2>. QED  BY <1>1, <1>4, <2>1, <2>2 DEF QueueInv, TypeOK
<1>8. \A d \in Clients : slot'[d] # "busy" => Clean(d)'
  BY <1>1, <1>2, <1>4 DEF Clean, TypeOK
<1>9. ASSUME NEW q \in Reqs PROVE SessionInv(q)' /\ EffectInv(q)'
  <2>1. CASE q = r
    <3>1. conn'[r] = c /\ pc'[r] = "begin" /\ Clean(c)
      BY <1>1, <1>2, <1>4 DEF TypeOK
    <3>2. SessionInv(r)'
      BY <1>4, <3>1 DEF SessionInv, Clean
    <3>3. EffectInv(r)'
      BY <1>1, <1>3, <1>4, <3>1 DEF EffectInv, Unserved
    <3>. QED  BY <2>1, <3>2, <3>3
  <2>2. CASE q # r
    <3>1. pc'[q] = pc[q] /\ conn'[q] = conn[q]
      BY <1>1, <1>2, <1>4, <2>2 DEF TypeOK
    <3>2. Untouched(q)
      BY <1>4, <3>1 DEF Untouched
    <3>3. EffectInv(q)'
      BY <1>1, <1>4, <3>1 DEF EffectInv
    <3>. QED  BY <1>1, <3>2, <3>3, UntouchedLemma
  <2>. QED  BY <2>1, <2>2
<1>. QED  BY <1>1, <1>4, <1>5, <1>6, <1>7, <1>8, <1>9 DEF IInv

\* The client goes back, clean, or is destroyed with its session.
LEMMA ReleaseInv ==
    ASSUME IInv, NEW r \in Reqs, Release(r)
    PROVE  IInv'
<1>. USE DEF Goto, history, sessionVars
<1>1. /\ TypeOK /\ ClientsAccountedFor /\ QueueInv
      /\ \A q \in Reqs : SessionInv(q) /\ EffectInv(q)
      /\ \A q \in wrote : KindOf[q] # "get"
      /\ committed \subseteq wrote
      /\ \A d \in Clients : slot[d] # "busy" => Clean(d)
  BY DEF IInv
<1>2. PICK c \in Clients : pc[r] = "release" /\ c = conn[r] /\ c # None
  BY <1>1, ConstantsAssumption DEF Release, ClientsAccountedFor, Holding, TypeOK
<1>3. /\ pc' = [pc EXCEPT ![r] = "done"]
      /\ conn' = [conn EXCEPT ![r] = None]
      /\ slot' = [slot EXCEPT ![c] = SlotReleased(r)]
      /\ UNCHANGED <<result, unclean, queue, committed, wrote, doubt>>
  BY <1>2 DEF Release
<1>4. SlotReleased(r) \in {"absent", "idle"}
  BY DEF SlotReleased
<1>5. /\ SessionTypeOK'
      /\ Clean(c)'
      /\ \A d \in Clients \ {c} :
           /\ txState'[d] = txState[d] /\ readOnly'[d] = readOnly[d]
           /\ localRole'[d] = localRole[d] /\ localClaims'[d] = localClaims[d]
           /\ staged'[d] = staged[d]
  <2>1. CASE Destroyed(r)
    <3>1. EndTx(c, "none") /\ sessionRole' = [sessionRole EXCEPT ![c] = LoginRole]
      BY <1>2, <2>1 DEF Release
    <3>2. sessionRole' \in [Clients -> AnyRole]
      BY <1>1, <3>1 DEF TypeOK, AnyRole
    <3>3. SessionTypeOK'
      BY <1>1, <1>2, <3>1, <3>2, SessionTyped DEF TxStates
    <3>4. Clean(c)'
      BY <1>1, <1>2, <3>1 DEF EndTx, Clean, TypeOK
    <3>. QED  BY <1>1, <3>1, <3>3, <3>4 DEF EndTx, TypeOK
  <2>2. CASE ~Destroyed(r)
    <3>1. UNCHANGED <<txState, readOnly, localRole, localClaims, sessionRole, staged>>
      BY <2>2 DEF Release
    <3>2. Clean(c)
      BY <1>1, <1>2, <2>2 DEF SessionInv
    <3>3. Clean(c)'
      BY <3>1, <3>2 DEF Clean
    <3>4. SessionTypeOK'
      BY <1>1, <3>1 DEF TypeOK, SessionTypeOK
    <3>. QED  BY <3>1, <3>3, <3>4
  <2>. QED  BY <2>1, <2>2
<1>6. TypeOK'
  BY <1>1, <1>2, <1>3, <1>4, <1>5 DEF TypeOK, SessionTypeOK, PC, Finished
<1>7. ClientsAccountedFor'
  <2>1. \A q \in Reqs : conn'[q] = IF q = r THEN None ELSE conn[q]
    BY <1>1, <1>3 DEF TypeOK
  <2>2. \A q \in Reqs : pc'[q] = IF q = r THEN "done" ELSE pc[q]
    BY <1>1, <1>3 DEF TypeOK
  <2>3. \A d \in Clients : slot'[d] = IF d = c THEN SlotReleased(r) ELSE slot[d]
    BY <1>1, <1>3 DEF TypeOK
  <2>4. ConstantsAssumption
    BY ConstantsAssumption
  <2>. QED
    BY <1>1, <1>2, <1>4, <2>1, <2>2, <2>3, <2>4 DEF ClientsAccountedFor, Holding
<1>8. QueueInv'
  <2>1. \A i \in 1..Len(queue) : queue[i] \in Reqs /\ queue[i] # r
    BY <1>1, <1>2, ElementOfSeq DEF QueueInv, TypeOK
  <2>. QED  BY <1>1, <1>3, <2>1 DEF QueueInv, TypeOK
<1>9. ASSUME NEW d \in Clients, slot'[d] # "busy" PROVE Clean(d)'
  <2>1. CASE d = c
    BY <1>5, <2>1
  <2>2. CASE d # c
    <3>1. Clean(d)
      BY <1>1, <1>3, <1>9, <2>2 DEF TypeOK
    <3>. QED  BY <1>5, <2>2, <3>1 DEF Clean
  <2>. QED  BY <2>1, <2>2
<1>10. ASSUME NEW q \in Reqs PROVE SessionInv(q)' /\ EffectInv(q)'
  <2>1. CASE q = r
    BY <1>1, <1>2, <1>3, <2>1 DEF SessionInv, EffectInv, Unserved, TypeOK
  <2>2. CASE q # r
    <3>1. pc'[q] = pc[q] /\ conn'[q] = conn[q]
      BY <1>1, <1>3, <2>2 DEF TypeOK
    <3>2. EffectInv(q)'
      BY <1>1, <1>3, <3>1 DEF EffectInv
    <3>3. CASE pc[q] \in Holding
      <4>1. conn[q] \in Clients \ {c}
        BY <1>1, <1>2, <2>2, <3>3 DEF ClientsAccountedFor, TypeOK
      <4>2. Untouched(q)
        BY <1>3, <1>5, <3>1, <4>1 DEF Untouched
      <4>. QED  BY <1>1, <3>2, <4>2, UntouchedLemma
    <3>4. CASE pc[q] \notin Holding
      BY <3>1, <3>2, <3>4 DEF SessionInv, Holding
    <3>. QED  BY <3>3, <3>4
  <2>. QED  BY <2>1, <2>2
<1>. QED  BY <1>1, <1>3, <1>6, <1>7, <1>8, <1>9, <1>10 DEF IInv

LEMMA IdleLostInv ==
    ASSUME IInv, NEW c \in Clients, IdleLost(c)
    PROVE  IInv'
<1>1. /\ TypeOK /\ ClientsAccountedFor /\ QueueInv
      /\ \A q \in Reqs : SessionInv(q) /\ EffectInv(q)
      /\ \A q \in wrote : KindOf[q] # "get"
      /\ committed \subseteq wrote
      /\ \A d \in Clients : slot[d] # "busy" => Clean(d)
  BY DEF IInv
<1>2. /\ slot[c] = "idle" /\ slot' = [slot EXCEPT ![c] = "absent"]
      /\ sessionRole' = [sessionRole EXCEPT ![c] = LoginRole]
      /\ UNCHANGED <<pc, conn, result, unclean, queue, txState, readOnly, localRole,
                     localClaims, staged, committed, wrote, doubt>>
  BY DEF IdleLost, history
<1>3. TypeOK'
  BY <1>1, <1>2 DEF TypeOK, AnyRole
<1>4. ClientsAccountedFor'
  BY <1>1, <1>2 DEF ClientsAccountedFor, TypeOK
<1>5. QueueInv'
  BY <1>1, <1>2 DEF QueueInv
<1>6. \A d \in Clients : slot'[d] # "busy" => Clean(d)'
  BY <1>1, <1>2 DEF Clean, TypeOK
<1>7. ASSUME NEW q \in Reqs PROVE SessionInv(q)' /\ EffectInv(q)'
  <2>1. Untouched(q)
    BY <1>2 DEF Untouched
  <2>2. EffectInv(q)'
    BY <1>1, <1>2 DEF EffectInv
  <2>. QED  BY <1>1, <2>1, <2>2, UntouchedLemma
<1>. QED  BY <1>1, <1>2, <1>3, <1>4, <1>5, <1>6, <1>7 DEF IInv

\* What a dying process can still have made durable: writes of requests that
\* were committing, each its own.
LEMMA LandedAreCommitting ==
    ASSUME IInv, NEW landed \in SUBSET Committing,
           NEW q \in UNION {staged[conn[r]] : r \in landed}
    PROVE  q \in Reqs /\ pc[q] = "commit" /\ q \in wrote /\ q \notin committed
<1>1. PICK r \in landed : q \in staged[conn[r]]
  OBVIOUS
<1>2. r \in Reqs /\ pc[r] = "commit" /\ SessionInv(r) /\ EffectInv(r)
  BY DEF Committing, IInv
<1>3. q = r /\ r \in wrote
  BY <1>1, <1>2 DEF SessionInv
<1>. QED  BY <1>2, <1>3 DEF EffectInv

LEMMA CrashInv ==
    ASSUME IInv, Crash
    PROVE  IInv'
<1>1. /\ TypeOK
      /\ \A q \in Reqs : SessionInv(q) /\ EffectInv(q)
      /\ \A q \in wrote : KindOf[q] # "get"
      /\ committed \subseteq wrote
  BY DEF IInv
<1>2. PICK landed \in SUBSET Committing :
        committed' = committed \cup UNION {staged[conn[r]] : r \in landed}
  BY DEF Crash
<1>3. /\ pc' = [r \in Reqs |-> IF pc[r] = "done" THEN "done" ELSE "gone"]
      /\ conn' = [r \in Reqs |-> None]
      /\ queue' = << >>
      /\ slot' = [c \in Clients |-> "absent"]
      /\ txState' = [c \in Clients |-> "none"]
      /\ readOnly' = [c \in Clients |-> FALSE]
      /\ localRole' = [c \in Clients |-> None]
      /\ localClaims' = [c \in Clients |-> None]
      /\ sessionRole' = [c \in Clients |-> LoginRole]
      /\ staged' = [c \in Clients |-> {}]
      /\ UNCHANGED <<result, unclean, wrote, doubt>>
  BY DEF Crash, history
<1>4. committed' \subseteq wrote'
  BY <1>1, <1>2, <1>3, LandedAreCommitting
<1>5. TypeOK'
  <2>1. committed' \subseteq Reqs
    BY <1>1, <1>3, <1>4 DEF TypeOK
  <2>. QED
    BY <1>1, <1>3, <2>1 DEF TypeOK, PC, Finished, TxStates, AnyRole
<1>6. ClientsAccountedFor'
  BY <1>3, ConstantsAssumption DEF ClientsAccountedFor, Holding
<1>7. QueueInv'
  BY <1>3 DEF QueueInv
<1>8. \A c \in Clients : Clean(c)'
  BY <1>3 DEF Clean
<1>9. ASSUME NEW q \in Reqs PROVE SessionInv(q)' /\ EffectInv(q)'
  <2>1. pc'[q] \in {"done", "gone"} /\ (pc'[q] = "done" <=> pc[q] = "done")
    BY <1>3
  <2>2. SessionInv(q)'
    BY <2>1 DEF SessionInv
  <2>3. CASE pc[q] = "done"
    <3>1. q \in committed' <=> q \in committed
      BY <1>2, <2>3, LandedAreCommitting
    <3>. QED  BY <1>1, <1>3, <2>1, <2>2, <2>3, <3>1 DEF EffectInv, Unserved
  <2>4. CASE pc[q] # "done"
    BY <2>1, <2>2, <2>4 DEF EffectInv, Unserved
  <2>. QED  BY <2>3, <2>4
<1>. QED  BY <1>1, <1>3, <1>4, <1>5, <1>6, <1>7, <1>8, <1>9 DEF IInv

LEMMA NextIInv == IInv /\ [Next]_vars => IInv'
<1>. SUFFICES ASSUME IInv, [Next]_vars PROVE IInv'
  OBVIOUS
<1>1. ASSUME NEW r \in Reqs, Step(r) PROVE IInv'
  BY <1>1, UnservedInv, ConnectInv, DrivenInv, ReleaseInv DEF Step, Driven
<1>2. ASSUME NEW c \in Clients, IdleLost(c) PROVE IInv'
  BY <1>2, IdleLostInv
<1>3. CASE Crash
  BY <1>3, CrashInv
<1>4. CASE UNCHANGED vars
  <2>1. UNCHANGED <<pc, conn, result, unclean, queue, slot, txState, readOnly, localRole,
                    localClaims, sessionRole, staged, committed, wrote, doubt>>
    BY <1>4 DEF vars, poolVars, sessionVars, history
  <2>2. TypeOK' /\ ClientsAccountedFor' /\ QueueInv'
    BY <2>1 DEF IInv, TypeOK, ClientsAccountedFor, QueueInv
  <2>3. \A c \in Clients : slot'[c] # "busy" => Clean(c)'
    BY <2>1 DEF IInv, Clean
  <2>4. \A q \in Reqs : SessionInv(q)' /\ EffectInv(q)'
    BY <2>1 DEF IInv, SessionInv, EffectInv, Clean, Destroyed
  <2>. QED  BY <2>1, <2>2, <2>3, <2>4 DEF IInv
<1>. QED  BY <1>1, <1>2, <1>3, <1>4 DEF Next, AllFinished

LEMMA Invariance == Spec => []IInv
  BY InitIInv, NextIInv, PTL DEF Spec

-----------------------------------------------------------------------------
(* The theorems.                                                           *)

\* Every variable keeps its type: in particular no request is ever answered
\* with anything but "ok", "notFound" or "error".
THEOREM TypeCorrect == Spec => []TypeOK
<1>1. IInv => TypeOK
  BY DEF IInv
<1>. QED  BY <1>1, Invariance, PTL

\* Pooled connections carry nothing from one request to the next (roleTransaction.ts).
THEOREM Isolation == Spec => []IdleClientsAreClean
<1>1. IInv => IdleClientsAreClean
  BY DEF IInv, IdleClientsAreClean, Clean
<1>. QED  BY <1>1, Invariance, PTL

\* Work only runs under its own request's role and claims, read-only for a GET: all of
\* which the connection it holds was given in this transaction (roleTransaction.ts).
THEOREM Impersonation == Spec => []WorkRunsAsRequester
<1>1. IInv => WorkRunsAsRequester
  <2>. SUFFICES ASSUME IInv, NEW r \in Reqs, pc[r] = "work"
                PROVE  /\ EffectiveRole(conn[r]) = RoleOf[r]
                       /\ localClaims[conn[r]] = r
                       /\ readOnly[conn[r]] = (KindOf[r] = "get")
    BY DEF WorkRunsAsRequester
  <2>1. SessionInv(r)
    BY DEF IInv
  <2>2. localRole[conn[r]] = RoleOf[r] /\ localClaims[conn[r]] = r
    BY <2>1 DEF SessionInv
  <2>3. readOnly[conn[r]] = (KindOf[r] = "get")
    BY <2>1, Zenon DEF SessionInv
  <2>4. RoleOf[r] # None
    BY ConstantsAssumption
  <2>. QED  BY <2>2, <2>3, <2>4, Zenon DEF EffectiveRole
<1>. QED  BY <1>1, Invariance, PTL

\* GET requests change nothing and answers agree with the database, but for a
\* COMMIT whose answer was lost (startApiServer.ts, handler.ts, tools/call.ts).
THEOREM Truthfulness == Spec => []AnswersAreTrue
<1>1. IInv => AnswersAreTrue
  BY DEF IInv, EffectInv, AnswersAreTrue
<1>. QED  BY <1>1, Invariance, PTL

\* No error path leaks a pooled client or lends one to two requests.
THEOREM NoClientLeak == Spec => []ClientsAccountedFor
<1>1. IInv => ClientsAccountedFor
  BY DEF IInv
<1>. QED  BY <1>1, Invariance, PTL

-----------------------------------------------------------------------------
(* RoleTransaction implements AtomicRequests.                              *)

LEMMA InitRefines == Init => Abstract!Init
  BY DEF Init, Abstract!Init, answer

\* A request whose position does not become, or cease to be, "done" keeps its
\* abstract answer.
LEMMA SameAnswer ==
    ASSUME \A r \in Reqs : /\ pc'[r] = "done" <=> pc[r] = "done"
                           /\ pc[r] = "done" => result'[r] = result[r]
    PROVE  answer' = answer
  BY DEF answer

\* Only r is answered.
LEMMA NewAnswer ==
    ASSUME TypeOK, NEW r \in Reqs, pc[r] # "done",
           pc' = [pc EXCEPT ![r] = "done"],
           \A q \in Reqs \ {r} : result'[q] = result[q]
    PROVE  answer' = [answer EXCEPT ![r] = result'[r]] /\ answer[r] = "none"
  BY DEF answer, TypeOK

LEMMA StepRefines ==
    ASSUME IInv, NEW r \in Reqs, Step(r)
    PROVE  [Abstract!Next]_Abstract!vars
<1>. USE DEF Abstract!vars, Goto, Answer, history
<1>1. TypeOK /\ SessionInv(r) /\ EffectInv(r)
  BY DEF IInv
<1>2. CASE Authenticate(r) \/ ReadBody(r) \/ ConnectFails(r)
  <2>1. /\ UNCHANGED <<committed, wrote, doubt>>
        /\ pc[r] \in Unserved /\ pc[r] # "done"
    BY <1>1, <1>2 DEF Authenticate, ReadBody, ConnectFails, Unserved, IInv, QueueInv, TypeOK
  <2>2. CASE pc' = [pc EXCEPT ![r] = "done"] /\ result' = [result EXCEPT ![r] = "error"]
    <3>1. /\ answer' = [answer EXCEPT ![r] = result'[r]] /\ answer[r] = "none"
          /\ result'[r] = "error" /\ r \notin committed
      BY <1>1, <2>1, <2>2, NewAnswer DEF TypeOK, EffectInv
    <3>2. Abstract!AnswerError(r)
      BY <2>1, <3>1 DEF Abstract!AnswerError, Abstract!Unanswered
    <3>. QED  BY <3>2 DEF Abstract!Next
  <2>3. CASE (\E p \in {"readBody", "connect"} : pc' = [pc EXCEPT ![r] = p])
             /\ result' = result
    BY <1>1, <2>1, <2>3, SameAnswer DEF TypeOK
  <2>. QED  BY <1>2, <2>2, <2>3 DEF Authenticate, ReadBody, ConnectFails
<1>3. CASE Connect(r)
  <2>1. /\ pc' = [pc EXCEPT ![r] = "begin"] /\ pc[r] = "connect"
        /\ UNCHANGED <<result, committed, wrote, doubt>>
    BY <1>1, <1>3, HeadTailProperties DEF Connect, IInv, QueueInv, TypeOK
  <2>. QED  BY <1>1, <2>1, SameAnswer DEF TypeOK
<1>4. CASE Driven(r)
  <2>0. conn[r] \in Clients
    BY <1>4, DrivenHolds
  <2>1. Frame(r)
    BY <1>4, <2>0, DrivenFrame
  <2>2. answer' = answer
    BY <1>1, <2>1, SameAnswer DEF Frame, TypeOK, Holding
  <2>3. r \in Abstract!Unanswered
    BY <2>1 DEF Abstract!Unanswered, answer, Frame, Holding
  <2>4. CASE StatementWrites(r)
    <3>1. Abstract!Attempt(r)
      BY <2>2, <2>3, <2>4 DEF StatementWrites, Abstract!Attempt
    <3>. QED  BY <3>1 DEF Abstract!Next
  <2>5. CASE Commit(r) /\ CommitOpen(r)
    <3>1. staged[conn[r]] \subseteq (Abstract!Unanswered \cap wrote) \ committed
      BY <1>1, <2>3, <2>5 DEF Commit, SessionInv, EffectInv
    <3>2. Abstract!Land(staged[conn[r]])
      BY <2>2, <2>5, <3>1 DEF Commit, CommitOpen, Abstract!Land
    <3>3. staged[conn[r]] \in SUBSET Reqs
      BY <3>1 DEF Abstract!Unanswered
    <3>. QED  BY <3>2, <3>3 DEF Abstract!Next
  <2>6. CASE Commit(r) /\ CommitInDoubt(r)
    <3>1. /\ staged[conn[r]] = IF r \in wrote THEN {r} ELSE {}
          /\ r \notin committed
      BY <1>1, <2>6 DEF Commit, SessionInv, EffectInv
    <3>2. Abstract!LoseTrack(r)
      BY <2>2, <2>3, <2>6, <3>1 DEF Commit, CommitInDoubt, Abstract!LoseTrack
    <3>. QED  BY <3>2 DEF Abstract!Next
  <2>7. CASE UNCHANGED <<wrote, doubt, committed>>
    BY <2>2, <2>7
  <2>. QED
    BY <1>4, <2>4, <2>5, <2>6, <2>7
    DEF Driven, Begin, SetLocalRole, SetConfig, Work, WorkReads, StatementFails, Commit,
        CommitAborted, CommitRefused, Rollback
<1>5. CASE Release(r)
  <2>1. /\ pc[r] = "release" /\ pc' = [pc EXCEPT ![r] = "done"]
        /\ UNCHANGED <<result, committed, wrote, doubt>>
    BY <1>5 DEF Release
  <2>2. /\ answer' = [answer EXCEPT ![r] = result[r]] /\ answer[r] = "none"
    BY <1>1, <2>1, NewAnswer
  <2>3. CASE result[r] \in Completed
    <3>1. Abstract!AnswerCompleted(r)
      BY <1>1, <2>1, <2>2, <2>3
      DEF EffectInv, Completed, Abstract!AnswerCompleted, Abstract!Unanswered
    <3>. QED  BY <3>1 DEF Abstract!Next
  <2>4. CASE result[r] = "error"
    <3>1. Abstract!AnswerError(r)
      BY <1>1, <2>1, <2>2, <2>4 DEF EffectInv, Abstract!AnswerError, Abstract!Unanswered
    <3>. QED  BY <3>1 DEF Abstract!Next
  <2>. QED  BY <1>1, <2>1, <2>3, <2>4 DEF EffectInv, Completed, TypeOK, Results
<1>. QED  BY <1>2, <1>3, <1>4, <1>5 DEF Step, Driven

LEMMA CrashRefines ==
    ASSUME IInv, Crash
    PROVE  [Abstract!Next]_Abstract!vars
<1>1. PICK landed \in SUBSET Committing :
        committed' = committed \cup UNION {staged[conn[r]] : r \in landed}
  BY DEF Crash
<1>. DEFINE R == UNION {staged[conn[r]] : r \in landed}
<1>2. /\ pc' = [r \in Reqs |-> IF pc[r] = "done" THEN "done" ELSE "gone"]
      /\ UNCHANGED <<result, wrote, doubt>>
  BY DEF Crash, history
<1>3. answer' = answer
  BY <1>2, SameAnswer
<1>4. R \subseteq (Abstract!Unanswered \cap wrote) \ committed
  BY LandedAreCommitting DEF Abstract!Unanswered, answer
<1>5. Abstract!Land(R)
  BY <1>1, <1>2, <1>3, <1>4 DEF Abstract!Land
<1>6. R \in SUBSET Reqs
  BY LandedAreCommitting
<1>. QED  BY <1>5, <1>6 DEF Abstract!Next

\* The envelope and its callers keep the promise AtomicRequests states: effects
\* land at most once and before the answer, and answers are true.
THEOREM Refinement == Spec => ImplementsAtomicRequests
<1>1. IInv /\ [Next]_vars => [Abstract!Next]_Abstract!vars
  <2>. SUFFICES ASSUME IInv, [Next]_vars PROVE [Abstract!Next]_Abstract!vars
    OBVIOUS
  <2>1. ASSUME NEW c \in Clients, IdleLost(c) PROVE UNCHANGED Abstract!vars
    BY <2>1 DEF IdleLost, Abstract!vars, answer, history
  <2>2. CASE UNCHANGED vars
    BY <2>2 DEF vars, Abstract!vars, answer, history
  <2>. QED  BY <2>1, <2>2, StepRefines, CrashRefines DEF Next, AllFinished
<1>. QED
  BY <1>1, InitRefines, Invariance, PTL DEF Spec, ImplementsAtomicRequests, Abstract!Spec
=============================================================================
