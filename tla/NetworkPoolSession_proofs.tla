---------------------- MODULE NetworkPoolSession_proofs -----------------------
(***************************************************************************)
(* The pool, for any number of slots, sessions and registering threads:    *)
(* the slots and the counter stay exact, and the checker never meets a     *)
(* session in an unexpected state.                                         *)
(* A session, for any buffers, callers and sizes: the socket gets the      *)
(* bytes that were put, each once, and out of order only because of a      *)
(* buffer that it had refused.                                             *)
(***************************************************************************)
EXTENDS NetworkPool, Session, FiniteSetTheorems, TLAPS

------------------------------------------------------------------------------
(* NetworkPool.                                                            *)

USE NetworkPoolAssumption DEF Slots, Calls

(* The first part of SlotsKept: a slot is in one place at most.            *)
OnePlace ==
  \A k \in Slots :
    /\ k \in available => slot[k] = NoSession
    /\ k \in available \/ slot[k] # NoSession \/ Deleted(k)
         => \A t \in Clients : ~Held(t, k)
    /\ Deleted(k) => k \notin available /\ slot[k] = NoSession
    /\ \A t, u \in Clients : Held(t, k) /\ Held(u, k) => t = u

NetworkInv == NetworkTypeOK /\ OwnersOK /\ OnePlace /\ StatesExpected

LEMMA SlotsFinite == IsFiniteSet(Slots)
  BY FS_Interval

LEMMA InitInv == NetworkInit => PoolInv
<1> SUFFICES ASSUME NetworkInit PROVE PoolInv
  OBVIOUS
<1>1. NetworkTypeOK
  <2>1. available \subseteq Slots /\ slot \in [Slots -> Sessions \cup {NoSession}]
    BY DEF NetworkInit
  <2>2. status \in [Sessions -> {"ready", "ok", "disconnect"}]
    BY DEF NetworkInit
  <2>3. /\ count \in Int /\ commands \in Nat /\ i \in Nat /\ cpc = "top"
        /\ closable = TRUE /\ canceled = FALSE /\ working \in Nat
    BY DEF NetworkInit
  <2>4. /\ rpc \in [Clients -> {"out", "slot", "open"} \cup Opened] /\ n \in [Clients -> Nat]
        /\ key \in [Clients -> Sessions \cup {NoSession}] /\ \A t \in Clients : rpc[t] = "out"
    BY DEF NetworkInit
  <2>5. calls \in [Calls -> Nat]
    BY DEF NetworkInit
  <2> QED BY <2>1, <2>2, <2>3, <2>4, <2>5 DEF NetworkTypeOK, Opened
<1>2. OwnersOK /\ StatesExpected
  BY DEF NetworkInit, OwnersOK, StatesExpected, InSlot
<1>3. Lost = {} /\ Used = {} /\ Counted = {}
  BY DEF NetworkInit, Lost, Used, Counted
<1>4. SlotsKept /\ CountKept
  BY <1>3, FS_EmptySet DEF NetworkInit, SlotsKept, CountKept, Held, Deleted
<1> QED BY <1>1, <1>2, <1>4 DEF PoolInv

------------------------------------------------------------------------------
(* The part of the invariant that does not count, step by step.            *)

LEMMA RegisterInv ==
  ASSUME NetworkInv, NEW t \in Clients, NEW s \in Sessions, Register(t, s)
  PROVE  NetworkInv'
<1> USE DEF NetworkInv, Register, Registrable, checking, pool
<1>0. calls' \in [Calls -> Nat]
  BY DEF NetworkTypeOK
<1>1. NetworkTypeOK'
  BY <1>0 DEF NetworkTypeOK, Opened
<1>2. OwnersOK'
  BY DEF NetworkTypeOK, OwnersOK, StatesExpected, InSlot, Opened
<1>3. OnePlace'
  BY DEF NetworkTypeOK, OnePlace, Held, Deleted
<1>4. StatesExpected'
  BY DEF StatesExpected, InSlot, ToDelete
<1> QED BY <1>1, <1>2, <1>3, <1>4

LEMMA RefusedInv == ASSUME NetworkInv, NEW t \in Clients, Refused(t) PROVE NetworkInv'
<1> USE DEF NetworkInv, Refused, EndRegister, checking, pool, callers
<1>1. NetworkTypeOK'
  BY DEF NetworkTypeOK, Opened
<1>2. OwnersOK'
  BY DEF NetworkTypeOK, OwnersOK, InSlot, Opened
<1>3. OnePlace'
  BY DEF NetworkTypeOK, OnePlace, Held, Deleted
<1>4. StatesExpected'
  BY DEF StatesExpected, InSlot, ToDelete
<1> QED BY <1>1, <1>2, <1>3, <1>4

LEMMA GetSlotInv == ASSUME NetworkInv, NEW t \in Clients, GetSlot(t) PROVE NetworkInv'
<1>1. PICK k \in available :
        /\ available' = available \ {k}
        /\ \/ /\ slot[k] = NoSession /\ rpc' = [rpc EXCEPT ![t] = "open"]
              /\ n' = [n EXCEPT ![t] = k] /\ key' = key
           \/ EndRegister(t)
  BY DEF GetSlot, Without
<1>2. rpc[t] = "slot" /\ k \in Slots /\ UNCHANGED <<slot, status, count, closable, commands, pool, checking, callers>>
  BY DEF GetSlot, NetworkInv, NetworkTypeOK
<1>3. CASE EndRegister(t)
  <2> USE <1>1, <1>2, <1>3 DEF NetworkInv, EndRegister, checking, pool, callers
  <2>1. NetworkTypeOK'
    BY DEF NetworkTypeOK, Opened
  <2>2. OwnersOK'
    BY DEF NetworkTypeOK, OwnersOK, InSlot, Opened
  <2>3. OnePlace'
    BY DEF NetworkTypeOK, OnePlace, Held, Deleted
  <2>4. StatesExpected'
    BY DEF StatesExpected, InSlot, ToDelete
  <2> QED BY <2>1, <2>2, <2>3, <2>4
<1>4. CASE /\ slot[k] = NoSession /\ rpc' = [rpc EXCEPT ![t] = "open"]
           /\ n' = [n EXCEPT ![t] = k] /\ key' = key
  <2>0. available' = available \ {k}
    BY <1>1
  <2> USE <1>2, <1>4, <2>0 DEF NetworkInv, checking, pool, callers
  <2>1. NetworkTypeOK'
    BY DEF NetworkTypeOK, Opened
  <2>2. OwnersOK'
    BY DEF NetworkTypeOK, OwnersOK, InSlot, Opened
  <2>3. OnePlace'
    BY SMTT(30) DEF NetworkTypeOK, OnePlace, Held, Deleted
  <2>4. StatesExpected'
    BY DEF StatesExpected, InSlot, ToDelete
  <2> QED BY <2>1, <2>2, <2>3, <2>4
<1> QED BY <1>1, <1>3, <1>4

LEMMA OpenInv == ASSUME NetworkInv, NEW t \in Clients, Open(t) PROVE NetworkInv'
<1> USE DEF NetworkInv, Open, GotoR, checking, pool, callers
<1>1. NetworkTypeOK'
  BY DEF NetworkTypeOK, Opened
<1>2. OwnersOK'
  BY DEF NetworkTypeOK, OwnersOK, InSlot, Opened
<1>3. OnePlace'
  BY DEF NetworkTypeOK, OnePlace, Held, Deleted
<1>4. StatesExpected'
  BY DEF NetworkTypeOK, OwnersOK, StatesExpected, InSlot, ToDelete, Opened
<1> QED BY <1>1, <1>2, <1>3, <1>4

LEMMA AddFailsInv == ASSUME NetworkInv, NEW t \in Clients, AddFails(t) PROVE NetworkInv'
<1> USE DEF NetworkInv, AddFails, EndRegister, checking, pool, callers
<1>0. calls' \in [Calls -> Nat]
  BY DEF NetworkTypeOK
<1>1. NetworkTypeOK'
  BY <1>0 DEF NetworkTypeOK, Opened
<1>2. OwnersOK'
  BY DEF NetworkTypeOK, OwnersOK, InSlot, Opened
<1>3. OnePlace'
  BY DEF NetworkTypeOK, OnePlace, Held, Deleted
<1>4. StatesExpected'
  BY DEF NetworkTypeOK, OwnersOK, StatesExpected, InSlot, ToDelete
<1> QED BY <1>1, <1>2, <1>3, <1>4

(* The steps of Register that follow without touching a slot or a state.   *)
LEMMA AddedInv ==
  ASSUME NetworkInv, NEW t \in Clients, Add(t) \/ CountUp(t) \/ Reset(t)
  PROVE  NetworkInv'
<1> DEFINE l == rpc'[t]
<1>0. /\ rpc' = [rpc EXCEPT ![t] = l] /\ rpc[t] \in Opened /\ l \in Opened
      /\ count' \in Int /\ closable' \in BOOLEAN
      /\ UNCHANGED <<available, slot, status, commands, canceled, working, key, n, cpc, i, calls>>
  <2>1. CASE Add(t)
    BY <2>1 DEF NetworkInv, NetworkTypeOK, Add, GotoR, checking, pool, callers, Opened
  <2>2. CASE CountUp(t)
    BY <2>2 DEF NetworkInv, NetworkTypeOK, CountUp, GotoR, checking, pool, callers, Opened
  <2>3. CASE Reset(t)
    BY <2>3 DEF NetworkInv, NetworkTypeOK, Reset, GotoR, checking, pool, callers, Opened
  <2> QED BY <2>1, <2>2, <2>3
<1> HIDE DEF l
<1> USE <1>0 DEF NetworkInv
<1>1. NetworkTypeOK'
  BY DEF NetworkTypeOK, Opened
<1>2. OwnersOK'
  BY SMTT(30) DEF NetworkTypeOK, OwnersOK, InSlot, Opened
<1>3. OnePlace'
  BY DEF NetworkTypeOK, OnePlace, Held, Deleted, Opened
<1>4. StatesExpected'
  BY DEF StatesExpected, InSlot, ToDelete
<1> QED BY <1>1, <1>2, <1>3, <1>4

LEMMA StoreInv == ASSUME NetworkInv, NEW t \in Clients, Store(t) PROVE NetworkInv'
<1> USE DEF NetworkInv, Store, EndRegister, checking, pool, callers
<1>0. /\ n[t] \in Slots /\ key[t] \in Sessions /\ status[key[t]] # "ready"
      /\ slot[n[t]] = NoSession /\ n[t] \notin available /\ ~Deleted(n[t])
  BY DEF NetworkTypeOK, OwnersOK, OnePlace, Held, Opened
<1>1. NetworkTypeOK'
  BY <1>0 DEF NetworkTypeOK, Opened
<1>2. OwnersOK'
  BY <1>0 DEF NetworkTypeOK, OwnersOK, StatesExpected, InSlot, Opened
<1>3. OnePlace'
  BY <1>0 DEF NetworkTypeOK, OnePlace, Held, Deleted
<1>4. StatesExpected'
  BY <1>0 DEF NetworkTypeOK, StatesExpected, InSlot, ToDelete
<1> QED BY <1>1, <1>2, <1>3, <1>4

LEMMA DisconnectedIs ==
  ASSUME NetworkInv, NEW S, Disconnected(S)
  PROVE  /\ status' \in [Sessions -> {"ready", "ok", "disconnect"}]
         /\ \A s \in Sessions : /\ status'[s] = "ready" <=> status[s] = "ready"
                                /\ status[s] = "disconnect" => status'[s] = "disconnect"
  BY DEF NetworkInv, NetworkTypeOK, Disconnected

(* The steps that touch no slot and no Register: commands, disconnects,    *)
(* waiting, and the checker's steps outside of svc_del.                    *)
Aside ==
  /\ UNCHANGED <<available, slot, rpc, key, n>>
  /\ status' \in [Sessions -> {"ready", "ok", "disconnect"}]
  /\ \A s \in Sessions : status'[s] = "ready" <=> status[s] = "ready"
  /\ \A s \in Sessions : status[s] = "disconnect" => status'[s] = "disconnect"
  /\ count' \in Int /\ closable' \in BOOLEAN /\ commands' \in Nat /\ canceled' \in BOOLEAN
  /\ working' \in Nat /\ calls' \in [Calls -> Nat]
  /\ \/ UNCHANGED <<cpc, i>>
     \/ /\ cpc \notin {"close", "put"} /\ i' \in Nat
        /\ \/ cpc' \in {"top", "exit", "cmd"}
           \/ cpc' \in {"sock", "handle", "set", "uncount"} /\ i' \in Slots
           \/ cpc' = "ready" /\ ToDelete' /\ i' \in Slots

LEMMA QuietInv == ASSUME NetworkInv, Aside PROVE NetworkInv'
<1> USE DEF NetworkInv, Aside
<1>1. NetworkTypeOK'
  BY DEF NetworkTypeOK
<1>2. OwnersOK'
  BY SMTT(30) DEF NetworkTypeOK, OwnersOK, InSlot
<1>3. OnePlace'
  BY SMTT(30) DEF NetworkTypeOK, OnePlace, Held, Deleted
<1>4. StatesExpected'
  BY DEF NetworkTypeOK, StatesExpected, InSlot, ToDelete
<1> QED BY <1>1, <1>2, <1>3, <1>4

LEMMA CallersQuiet ==
  ASSUME NetworkInv,
         \/ \E s \in Sessions : Hangup(s)
         \/ DisconnectAll \/ cancel \/ wait_for_all_session_exit \/ Waiting \/ LeaveWorker
  PROVE  Aside
<1> USE DEF NetworkInv, Aside, registering, checking, pool, callers
<1>1. CASE \E s \in Sessions : Hangup(s)
  BY <1>1, DisconnectedIs DEF Hangup, NetworkTypeOK
<1>2. CASE DisconnectAll
  BY <1>2 DEF DisconnectAll, NetworkTypeOK
<1>3. CASE cancel \/ wait_for_all_session_exit \/ Waiting
  <2>1. CASE cancel \/ CancelPool
    BY <2>1 DEF cancel, CancelPool, NetworkTypeOK
  <2>2. CASE SeeCanClose
    BY <2>2 DEF SeeCanClose, NetworkTypeOK
  <2>3. CASE wait_for_all_session_exit \/ TimeOut \/ test_canceled \/ WaitOver
    BY <2>3 DEF wait_for_all_session_exit, TimeOut, test_canceled, WaitOver, NetworkTypeOK
  <2> QED BY <1>3, <2>1, <2>2, <2>3 DEF Waiting
<1>4. CASE LeaveWorker
  <2>1. working' \in Nat /\ canceled' \in BOOLEAN
    BY <1>4 DEF LeaveWorker, NetworkTypeOK
  <2> QED BY <1>4, <2>1 DEF LeaveWorker, NetworkTypeOK
<1> QED BY <1>1, <1>2, <1>3, <1>4

LEMMA CheckerQuiet ==
  ASSUME NetworkInv,
         \/ Pass \/ Leave \/ Look \/ LookAndDelete \/ NoCommand \/ GetCommand \/ Handle
         \/ Uncount \/ SetCanClose
  PROVE  Aside
<1> USE DEF NetworkInv, Aside, registering, checking, pool, callers
<1>1. CASE Pass \/ Leave \/ NoCommand \/ GetCommand
  <2>1. CASE Pass \/ NoCommand \/ GetCommand
    BY SMTT(30), <2>1 DEF Pass, NoCommand, GetCommand, GotoC, NetworkTypeOK
  <2>2. CASE Leave
    <3>1. canceled' \in BOOLEAN
      BY <2>2 DEF Leave
    <3> QED BY <2>2, <3>1 DEF Leave, GotoC, NetworkTypeOK
  <2> QED BY <1>1, <2>1, <2>2
<1>2. CASE Look
  BY <1>2, DisconnectedIs DEF Look, NextSlot, NetworkTypeOK
<1>3. CASE LookAndDelete
  BY <1>3 DEF LookAndDelete, GotoC, ToDelete, NetworkTypeOK
<1>4. CASE Handle
  BY <1>4, DisconnectedIs DEF Handle, NextSlot, NetworkTypeOK
<1>5. CASE Uncount
  <2>1. count' \in Int /\ closable' \in BOOLEAN
    BY <1>5 DEF Uncount, NetworkTypeOK
  <2> QED BY <1>5, <2>1 DEF Uncount, GotoC, NextSlot, NetworkTypeOK
<1>6. CASE SetCanClose
  <2>1. closable' \in BOOLEAN
    BY <1>6 DEF SetCanClose
  <2> QED BY <1>6, <2>1 DEF SetCanClose, NextSlot, NetworkTypeOK
<1> QED BY <1>1, <1>2, <1>3, <1>4, <1>5, <1>6

(* svc_del.                                                                *)
LEMMA ReadyInv == ASSUME NetworkInv, MakeReady PROVE NetworkInv'
<1> USE DEF NetworkInv, MakeReady, GotoC, registering, pool, callers
<1>0. i \in Slots /\ slot[i] \in Sessions /\ InSlot(i) /\ status[slot[i]] = "disconnect"
  BY DEF NetworkTypeOK, StatesExpected, ToDelete, InSlot
<1>1. NetworkTypeOK'
  BY <1>0 DEF NetworkTypeOK
<1>2. OwnersOK'
  BY <1>0 DEF NetworkTypeOK, OwnersOK, InSlot
<1>3. OnePlace'
  BY DEF NetworkTypeOK, OnePlace, Held, Deleted
<1>4. StatesExpected'
  BY <1>0 DEF NetworkTypeOK, OwnersOK, StatesExpected, InSlot, ToDelete
<1> QED BY <1>1, <1>2, <1>3, <1>4

LEMMA CloseInv == ASSUME NetworkInv, Close PROVE NetworkInv'
<1> USE DEF NetworkInv, Close, Cleared, GotoC, registering, pool, callers
<1>0. i \in Slots /\ slot[i] # NoSession /\ i \notin available
  BY DEF NetworkTypeOK, StatesExpected, OnePlace
<1>1. NetworkTypeOK'
  BY <1>0 DEF NetworkTypeOK
<1>2. OwnersOK'
  BY <1>0 DEF NetworkTypeOK, OwnersOK, InSlot
<1>3. OnePlace'
  BY <1>0 DEF NetworkTypeOK, OnePlace, Held, Deleted
<1>4. StatesExpected'
  BY <1>0 DEF NetworkTypeOK, StatesExpected, InSlot, ToDelete
<1> QED BY <1>1, <1>2, <1>3, <1>4

LEMMA PutInv == ASSUME NetworkInv, Put PROVE NetworkInv'
<1> USE DEF NetworkInv, Put, GotoC, registering, pool, callers
<1>0. i \in Slots /\ Deleted(i)
  BY DEF NetworkTypeOK, Deleted
<1>1. NetworkTypeOK'
  BY <1>0 DEF NetworkTypeOK
<1>2. OwnersOK'
  <2>1. UNCHANGED <<slot, status, rpc, key, i>> /\ cpc = "put" /\ cpc' = "uncount"
    OBVIOUS
  <2>2. \A k \in Slots : InSlot(k)' <=> InSlot(k)
    BY <2>1 DEF InSlot
  <2>3. OwnersOK
    OBVIOUS
  <2> HIDE DEF NetworkInv, Put, GotoC, registering, pool, callers, Slots
  <2> QED BY ONLY <2>1, <2>2, <2>3 DEF OwnersOK
<1>3. OnePlace'
  BY <1>0 DEF NetworkTypeOK, OnePlace, Held, Deleted
<1>4. StatesExpected'
  BY DEF NetworkTypeOK, StatesExpected, InSlot, ToDelete
<1> QED BY <1>1, <1>2, <1>3, <1>4

LEMMA StepInv == ASSUME NetworkInv, [NetworkNext]_networkVars PROVE NetworkInv'
<1>1. ASSUME NEW t \in Clients, Registering(t) PROVE NetworkInv'
  BY <1>1, RefusedInv, GetSlotInv, OpenInv, AddFailsInv, AddedInv, StoreInv DEF Registering
<1>2. ASSUME NEW t \in Clients, NEW s \in Sessions, Register(t, s) PROVE NetworkInv'
  BY <1>2, RegisterInv
<1>3. CASE \/ \E s \in Sessions : Hangup(s)
           \/ DisconnectAll \/ cancel \/ wait_for_all_session_exit \/ Waiting \/ LeaveWorker
  BY <1>3, CallersQuiet, QuietInv
<1>4. CASE Checker
  BY <1>4, CheckerQuiet, QuietInv, ReadyInv, CloseInv, PutInv DEF Checker, svc_del
<1>5. CASE UNCHANGED networkVars
  BY <1>5 DEF NetworkInv, NetworkTypeOK, OwnersOK, OnePlace, StatesExpected, Held, Deleted, InSlot, ToDelete, networkVars
<1> QED BY <1>1, <1>2, <1>3, <1>4, <1>5 DEF NetworkNext

------------------------------------------------------------------------------
(* The counts.                                                             *)

LEMMA Finite ==
  /\ IsFiniteSet(Lost) /\ Cardinality(Lost) \in Nat
  /\ IsFiniteSet(Used) /\ Cardinality(Used) \in Nat
  /\ IsFiniteSet(Counted) /\ Cardinality(Counted) \in Nat
<1>1. Lost \in SUBSET Slots /\ Used \in SUBSET Slots /\ Counted \in SUBSET Clients
  BY DEF Lost, Used, Counted
<1>2. IsFiniteSet(Lost) /\ IsFiniteSet(Used) /\ IsFiniteSet(Counted)
  BY <1>1, SlotsFinite, FS_Subset
<1> QED BY <1>2, FS_CardinalityType

(* A slot is lost when epoll_ctl fails, and at no other step.              *)
LEMMA LostStep ==
  ASSUME NetworkInv, [NetworkNext]_networkVars
  PROVE  \/ Lost' = Lost /\ calls'["fail"] = calls["fail"]
         \/ \E k \in Slots \ Lost : Lost' = Lost \cup {k} /\ calls'["fail"] = calls["fail"] + 1
<1> USE DEF NetworkInv, checking, registering, pool, callers
<1>1. ASSUME NEW t \in Clients, Registering(t)
      PROVE  \/ Lost' = Lost /\ calls'["fail"] = calls["fail"]
             \/ \E k \in Slots \ Lost :
                  Lost' = Lost \cup {k} /\ calls'["fail"] = calls["fail"] + 1
  <2>1. CASE Refused(t) \/ Add(t) \/ CountUp(t) \/ Reset(t) \/ Open(t)
    <3>1. UNCHANGED <<available, slot, calls, cpc, i>> /\ \A u \in Clients, k \in Slots : Held(u, k)' <=> Held(u, k)
      BY <2>1 DEF Refused, Add, CountUp, Reset, Open, GotoR, EndRegister, Held, NetworkTypeOK
    <3> QED BY <3>1 DEF Lost, Deleted
  <2>2. CASE GetSlot(t)
    <3>1. PICK k \in available :
            /\ available' = available \ {k}
            /\ \/ rpc' = [rpc EXCEPT ![t] = "open"] /\ n' = [n EXCEPT ![t] = k] /\ slot[k] = NoSession
               \/ slot[k] # NoSession /\ rpc' = [rpc EXCEPT ![t] = "out"] /\ n' = [n EXCEPT ![t] = 0]
      BY <2>2 DEF GetSlot, Without, EndRegister
    <3>2. rpc[t] = "slot" /\ UNCHANGED <<slot, calls, cpc, i>>
      BY <2>2 DEF GetSlot
    <3>3. k \in Slots /\ ~Deleted(k) /\ \A u \in Clients : ~Held(u, k)
      BY DEF OnePlace, NetworkTypeOK
    <3>4. \A u \in Clients, l \in Slots : u # t => (Held(u, l)' <=> Held(u, l))
      BY <3>1 DEF Held, NetworkTypeOK
    <3>5. \A l \in Slots : ~Held(t, l) /\ (Deleted(l)' <=> Deleted(l))
      BY <3>2 DEF Held, Deleted
    <3>6. CASE slot[k] = NoSession
      <4>1. \A l \in Slots : Held(t, l)' <=> l = k
        BY <3>1, <3>3, <3>6 DEF Held, NetworkTypeOK
      <4>2. \A l \in Slots : l \in Lost' <=> l \in Lost
        BY <3>1, <3>2, <3>3, <3>4, <3>5, <4>1 DEF Lost
      <4> QED BY <3>2, <4>2 DEF Lost
    <3>7. CASE slot[k] # NoSession
      BY <3>3, <3>7 DEF OnePlace
    <3> QED BY <3>6, <3>7
  <2>3. CASE Store(t)
    BY <2>3 DEF Store, EndRegister, Held, Deleted, Lost, OnePlace, NetworkTypeOK
  <2>4. CASE AddFails(t)
    <3>1. n[t] \in Slots \ Lost
      BY <2>4 DEF AddFails, Held, Lost, NetworkTypeOK, Opened
    <3>2. Lost' = Lost \cup {n[t]}
      BY <2>4, <3>1 DEF AddFails, EndRegister, Held, Deleted, Lost, OnePlace, NetworkTypeOK
    <3>3. calls'["fail"] = calls["fail"] + 1
      BY <2>4 DEF AddFails, NetworkTypeOK
    <3> QED BY <3>1, <3>2, <3>3
  <2> QED BY <1>1, <2>1, <2>2, <2>3, <2>4 DEF Registering
<1>2. ASSUME NEW t \in Clients, NEW s \in Sessions, Register(t, s)
      PROVE  Lost' = Lost /\ calls'["fail"] = calls["fail"]
  BY <1>2 DEF Register, GotoR, Held, Deleted, Lost, NetworkTypeOK
<1>3. ASSUME Aside PROVE Lost' = Lost
  BY <1>3 DEF Aside, Held, Deleted, Lost
<1>4. CASE \/ \E s \in Sessions : Hangup(s)
           \/ DisconnectAll \/ cancel \/ wait_for_all_session_exit \/ Waiting \/ LeaveWorker
  <2>1. calls'["fail"] = calls["fail"]
    BY <1>4 DEF Hangup, DisconnectAll, cancel, wait_for_all_session_exit, Waiting, SeeCanClose,
       TimeOut, test_canceled, CancelPool, WaitOver, LeaveWorker, NetworkTypeOK
  <2> QED BY <1>3, <1>4, <2>1, CallersQuiet
<1>5. CASE Checker
  <2>1. UNCHANGED calls
    BY <1>5 DEF Checker, svc_del, Pass, Leave, Look, LookAndDelete, MakeReady, Close, Put, Uncount,
       SetCanClose, NoCommand, GetCommand, Handle
  <2>2. CASE MakeReady \/ Put
    BY <2>1, <2>2 DEF MakeReady, Put, GotoC, Held, Deleted, Lost, OnePlace, NetworkTypeOK
  <2>3. CASE Close
    BY <2>1, <2>3 DEF Close, Cleared, GotoC, Held, Deleted, Lost, OnePlace, StatesExpected, NetworkTypeOK
  <2> QED BY <1>3, <1>5, <2>1, <2>2, <2>3, CheckerQuiet DEF Checker, svc_del
<1>6. CASE UNCHANGED networkVars
  BY <1>6 DEF networkVars, Lost, Held, Deleted
<1> QED BY <1>1, <1>2, <1>4, <1>5, <1>6 DEF NetworkNext

LEMMA SlotsStep == ASSUME NetworkInv, SlotsKept, [NetworkNext]_networkVars PROVE SlotsKept'
<1>1. NetworkInv'
  BY StepInv
<1>2. Cardinality(Lost') = calls'["fail"]
  <2>1. CASE Lost' = Lost /\ calls'["fail"] = calls["fail"]
    BY <2>1 DEF SlotsKept
  <2>2. ASSUME NEW k \in Slots \ Lost, Lost' = Lost \cup {k}, calls'["fail"] = calls["fail"] + 1
        PROVE  Cardinality(Lost') = calls'["fail"]
    <3>1. Cardinality(Lost) = calls["fail"] /\ k \notin Lost
      BY <2>2 DEF SlotsKept
    <3>2. Cardinality(Lost \cup {k}) = Cardinality(Lost) + 1
      BY <3>1, Finite, FS_AddElement
    <3> QED BY <2>2, <3>1, <3>2
  <2> QED BY <2>1, <2>2, LostStep
<1> QED BY <1>1, <1>2 DEF NetworkInv, OnePlace, SlotsKept

Hands == IF cpc \in {"put", "uncount"} THEN 1 ELSE 0

LEMMA CountStep == ASSUME NetworkInv, CountKept, [NetworkNext]_networkVars PROVE CountKept'
<1> DEFINE Sum == Cardinality(Used) + Cardinality(Counted) + Hands
<1> USE DEF NetworkInv, checking, registering, pool, callers
<1>0. /\ CountKept <=> count = Sum
      /\ CountKept' <=> count' = Sum'
      /\ count \in Int /\ Sum \in Nat
      /\ Cardinality(Used) \in Nat /\ Cardinality(Counted) \in Nat /\ Hands \in Nat
  BY Finite DEF CountKept, Hands, NetworkTypeOK
<1>1. ASSUME UNCHANGED <<count, slot, cpc>>, \A t \in Clients : rpc'[t] \in {"reset", "store"} <=> rpc[t] \in {"reset", "store"}
      PROVE  CountKept'
  BY <1>1 DEF CountKept, Used, Counted
<1>2. ASSUME NEW t \in Clients, Registering(t) PROVE CountKept'
  <2>1. CASE Refused(t) \/ GetSlot(t) \/ Open(t) \/ Add(t) \/ AddFails(t) \/ Reset(t)
    BY <1>1, <2>1 DEF Refused, GetSlot, Open, Add, AddFails, Reset, GotoR, EndRegister, NetworkTypeOK
  <2>2. CASE CountUp(t)
    <3>1. t \notin Counted /\ Counted' = Counted \cup {t} /\ UNCHANGED <<Used, Hands>>
      BY <2>2 DEF CountUp, GotoR, Counted, Used, Hands, NetworkTypeOK
    <3>2. Cardinality(Counted') = Cardinality(Counted) + 1
      BY <3>1, Finite, FS_AddElement
    <3>3. count' = count + 1
      BY <2>2 DEF CountUp
    <3> QED BY <1>0, <3>1, <3>2, <3>3
  <2>3. CASE Store(t)
    <3>1. t \in Counted /\ Counted' = Counted \ {t} /\ UNCHANGED <<count, Hands>>
      BY <2>3 DEF Store, EndRegister, Counted, Hands, NetworkTypeOK
    <3>2. n[t] \notin Used /\ Used' = Used \cup {n[t]}
      BY <2>3 DEF Store, Used, NetworkTypeOK, OnePlace, Held, Opened
    <3>3. Cardinality(Counted') = Cardinality(Counted) - 1
      BY <3>1, Finite, FS_RemoveElement
    <3>4. Cardinality(Used') = Cardinality(Used) + 1
      BY <3>2, Finite, FS_AddElement
    <3> QED BY <1>0, <3>1, <3>3, <3>4
  <2> QED BY <1>2, <2>1, <2>2, <2>3 DEF Registering
<1>3. ASSUME NEW t \in Clients, NEW s \in Sessions, Register(t, s) PROVE CountKept'
  BY <1>1, <1>3 DEF Register, GotoR, NetworkTypeOK
<1>4. CASE \/ \E s \in Sessions : Hangup(s)
           \/ DisconnectAll \/ cancel \/ wait_for_all_session_exit \/ Waiting \/ LeaveWorker
  BY <1>1, <1>4 DEF Hangup, DisconnectAll, cancel, wait_for_all_session_exit, Waiting,
     SeeCanClose, TimeOut, test_canceled, CancelPool, WaitOver, LeaveWorker
<1>5. ASSUME UNCHANGED <<count, slot, rpc>>, Hands' = Hands PROVE CountKept'
  <2>1. UNCHANGED <<Used, Counted>>
    BY <1>5 DEF Used, Counted
  <2> QED BY <1>0, <1>5, <2>1
<1>6. CASE Checker
  <2>1. CASE \/ Pass \/ Leave \/ Look \/ LookAndDelete \/ NoCommand \/ GetCommand \/ Handle
             \/ MakeReady \/ Put \/ SetCanClose
    BY <1>5, <2>1 DEF Pass, Leave, Look, LookAndDelete, NoCommand, GetCommand, Handle, MakeReady, Put,
       SetCanClose, GotoC, NextSlot, Hands
  <2>2. CASE Close
    <3>1. i \in Used /\ Used' = Used \ {i}
      BY <2>2 DEF Close, Cleared, Used, StatesExpected, NetworkTypeOK
    <3>2. UNCHANGED <<count, Counted>> /\ Hands' = Hands + 1
      BY <2>2 DEF Close, GotoC, Counted, Hands
    <3>3. Cardinality(Used') = Cardinality(Used) - 1
      BY <3>1, Finite, FS_RemoveElement
    <3> QED BY <1>0, <3>2, <3>3
  <2>3. CASE Uncount
    <3>1. count' = count - 1 /\ Hands' = Hands - 1
      BY <2>3 DEF Uncount, GotoC, NextSlot, Hands
    <3>2. UNCHANGED <<Used, Counted>>
      BY <2>3 DEF Uncount, Used, Counted
    <3> QED BY <1>0, <3>1, <3>2
  <2> QED BY <1>6, <2>1, <2>2, <2>3 DEF Checker, svc_del
<1>7. CASE UNCHANGED networkVars
  BY <1>1, <1>7 DEF networkVars
<1> QED BY <1>2, <1>3, <1>4, <1>6, <1>7 DEF NetworkNext

------------------------------------------------------------------------------
(* All of it is invariant: the values of the variables, who owns a session,*)
(* the slots, the counter and the states.                                  *)
THEOREM PoolCorrect == NetworkSpec => []PoolInv
<1>1. NetworkInit => PoolInv
  BY InitInv
<1>2. PoolInv /\ [NetworkNext]_networkVars => PoolInv'
  <2> SUFFICES ASSUME PoolInv, [NetworkNext]_networkVars PROVE PoolInv'
    OBVIOUS
  <2>1. NetworkInv
    BY DEF PoolInv, NetworkInv, SlotsKept, OnePlace
  <2> QED BY <2>1, StepInv, SlotsStep, CountStep DEF PoolInv, NetworkInv
<1> QED BY <1>1, <1>2, PTL DEF NetworkSpec

(* No slot of the pool is in two places, none is lost but by a failure of  *)
(* epoll_ctl (iocp1.cpp:31-42, 57-63, 324-325).                            *)
THEOREM KeepsSlots == NetworkSpec => []SlotsKept
  BY PoolCorrect, PTL DEF PoolInv

(* nSessionCount is exact (iocp1.cpp:67-72, 324-327).                      *)
THEOREM KeepsCount == NetworkSpec => []CountKept
  BY PoolCorrect, PTL DEF PoolInv

(* The assertions of svc_del hold and "Unexpected Session state" is never  *)
(* logged (iocp1.cpp:209-211, 311-312).                                    *)
THEOREM ExpectsStates == NetworkSpec => []StatesExpected
  BY PoolCorrect, PTL DEF PoolInv

HIDE NetworkPoolAssumption DEF Slots, Calls

------------------------------------------------------------------------------
(* Session.                                                                *)

USE SessionAssumption DEF Threads

Places == {"idle", "count", "arm", "look", "mod", "wait", "recv", "received", "again", "send", "sent"}

TypeOK ==
  /\ put \in Seq(Buffers) /\ sendq \in Seq(Buffers) /\ wire \in Seq(Buffers)
  /\ hand \in Buffers \cup {None} /\ tmp \in Buffers \cup {None}
  /\ left \in [Buffers -> Nat]
  /\ pc \in [Threads -> Places] /\ ret \in [Threads -> Places]

(* How many buffers have left lkfq_send, of those put.                     *)
Got == Len(put) - Len(sendq)

(* lkfq_send holds the buffers put last, in the order they were put.       *)
QueueOK ==
  /\ Len(sendq) <= Len(put)
  /\ \A j \in 1 .. Len(sendq) : sendq[j] = put[Got + j]
  /\ \A j, k \in 1 .. Len(put) : put[j] = put[k] => j = k

IsGot(b) == \E j \in 1 .. Got : b = put[j]

(* The buffer that HandleSend works on is the one that left the queue      *)
(* last, or a refused one; after its first piece it is not interrupted, or *)
(* it was refused.                                                         *)
HandOK ==
  hand # None =>
    /\ pc[Worker] = "send" /\ IsGot(hand)
    /\ hand \notin refused =>
         /\ state = "ok" => hand = put[Got]
         /\ \A p, q \in 1 .. Len(wire) : p < q /\ wire[p] = hand => wire[q] = hand

TmpOK == tmp # None => tmp \in refused /\ IsGot(tmp)

WireOK == \A p \in 1 .. Len(wire) : IsGot(wire[p])

Inv == TypeOK /\ QueueOK /\ HandOK /\ TmpOK /\ WireOK

(* The parts of InOrder.                                                   *)
Pieces == \A b \in Buffers : Cardinality({p \in DOMAIN wire : wire[p] = b}) = Size[b] - left[b]
Order  == \A p, q \in DOMAIN wire : p < q /\ IsBefore(wire[q], wire[p]) => wire[q] \in refused
Whole  == \A p, q, r \in DOMAIN wire :
            p < q /\ q < r /\ wire[p] = wire[r] /\ wire[q] # wire[p] => wire[p] \in refused

LEMMA Lengths ==
  ASSUME TypeOK
  PROVE  /\ Len(put) \in Nat /\ Len(sendq) \in Nat /\ Len(wire) \in Nat
         /\ DOMAIN put = 1 .. Len(put) /\ DOMAIN wire = 1 .. Len(wire)
         /\ Got \in Int
  BY DEF TypeOK, Got

------------------------------------------------------------------------------
(* The steps, by what they do to the buffers.                              *)

(* A step that has nothing to do with them: the worker, if it has a buffer *)
(* in hand, stays in HandleSend.                                           *)
Quiet ==
  /\ UNCHANGED <<state, put, sendq, wire, left, refused, tmp, hand>>
  /\ pc' \in [Threads -> Places] /\ ret' \in [Threads -> Places]
  /\ pc'[Worker] = pc[Worker] \/ pc[Worker] # "send"

LEMMA CallQuiet == ASSUME TypeOK, NEW t \in Threads, Call(t) PROVE Quiet
<1>1. CASE Count(t)
  BY <1>1 DEF Count, Step, Return, Quiet, TypeOK, Places, history
<1>2. CASE Arm(t)
  BY <1>2 DEF Arm, Step, Return, Quiet, TypeOK, Places
<1>3. CASE ArmRecv(t)
  BY <1>3 DEF ArmRecv, Step, Return, Quiet, TypeOK, Places, history
<1>4. CASE Modify(t)
  BY <1>4 DEF Modify, Return, Quiet, TypeOK, Places, history
<1> QED BY <1>1, <1>2, <1>3, <1>4 DEF Call

LEMMA ReadQuiet ==
  ASSUME TypeOK, NoRequest \/ Read \/ ReceiveAgain \/ (\E t \in Callers : AsyncRecv(t))
  PROVE  Quiet
<1>1. CASE NoRequest \/ Read
  BY <1>1 DEF NoRequest, Read, At, Goto, Quiet, TypeOK, Places, history
<1>2. CASE ReceiveAgain
  BY <1>2 DEF ReceiveAgain, Recv, At, Quiet, TypeOK, Places, history
<1>3. ASSUME NEW t \in Callers, AsyncRecv(t) PROVE Quiet
  BY <1>3 DEF AsyncRecv, Recv, Quiet, TypeOK, Places, history
<1> QED BY <1>1, <1>2, <1>3

LEMMA OtherQuiet ==
  ASSUME TypeOK, Drain \/ Arrive \/ DrainRecv \/ UNCHANGED vars
  PROVE  Quiet
  BY DEF Drain, Arrive, DrainRecv, vars, Quiet, TypeOK, history

(* A thread puts a buffer; the worker has none in hand when it does.       *)
Puts(t, b) ==
  /\ b \in Buffers /\ b \notin ToSet(put)
  /\ put' = Append(put, b) /\ sendq' = Append(sendq, b)
  /\ UNCHANGED <<state, wire, left, refused, tmp, hand>>
  /\ pc' \in [Threads -> Places] /\ ret' \in [Threads -> Places]
  /\ pc'[Worker] = pc[Worker] \/ pc[Worker] # "send"

LEMMA SendPuts ==
  ASSUME TypeOK, NEW t \in Threads, NEW b \in Buffers, NEW back \in Places, Send(t, b, back),
         t # Worker \/ pc[Worker] # "send", UNCHANGED <<state, tmp, hand, left>>
  PROVE  Puts(t, b)
  BY DEF Send, Puts, TypeOK, Places

(* HandleSend lets go of its buffer.                                       *)
Drops ==
  /\ hand' = None /\ UNCHANGED <<state, put, sendq, wire, left, refused, tmp, ret>>
  /\ pc' \in [Threads -> Places]

LEMMA Steps ==
  ASSUME TypeOK, [Next]_vars
  PROVE  \/ Quiet \/ Drops \/ Fetch \/ GetSend \/ SendPiece \/ Again
         \/ Disconnect \/ DrainSend
         \/ \E t \in Threads, b \in Buffers : Puts(t, b)
         \/ NothingToSend
<1>1. ASSUME NEW t \in Callers, NEW b \in Buffers, AsyncSend(t, b) PROVE Puts(t, b)
  BY <1>1, SendPuts DEF AsyncSend, Places
<1>2. ASSUME OnRecvCompleted PROVE Quiet \/ \E b \in Buffers : Puts(Worker, b)
  <2>1. CASE Recv(Worker, "wait")
    BY <1>2, <2>1 DEF OnRecvCompleted, Recv, At, Quiet, TypeOK, Places, history
  <2>2. ASSUME NEW b \in Buffers, Send(Worker, b, "again") PROVE Puts(Worker, b)
    BY <1>2, <2>2, SendPuts DEF OnRecvCompleted, At, Places
  <2> QED BY <1>2, <2>1, <2>2 DEF OnRecvCompleted
<1>3. ASSUME OnSendCompleted PROVE Quiet \/ \E b \in Buffers : Puts(Worker, b)
  <2>1. CASE Goto("send") /\ UNCHANGED <<sendq, recvq, flag, new, ret, history>>
    BY <1>3, <2>1 DEF OnSendCompleted, Goto, At, Quiet, TypeOK, Places, history
  <2>2. ASSUME NEW b \in Buffers, Send(Worker, b, "send") PROVE Puts(Worker, b)
    BY <1>3, <2>2, SendPuts DEF OnSendCompleted, At, Places
  <2> QED BY <1>3, <2>1, <2>2 DEF OnSendCompleted
<1>4. ASSUME Sent \/ SendFails PROVE Drops
  BY <1>4 DEF Sent, SendFails, Goto, Drops, TypeOK, Places, history
<1> QED BY <1>1, <1>2, <1>3, <1>4, CallQuiet, ReadQuiet, OtherQuiet DEF Next, Work

------------------------------------------------------------------------------
(* The invariant.                                                          *)

All == Inv /\ Pieces /\ Order /\ Whole

LEMMA SameGot ==
  ASSUME UNCHANGED <<put, sendq>>
  PROVE  Got' = Got /\ \A b : IsGot(b)' <=> IsGot(b)
  BY DEF Got, IsGot

(* The parts of InOrder when nothing is sent.                              *)
LEMMA SameWire ==
  ASSUME Pieces, Order, Whole, UNCHANGED <<wire, left>>, refused \subseteq refused',
         \A p, q \in DOMAIN wire : IsBefore(wire[q], wire[p])' => IsBefore(wire[q], wire[p])
  PROVE  Pieces' /\ Order' /\ Whole'
<1>1. Pieces'
  BY DEF Pieces
<1>2. Order'
  BY DEF Order
<1>3. Whole'
  BY DEF Whole
<1> QED BY <1>1, <1>2, <1>3

LEMMA QuietStep == ASSUME All, Quiet \/ Drops \/ NothingToSend PROVE All'
<1>1. /\ UNCHANGED <<put, sendq, wire, left, refused, tmp>>
      /\ pc' \in [Threads -> Places] /\ ret' \in [Threads -> Places]
      /\ \/ hand' = None
         \/ hand' = hand /\ state' = state /\ (pc'[Worker] = pc[Worker] \/ pc[Worker] # "send")
  BY DEF Quiet, Drops, NothingToSend, Goto, All, Inv, TypeOK, Places, history
<1>2. TypeOK'
  BY <1>1 DEF All, Inv, TypeOK
<1>3. QueueOK'
  BY <1>1, SameGot DEF All, Inv, QueueOK
<1>4. HandOK'
  BY <1>1, SameGot DEF All, Inv, HandOK
<1>5. TmpOK'
  BY <1>1, SameGot DEF All, Inv, TmpOK
<1>6. WireOK'
  BY <1>1, SameGot DEF All, Inv, WireOK
<1>7. Pieces' /\ Order' /\ Whole'
  BY <1>1, SameWire DEF All, IsBefore
<1> QED BY <1>2, <1>3, <1>4, <1>5, <1>6, <1>7 DEF All, Inv

LEMMA PutsStep == ASSUME All, NEW t \in Threads, NEW b \in Buffers, Puts(t, b) PROVE All'
<1> USE DEF All, Inv
<1>1. /\ Len(put) \in Nat /\ Len(sendq) \in Nat /\ Len(sendq) <= Len(put)
      /\ put' \in Seq(Buffers) /\ sendq' \in Seq(Buffers)
      /\ Len(put') = Len(put) + 1 /\ Len(sendq') = Len(sendq) + 1
      /\ \A j \in 1 .. Len(put') : put'[j] = IF j = Len(put) + 1 THEN b ELSE put[j]
      /\ \A j \in 1 .. Len(sendq') : sendq'[j] = IF j = Len(sendq) + 1 THEN b ELSE sendq[j]
  BY DEF Puts, TypeOK, QueueOK
<1>2. Got' = Got /\ Got \in Nat /\ Got <= Len(put)
  BY <1>1 DEF Got
<1>3. \A j \in 1 .. Len(put) : put[j] # b
  <2>1. DOMAIN put = 1 .. Len(put)
    BY Lengths
  <2>2. \A j \in DOMAIN put : put[j] \in ToSet(put)
    BY DEF ToSet
  <2> QED BY <2>1, <2>2 DEF Puts
<1>4. \A c : IsGot(c)' <=> IsGot(c)
  <2>1. \A j \in 1 .. Got : put'[j] = put[j]
    BY <1>1, <1>2
  <2> QED BY <1>2, <2>1 DEF IsGot
<1>5. \A c : IsGot(c) => c # b
  BY <1>1, <1>2, <1>3 DEF IsGot
<1>6. TypeOK'
  BY <1>1 DEF Puts, TypeOK
<1>7. QueueOK'
  <2>1. \A j \in 1 .. Len(sendq') : sendq'[j] = put'[Got' + j]
    <3> SUFFICES ASSUME NEW j \in 1 .. Len(sendq') PROVE sendq'[j] = put'[Got + j]
      BY <1>2
    <3>1. CASE j = Len(sendq) + 1
      <4>1. Got + j = Len(put) + 1
        BY <1>1, <3>1 DEF Got
      <4> QED BY <1>1, <3>1, <4>1
    <3>2. CASE j \in 1 .. Len(sendq)
      <4>1. Got + j \in 1 .. Len(put)
        BY <1>1, <1>2, <3>2 DEF Got
      <4>2. sendq'[j] = sendq[j]
        BY <1>1, <3>2
      <4>3. put'[Got + j] = put[Got + j]
        BY SMTT(30), <1>1, <4>1
      <4> QED BY <3>2, <4>2, <4>3 DEF QueueOK
    <3> QED BY <1>1, <3>1, <3>2
  <2>2. \A j, k \in 1 .. Len(put') : put'[j] = put'[k] => j = k
    <3>1. \A j \in 1 .. Len(put') : j = Len(put) + 1 \/ j \in 1 .. Len(put)
      BY <1>1
    <3> QED BY ZenonT(30), <1>1, <1>3, <3>1 DEF QueueOK
  <2> QED BY <1>1, <2>1, <2>2 DEF QueueOK
<1>8. HandOK'
  <2>1. Got \in 1 .. Len(put) => put'[Got] = put[Got]
    BY <1>1
  <2>2. IsGot(hand) => Got \in 1 .. Len(put)
    BY <1>1, <1>2 DEF IsGot
  <2> QED BY <1>2, <1>4, <2>1, <2>2 DEF Puts, HandOK
<1>9. TmpOK'
  BY <1>4 DEF Puts, TmpOK
<1>10. WireOK'
  BY <1>4 DEF Puts, WireOK
<1>11. \A c, d : c # b /\ d # b /\ IsBefore(c, d)' => IsBefore(c, d)
  <2> SUFFICES ASSUME NEW c, NEW d, c # b, d # b, IsBefore(c, d)' PROVE IsBefore(c, d)
    OBVIOUS
  <2>1. DOMAIN put' = 1 .. Len(put') /\ DOMAIN put = 1 .. Len(put)
    BY <1>1, Lengths
  <2>2. PICK p, q \in DOMAIN put' : p < q /\ put'[p] = c /\ put'[q] = d
    BY DEF IsBefore
  <2>3. p \in 1 .. Len(put) /\ q \in 1 .. Len(put) /\ put[p] = c /\ put[q] = d
    BY SMTT(30), <1>1, <2>1, <2>2
  <2> QED BY <2>1, <2>2, <2>3 DEF IsBefore
<1>12. Pieces' /\ Order' /\ Whole'
  <2>1. \A p \in DOMAIN wire : wire[p] # b
    BY <1>5, Lengths DEF WireOK
  <2> QED BY <1>11, <2>1, SameWire DEF Puts
<1> QED BY <1>6, <1>7, <1>8, <1>9, <1>10, <1>12

LEMMA DisconnectStep == ASSUME All, Disconnect PROVE All'
<1> USE DEF All, Inv
<1>1. state' = "disconnect" /\ UNCHANGED <<put, sendq, wire, left, refused, tmp, hand, pc, ret>>
  BY DEF Disconnect, history
<1>2. TypeOK'
  BY <1>1 DEF TypeOK
<1>3. QueueOK'
  BY <1>1, SameGot DEF QueueOK
<1>4. HandOK'
  BY <1>1, SameGot DEF HandOK
<1>5. TmpOK' /\ WireOK'
  BY <1>1, SameGot DEF TmpOK, WireOK
<1>6. Pieces' /\ Order' /\ Whole'
  BY <1>1, SameWire DEF IsBefore
<1> QED BY <1>2, <1>3, <1>4, <1>5, <1>6

(* What leaves lkfq_send, be it sent or dropped by Disconnect.             *)
LEMMA Leaves ==
  ASSUME TypeOK, QueueOK, sendq # <<>>, sendq' = Tail(sendq), put' = put
  PROVE  /\ sendq' \in Seq(Buffers) /\ Head(sendq) \in Buffers
         /\ Got' = Got + 1 /\ Got \in Nat /\ Got + 1 \in 1 .. Len(put)
         /\ Head(sendq) = put[Got + 1]
         /\ QueueOK'
         /\ \A b : IsGot(b) => IsGot(b)' /\ b # Head(sendq)
         /\ \E j \in 1 .. Got' : Head(sendq) = put[j]
<1>1. /\ Len(put) \in Nat /\ Len(sendq) \in Nat \ {0} /\ Len(sendq) <= Len(put)
      /\ sendq' \in Seq(Buffers) /\ Len(sendq') = Len(sendq) - 1
      /\ Head(sendq) = sendq[1] /\ sendq[1] \in Buffers
      /\ \A j \in 1 .. Len(sendq') : sendq'[j] = sendq[j + 1]
  BY SMTT(30) DEF TypeOK, QueueOK
<1>2. Got' = Got + 1 /\ Got \in Nat /\ Got + 1 \in 1 .. Len(put) /\ sendq[1] = put[Got + 1]
  BY <1>1 DEF Got, QueueOK
<1>3. QueueOK'
  <2> SUFFICES ASSUME NEW j \in 1 .. Len(sendq') PROVE sendq'[j] = put[Got' + j]
    BY <1>1 DEF QueueOK
  <2>1. j + 1 \in 1 .. Len(sendq)
    BY <1>1
  <2>2. Got + (j + 1) = Got' + j
    BY <1>2
  <2>3. sendq'[j] = sendq[j + 1] /\ sendq[j + 1] = put[Got + (j + 1)]
    BY <1>1, <2>1 DEF QueueOK
  <2> QED BY <2>2, <2>3
<1>4. \A b : IsGot(b) => IsGot(b)'
  BY <1>2 DEF IsGot
<1>5. (\E j \in 1 .. Got' : sendq[1] = put[j]) /\ \A b : IsGot(b) => b # sendq[1]
  BY <1>2 DEF IsGot, QueueOK
<1> QED BY <1>1, <1>2, <1>3, <1>4, <1>5

(* Disconnect empties lkfq_send only when the state is no longer ok.       *)
ShutOK == draining # "no" => state # "ok"

LEMMA ShutStep == ASSUME ShutOK, [Next]_vars PROVE ShutOK'
<1>1. ASSUME NEW t \in Threads, Call(t) PROVE UNCHANGED <<state, draining>>
  BY <1>1 DEF Call, Count, Arm, ArmRecv, Modify
<1>2. ASSUME NEW t \in Callers, AsyncRecv(t) \/ \E b \in Buffers : AsyncSend(t, b)
      PROVE  UNCHANGED <<state, draining>>
  BY <1>2 DEF AsyncRecv, AsyncSend
<1>3. CASE Work
  <2>1. UNCHANGED <<state, draining>>
    BY <1>1, <1>3 DEF Work, Fetch, NoRequest, Read, OnRecvCompleted, ReceiveAgain, GetSend,
       NothingToSend, SendPiece, Sent, OnSendCompleted, Again, SendFails
  <2> QED BY <2>1 DEF ShutOK
<1>4. CASE Disconnect \/ DrainRecv \/ DrainSend \/ Drain \/ Arrive
  BY <1>4 DEF Disconnect, DrainRecv, DrainSend, Drain, Arrive, ShutOK
<1> QED BY <1>1, <1>2, <1>3, <1>4 DEF Next, vars, ShutOK

LEMMA DrainStep == ASSUME All, ShutOK, DrainSend PROVE All'
<1> USE DEF All, Inv
<1>1. state # "ok" /\ UNCHANGED <<state, put, wire, left, refused, tmp, hand, pc, ret>>
  BY DEF DrainSend, ShutOK, history
<1>2. CASE sendq = <<>>
  <2>1. sendq' = sendq
    BY <1>2 DEF DrainSend
  <2>2. Quiet
    BY <1>1, <2>1 DEF Quiet, TypeOK
  <2> QED BY <2>2, QuietStep
<1>3. CASE sendq # <<>>
  <2>1. sendq' = Tail(sendq)
    BY <1>3 DEF DrainSend
  <2>2. TypeOK' /\ QueueOK'
    BY <1>1, <1>3, <2>1, Leaves DEF TypeOK
  <2>3. HandOK' /\ TmpOK' /\ WireOK'
    BY <1>1, <1>3, <2>1, Leaves DEF HandOK, TmpOK, WireOK
  <2>4. Pieces' /\ Order' /\ Whole'
    BY <1>1, SameWire DEF IsBefore
  <2> QED BY <2>2, <2>3, <2>4
<1> QED BY <1>2, <1>3

(* HandleSend begins with tmp_send; the worker had no buffer in hand.      *)
LEMMA FetchStep == ASSUME All, Fetch PROVE All'
<1> USE DEF All, Inv
<1>1. /\ hand = None /\ UNCHANGED <<state, put, sendq, wire, left, refused, ret>>
      /\ pc' \in [Threads -> Places]
  BY DEF Fetch, At, Goto, Handler, HandOK, TypeOK, Places, history
<1>2. \/ UNCHANGED <<tmp, hand>>
      \/ hand' = tmp /\ tmp' = None /\ pc'[Worker] = "send"
  BY DEF Fetch
<1>3. TypeOK'
  BY <1>1, <1>2 DEF TypeOK
<1>4. QueueOK'
  BY <1>1, SameGot DEF QueueOK
<1>5. HandOK'
  BY <1>1, <1>2, SameGot DEF HandOK, TmpOK
<1>6. TmpOK'
  BY <1>1, <1>2, SameGot DEF TmpOK
<1>7. WireOK'
  BY <1>1, SameGot DEF WireOK
<1>8. Pieces' /\ Order' /\ Whole'
  BY <1>1, SameWire DEF IsBefore
<1> QED BY <1>3, <1>4, <1>5, <1>6, <1>7, <1>8

(* The next buffer is one of which the socket has seen nothing.            *)
LEMMA GetStep == ASSUME All, GetSend PROVE All'
<1> USE DEF All, Inv
<1>1. /\ pc[Worker] = "send" /\ hand = None /\ sendq # <<>>
      /\ hand' = Head(sendq) /\ sendq' = Tail(sendq)
      /\ UNCHANGED <<state, put, wire, left, refused, tmp, pc, ret>>
  BY DEF GetSend, At, history
<1>2. TypeOK' /\ QueueOK'
  BY <1>1, Leaves DEF TypeOK
<1>3. HandOK'
  <2>1. \A p \in 1 .. Len(wire) : wire[p] # hand'
    BY <1>1, Leaves DEF WireOK
  <2>2. IsGot(hand)' /\ hand' = put'[Got']
    BY <1>1, Leaves DEF IsGot
  <2> QED BY <1>1, <2>1, <2>2 DEF HandOK
<1>4. TmpOK' /\ WireOK'
  BY <1>1, Leaves DEF TmpOK, WireOK
<1>5. Pieces' /\ Order' /\ Whole'
  BY <1>1, SameWire DEF IsBefore
<1> QED BY <1>2, <1>3, <1>4, <1>5

LEMMA AgainStep == ASSUME All, Again PROVE All'
<1> USE DEF All, Inv
<1>1. /\ hand # None /\ tmp' = hand /\ hand' = None /\ refused' = refused \cup {hand}
      /\ UNCHANGED <<state, put, sendq, wire, pc, ret>>
  BY DEF Again
<1>2. left' = left
  BY DEF Again, Rest, TypeOK
<1>3. TypeOK'
  BY <1>1, <1>2 DEF TypeOK
<1>4. QueueOK'
  BY <1>1, SameGot DEF QueueOK
<1>5. HandOK' /\ TmpOK'
  BY <1>1, SameGot DEF HandOK, TmpOK
<1>6. WireOK'
  BY <1>1, SameGot DEF WireOK
<1>7. Pieces' /\ Order' /\ Whole'
  BY <1>1, <1>2, SameWire DEF IsBefore
<1> QED BY <1>3, <1>4, <1>5, <1>6, <1>7

(* The socket takes k bytes of the buffer in hand.                         *)
LEMMA PieceStep == ASSUME All, SendPiece PROVE All'
<1> USE DEF All, Inv
<1>1. PICK k \in 1 .. Window :
        /\ k <= left[hand] /\ left' = [left EXCEPT ![hand] = @ - k]
        /\ wire' = wire \o [j \in 1 .. k |-> hand]
  BY DEF SendPiece
<1>2. /\ hand # None /\ state = "ok" /\ hand \in Buffers
      /\ UNCHANGED <<state, put, sendq, refused, tmp, hand, pc, ret>>
  BY DEF SendPiece, TypeOK
<1>3. /\ k \in Nat \ {0} /\ Len(wire) \in Nat
      /\ wire' \in Seq(Buffers) /\ Len(wire') = Len(wire) + k
      /\ \A p \in 1 .. Len(wire') : wire'[p] = IF p <= Len(wire) THEN wire[p] ELSE hand
      /\ DOMAIN wire = 1 .. Len(wire) /\ DOMAIN wire' = 1 .. Len(wire')
  <2>1. [j \in 1 .. k |-> hand] \in Seq(Buffers) /\ Len([j \in 1 .. k |-> hand]) = k
    BY <1>2
  <2>2. k \in Nat \ {0} /\ Len(wire) \in Nat /\ wire \in Seq(Buffers)
    BY DEF TypeOK
  <2> QED BY <1>1, <2>1, <2>2
<1>4. left' \in [Buffers -> Nat]
  BY <1>1, <1>2, <1>3 DEF TypeOK
<1>5. IsGot(hand) /\ (hand \notin refused => hand = put[Got])
  BY <1>2 DEF HandOK
<1>6. TypeOK'
  BY <1>2, <1>3, <1>4 DEF TypeOK
<1>7. QueueOK'
  BY <1>2, SameGot DEF QueueOK
<1>8. HandOK'
  <2>1. ASSUME hand \notin refused, NEW p \in 1 .. Len(wire'), NEW q \in 1 .. Len(wire'),
               p < q, wire'[p] = hand
        PROVE  wire'[q] = hand
    BY <1>2, <1>3, <2>1 DEF HandOK
  <2> QED BY <1>2, <2>1, SameGot DEF HandOK
<1>9. TmpOK'
  BY <1>2, SameGot DEF TmpOK
<1>10. \A p \in 1 .. Len(wire') : IsGot(wire'[p])
  BY <1>3, <1>5 DEF WireOK
<1>11. WireOK'
  BY <1>2, <1>10, SameGot DEF WireOK
<1>12. Pieces'
  <2> SUFFICES ASSUME NEW b \in Buffers
               PROVE  Cardinality({p \in DOMAIN wire' : wire'[p] = b}) = Size[b] - left'[b]
    BY DEF Pieces
  <2> DEFINE Old == {p \in DOMAIN wire : wire[p] = b}
             New == {p \in DOMAIN wire' : wire'[p] = b}
             Piece == (Len(wire) + 1) .. (Len(wire) + k)
  <2>1. IsFiniteSet(Old) /\ Cardinality(Old) = Size[b] - left[b]
    <3>0. IsFiniteSet(1 .. Len(wire))
      <4>1. Len(wire) \in Int
        BY <1>3
      <4> QED BY <4>1, FS_Interval
    <3>1. Old \in SUBSET (1 .. Len(wire)) /\ IsFiniteSet(1 .. Len(wire))
      BY <1>3, <3>0
    <3>2. IsFiniteSet(Old)
      BY <3>1, FS_Subset
    <3> QED BY <3>2 DEF Pieces
  <2>2. Cardinality(Old) \in Nat
    BY <2>1, FS_CardinalityType
  <2>3. CASE b # hand
    <3>1. New = Old
      BY <1>3, <2>3
    <3>2. left'[b] = left[b]
      BY <1>1, <2>3 DEF TypeOK
    <3> QED BY <2>1, <3>1, <3>2
  <2>4. CASE b = hand
    <3>1. New = Old \cup Piece /\ Old \cap Piece = {}
      BY <1>3, <2>4
    <3>2. IsFiniteSet(Piece) /\ Cardinality(Piece) = k
      <4>1. Len(wire) + 1 \in Int /\ Len(wire) + k \in Int /\ Len(wire) + 1 <= Len(wire) + k
        BY <1>3
      <4>2. /\ IsFiniteSet(Piece)
            /\ Cardinality(Piece) = IF Len(wire) + 1 > Len(wire) + k THEN 0
                                    ELSE (Len(wire) + k) - (Len(wire) + 1) + 1
        BY <4>1, FS_Interval
      <4> HIDE DEF Piece
      <4> QED BY SMTT(30), <1>3, <4>2
    <3>3. left'[b] = left[b] - k /\ left[b] \in Nat /\ Size[b] \in Nat
      BY <1>1, <2>4 DEF TypeOK
    <3> HIDE DEF Old, New, Piece
    <3>4. Cardinality(Old \cup Piece) = Cardinality(Old) + Cardinality(Piece) - Cardinality(Old \cap Piece)
      BY <2>1, <3>2, FS_Union
    <3>5. Cardinality(Old \cap Piece) = 0
      BY <3>1, FS_EmptySet
    <3>6. Cardinality(New) = Cardinality(Old) + k
      BY <1>3, <2>2, <3>1, <3>2, <3>4, <3>5
    <3>7. Cardinality(New) = Size[b] - left'[b]
      BY <1>3, <2>1, <2>2, <3>3, <3>6
    <3> QED BY <3>7 DEF New
  <2> QED BY <2>3, <2>4
<1>13. Order'
  <2> SUFFICES ASSUME NEW p \in 1 .. Len(wire'), NEW q \in 1 .. Len(wire'), p < q,
                      IsBefore(wire'[q], wire'[p])
               PROVE  wire'[q] \in refused
    BY <1>2, <1>3 DEF Order, IsBefore
  <2>1. CASE q <= Len(wire)
    <3>1. p \in DOMAIN wire /\ q \in DOMAIN wire /\ wire'[p] = wire[p] /\ wire'[q] = wire[q]
      BY <1>3, <2>1
    <3> QED BY <3>1 DEF Order
  <2>2. CASE q > Len(wire)
    <3>1. wire'[q] = hand
      BY <1>3, <2>2
    <3>2. PICK x, j \in 1 .. Len(put) : x < j /\ put[x] = hand /\ put[j] = wire'[p]
      BY <3>1, Lengths DEF IsBefore
    <3>3. PICK l \in 1 .. Got : wire'[p] = put[l]
      BY <1>10 DEF IsGot
    <3>4. Got \in 1 .. Len(put) /\ l \in 1 .. Len(put) /\ l <= Got
      BY <3>3, Lengths DEF Got, QueueOK
    <3>5. l = j
      BY <3>2, <3>3, <3>4 DEF QueueOK
    <3>6. x # Got
      BY <3>2, <3>4, <3>5
    <3>7. hand # put[Got]
      BY <3>2, <3>4, <3>6 DEF QueueOK
    <3> QED BY <1>5, <3>1, <3>7
  <2> QED BY <1>3, <2>1, <2>2
<1>14. Whole'
  <2> SUFFICES ASSUME NEW p \in 1 .. Len(wire'), NEW q \in 1 .. Len(wire'),
                      NEW r \in 1 .. Len(wire'),
                      p < q, q < r, wire'[p] = wire'[r], wire'[q] # wire'[p]
               PROVE  wire'[p] \in refused
    BY <1>2, <1>3 DEF Whole
  <2>1. CASE r <= Len(wire)
    <3>1. p <= Len(wire) /\ q <= Len(wire)
      BY <1>3, <2>1
    <3>2. p \in DOMAIN wire /\ q \in DOMAIN wire /\ r \in DOMAIN wire
      BY <1>3, <2>1, <3>1
    <3>3. wire'[p] = wire[p] /\ wire'[q] = wire[q] /\ wire'[r] = wire[r]
      BY <1>3, <2>1, <3>1
    <3> QED BY <3>2, <3>3 DEF Whole
  <2>2. CASE r > Len(wire)
    <3>1. wire'[r] = hand
      BY <1>3, <2>2
    <3>2. p \in 1 .. Len(wire) /\ q \in 1 .. Len(wire) /\ wire[p] = hand /\ wire[q] # hand
      BY <1>3, <3>1
    <3> QED BY <1>2, <3>1, <3>2 DEF HandOK
  <2> QED BY <1>3, <2>1, <2>2
<1> QED BY <1>6, <1>7, <1>8, <1>9, <1>11, <1>12, <1>13, <1>14

LEMMA Initially == Init => All
<1> SUFFICES ASSUME Init PROVE All
  OBVIOUS
<1>1. Len(put) = 0 /\ Len(sendq) = 0 /\ Len(wire) = 0 /\ DOMAIN wire = {}
  BY DEF Init
<1>2. TypeOK
  BY DEF Init, TypeOK, Places
<1>3. QueueOK /\ HandOK /\ TmpOK /\ WireOK /\ Order /\ Whole
  BY <1>1 DEF Init, QueueOK, HandOK, TmpOK, WireOK, Order, Whole
<1>4. Pieces
  <2> SUFFICES ASSUME NEW b \in Buffers
               PROVE  Cardinality({p \in DOMAIN wire : wire[p] = b}) = Size[b] - left[b]
    BY DEF Pieces
  <2>1. {p \in DOMAIN wire : wire[p] = b} = {}
    BY <1>1
  <2>2. left[b] = Size[b] /\ Size[b] \in Nat
    BY DEF Init
  <2>3. Cardinality({}) = 0
    BY FS_EmptySet
  <2> QED BY <2>1, <2>2, <2>3
<1> QED BY <1>2, <1>3, <1>4 DEF All, Inv

(* The inductive invariant: what lkfq_send, tmp_send and HandleSend hold,  *)
(* and what the socket took (iocp1.cpp:527-615, session_tcp.cpp:63-96).    *)
THEOREM SessionCorrect == Spec => [](All /\ ShutOK)
<1>1. All /\ ShutOK /\ [Next]_vars => All' /\ ShutOK'
  BY Steps, ShutStep, QuietStep, PutsStep, DisconnectStep, DrainStep, FetchStep, GetStep,
     AgainStep, PieceStep DEF All, Inv
<1>2. Init => ShutOK
  BY DEF Init, ShutOK
<1> QED BY <1>1, <1>2, Initially, PTL DEF Spec

(* The socket gets the bytes that were put, each once and in order, but    *)
(* for the buffers it has refused (iocp1.cpp:535-615).                     *)
THEOREM SendsInOrder == Spec => []InOrder
<1>1. All => InOrder
  BY DEF All, Pieces, Order, Whole, InOrder
<1> QED BY <1>1, SessionCorrect, PTL
==============================================================================
