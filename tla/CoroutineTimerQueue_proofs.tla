--------------------- MODULE CoroutineTimerQueue_proofs ----------------------
(***************************************************************************)
(* Coroutines: the switch invariant, for any threads and any coroutines of *)
(* which one thread spawns, and the refinement of the one-step switch.     *)
(* Timers: for any timers, clients and workers the hand-counted references *)
(* of the ITimers are exact, and what a cancel() stopped does not run.     *)
(***************************************************************************)
EXTENDS Coroutine, TimerQueue, FiniteSetTheorems, TLAPS

------------------------------------------------------------------------------
(* Coroutine.                                                              *)

SwitchIInv == TypeOK /\ SwitchInv

LEMMA InitInv == CoroutineInit => SwitchIInv
<1> SUFFICES ASSUME CoroutineInit PROVE SwitchIInv
  OBVIOUS
<1> USE CoroutineAssumption DEF CoroutineInit, Every
<1>1. TypeOK
  BY DEF TypeOK, Labels
<1>2. ClaimsOK
  BY DEF ClaimsOK, Claims, Switching
<1>3. SwitchOK
  BY DEF SwitchOK, Switching
<1>4. StacksOK
  BY DEF StacksOK
<1> QED BY <1>1, <1>2, <1>3, <1>4 DEF SwitchIInv, SwitchInv

(* A step that switches nothing keeps the claims.                          *)
LEMMA ClaimsFrame ==
  ASSUME ClaimsOK, UNCHANGED <<this, last>>,
         \A u \in Threads : /\ Switching(u)' = Switching(u)
                            /\ Switching(u) => callee'[u] = callee[u],
         \A c \in Every : (state'[c] = "running") <=> (state[c] = "running")
  PROVE  ClaimsOK'
<1>1. \A u \in Threads : Claims(u)' = Claims(u)
  <2> SUFFICES ASSUME NEW u \in Threads PROVE Claims(u)' = Claims(u)
    OBVIOUS
  <2>1. CASE Switching(u)
    BY <2>1 DEF Claims
  <2>2. CASE ~Switching(u)
    BY <2>2 DEF Claims
  <2> QED BY <2>1, <2>2
<1>2. \A t, u \in Threads : t # u => Claims(t)' \cap Claims(u)' = {}
  BY <1>1 DEF ClaimsOK
<1>3. \A c \in Every : (state'[c] = "running") <=> (\E t \in Threads : c \in Claims(t)')
  BY <1>1 DEF ClaimsOK
<1>4. \A t, u \in Threads : u \in Claims(t)' \/ last'[t] = u => t = u
  BY <1>1 DEF ClaimsOK
<1> QED BY <1>2, <1>3, <1>4 DEF ClaimsOK

LEMMA SpawnInv == ASSUME SwitchIInv, NEW t \in Threads, NEW c \in Coroutines, spawn(t, c) PROVE SwitchIInv'
<1> USE DEF SwitchIInv, SwitchInv, spawn, Goto, shared, own
<1>1. TypeOK'
  BY DEF TypeOK, Labels, Every
<1>2. ClaimsOK'
  BY ClaimsFrame DEF Switching, TypeOK
<1>3. SwitchOK'
  BY DEF SwitchOK, Switching, TypeOK
<1>4. StacksOK'
  BY DEF StacksOK, TypeOK
<1> QED BY <1>1, <1>2, <1>3, <1>4

LEMMA AllocateInv == ASSUME SwitchIInv, NEW t \in Threads, Allocate(t) PROVE SwitchIInv'
<1> USE DEF SwitchIInv, SwitchInv, Allocate, Goto, own
<1>0. callee[t] \in Coroutines /\ nsp[callee[t]] = "none" /\ state[callee[t]] = "stopped"
  BY DEF StacksOK, Every
<1>1. TypeOK'
  BY <1>0, CoroutineAssumption DEF TypeOK, Labels, Every
<1>2. ClaimsOK'
  BY ClaimsFrame DEF Switching, TypeOK
<1>3. SwitchOK'
  BY DEF SwitchOK, Switching, TypeOK
<1>4. StacksOK'
  <2>1. \A c \in Every : /\ (nsp'[c] = "in_use") <=> (\E u \in Threads : stack'[u] = c)
                         /\ nsp'[c] = "none" => state'[c] = "stopped"
    BY <1>0 DEF StacksOK, TypeOK
  <2>2. \A u \in Threads : pc[u] \in {"init", "exchange"} => u = t
    BY OneSpawner DEF StacksOK
  <2>3. \A u \in Threads :
          /\ pc'[u] \in {"init", "exchange"} => u \in Spawners /\ callee'[u] \in Coroutines
          /\ pc'[u] = "init" => nsp'[callee'[u]] = "none"
          /\ pc'[u] = "exchange" => nsp'[callee'[u]] # "none"
    BY <1>0, <2>2 DEF StacksOK, TypeOK, Every
  <2> QED BY <2>1, <2>3 DEF StacksOK
<1> QED BY <1>1, <1>2, <1>3, <1>4

LEMMA AllocateFailsInv == ASSUME SwitchIInv, NEW t \in Threads, AllocateFails(t) PROVE SwitchIInv'
<1> USE DEF SwitchIInv, SwitchInv, AllocateFails, Goto, Done, own, shared
<1>1. TypeOK'
  BY DEF TypeOK, Labels
<1>2. ClaimsOK'
  BY ClaimsFrame DEF Switching, TypeOK
<1>3. SwitchOK'
  BY DEF SwitchOK, Switching, TypeOK
<1>4. StacksOK'
  BY DEF StacksOK, TypeOK
<1> QED BY <1>1, <1>2, <1>3, <1>4

LEMMA ExchangeInv == ASSUME SwitchIInv, NEW t \in Threads, Exchange(t) PROVE SwitchIInv'
<1> USE DEF SwitchIInv, SwitchInv, Exchange, Goto, Done, own, Spawned
<1>0. callee[t] \in Coroutines /\ nsp[callee[t]] # "none"
  BY DEF StacksOK
<1>1. TypeOK'
  BY <1>0, CoroutineAssumption DEF TypeOK, Labels, Every
<1>2. ClaimsOK'
  BY <1>0, ClaimsFrame DEF Switching, TypeOK, Every
<1>3. SwitchOK'
  BY DEF SwitchOK, Switching, TypeOK
<1>4. StacksOK'
  <2>1. \A c \in Every : /\ (nsp'[c] = "in_use") <=> (\E u \in Threads : stack'[u] = c)
                         /\ nsp'[c] = "none" => state'[c] = "stopped"
    BY <1>0 DEF StacksOK, TypeOK
  <2>2. \A u \in Threads :
          /\ pc'[u] \in {"init", "exchange"} => u \in Spawners /\ callee'[u] \in Coroutines
          /\ pc'[u] = "init" => nsp'[callee'[u]] = "none"
          /\ pc'[u] = "exchange" => nsp'[callee'[u]] # "none"
    BY DEF StacksOK, TypeOK
  <2> QED BY <2>1, <2>2 DEF StacksOK
<1> QED BY <1>1, <1>2, <1>3, <1>4
(* The claim of a paused callee, which nobody else can have claimed.       *)
LEMMA ClaimKeeps ==
  ASSUME SwitchIInv, NEW t \in Threads, NEW d \in Coroutines \cup {t}, pc[t] = "user",
         state[d] = "paused", Claim(t, this[t], d), UNCHANGED this,
         last' \in [Threads -> Every \cup {NULL}],
         \A u \in Threads \ {t} : last'[u] = last[u],
         last'[t] \in {this[t], NULL}
  PROVE  ClaimsOK'
<1> USE DEF SwitchIInv, SwitchInv, Claim, Goto
<1> USE CoroutineAssumption DEF Every
<1>0. Claims(t) = {this[t]} /\ Claims(t)' = {this[t], d}
  BY DEF Claims, Switching, TypeOK
<1>1. \A u \in Threads \ {t} : Claims(u)' = Claims(u)
  BY DEF Claims, Switching, TypeOK
<1>2. \A u \in Threads : d \notin Claims(u)
  BY DEF ClaimsOK
<1>3. \A u, v \in Threads : u # v => Claims(u)' \cap Claims(v)' = {}
  BY <1>0, <1>1, <1>2 DEF ClaimsOK
<1>4. \A c \in Every : (state'[c] = "running") <=> (\E u \in Threads : c \in Claims(u)')
  <2> SUFFICES ASSUME NEW c \in Every
               PROVE  (state'[c] = "running") <=> (\E u \in Threads : c \in Claims(u)')
    OBVIOUS
  <2>1. CASE c = d
    BY <2>1, <1>0 DEF TypeOK
  <2>2. CASE c # d
    <3>1. state'[c] = state[c]
      BY <2>2 DEF TypeOK
    <3>2. \A u \in Threads : c \in Claims(u)' <=> c \in Claims(u)
      BY <2>2, <1>0, <1>1
    <3> QED BY <3>1, <3>2 DEF ClaimsOK
  <2> QED BY <2>1, <2>2
<1>5. \A u, v \in Threads : v \in Claims(u)' \/ last'[u] = v => u = v
  BY <1>0, <1>1 DEF ClaimsOK
<1> QED BY <1>3, <1>4, <1>5 DEF ClaimsOK

(* The stacks while a callee is claimed.                                   *)
LEMMA ClaimStacks ==
  ASSUME SwitchIInv, NEW t \in Threads, NEW d \in Coroutines \cup {t}, pc[t] = "user",
         Claim(t, this[t], d), UNCHANGED <<nsp, stack>>
  PROVE  StacksOK'
<1> USE DEF SwitchIInv, SwitchInv, Claim, Goto
<1>1. \A c \in Every : /\ (nsp'[c] = "in_use") <=> (\E u \in Threads : stack'[u] = c)
                       /\ nsp'[c] = "none" => state'[c] = "stopped"
  BY DEF StacksOK, TypeOK, Every
<1>2. \A u \in Threads :
        /\ pc'[u] \in {"init", "exchange"} => u \in Spawners /\ callee'[u] \in Coroutines
        /\ pc'[u] = "init" => nsp'[callee'[u]] = "none"
        /\ pc'[u] = "exchange" => nsp'[callee'[u]] # "none"
  BY DEF StacksOK, TypeOK
<1> QED BY <1>1, <1>2 DEF StacksOK

LEMMA YieldInv ==
  ASSUME SwitchIInv, NEW t \in Threads, NEW d \in Coroutines \cup {t}, NEW x \in Extras \cup {NULL},
         yield(t, d, x)
  PROVE  SwitchIInv'
<1> USE DEF SwitchIInv, SwitchInv, yield
<1>1. TypeOK'
  BY CoroutineAssumption DEF TypeOK, Labels, Every, Claim, Goto
<1>2. ClaimsOK'
  <2>1. /\ state[d] = "paused" /\ UNCHANGED this /\ last' \in [Threads -> Every \cup {NULL}]
        /\ \A u \in Threads \ {t} : last'[u] = last[u]
        /\ last'[t] \in {this[t], NULL}
    BY DEF TypeOK, Claim
  <2> QED BY <2>1, ClaimKeeps
<1>3. SwitchOK'
  BY CoroutineAssumption DEF SwitchOK, Switching, TypeOK, Claim, Goto, Every
<1>4. StacksOK'
  BY ClaimStacks
<1> QED BY <1>1, <1>2, <1>3, <1>4

(* Its own thread's main coroutine, or none but a coroutine, is last.      *)
LEMMA LastTarget ==
  ASSUME SwitchIInv, NEW t \in Threads, last[t] # NULL PROVE last[t] \in Coroutines \cup {t}
BY DEF SwitchIInv, SwitchInv, ClaimsOK, TypeOK, Every

LEMMA ReturnInv == ASSUME SwitchIInv, NEW t \in Threads, Return(t) PROVE SwitchIInv'
<1> USE DEF SwitchIInv, SwitchInv, Return
<1>0. stack[t] = this[t]
  BY DEF SwitchOK
<1>1. TypeOK'
  BY CoroutineAssumption DEF TypeOK, Labels, Every, Claim, Goto
<1>2. ClaimsOK'
  <2>1. /\ state[t] = "paused" /\ UNCHANGED this /\ last' \in [Threads -> Every \cup {NULL}]
        /\ \A u \in Threads \ {t} : last'[u] = last[u]
        /\ last'[t] \in {this[t], NULL}
    BY DEF TypeOK, Claim
  <2> QED BY <1>0, <2>1, ClaimKeeps
<1>3. SwitchOK'
  BY <1>0, CoroutineAssumption DEF SwitchOK, Switching, TypeOK, Claim, Goto, Every
<1>4. StacksOK'
  BY <1>0, ClaimStacks
<1> QED BY <1>1, <1>2, <1>3, <1>4

LEMMA SwapInv == ASSUME SwitchIInv, NEW t \in Threads, Swap(t) PROVE SwitchIInv'
<1> USE DEF SwitchIInv, SwitchInv, Swap, Goto, own
<1> DEFINE left == IF void[t] = NULL THEN this[t] ELSE void[t]
<1>0. /\ left = this[t] /\ stack[t] = this[t]
      /\ callee[t] \in Every /\ callee[t] # this[t]
      /\ void[t] # NULL => this[t] \in Coroutines
  BY CoroutineAssumption DEF SwitchOK, Switching, TypeOK, Every
<1>00. nsp' = [nsp EXCEPT ![this[t]] = Saved(t), ![callee[t]] = "in_use"]
  BY <1>0
<1> HIDE DEF left
<1>1. TypeOK'
  <2>1. nsp' \in [Every -> {"none", "top", "inside", "in_use"}]
    BY <1>00 DEF TypeOK, Saved
  <2>2. \A u \in Threads : nsp'[u] \in {"inside", "in_use"}
    BY <1>0, <1>00, CoroutineAssumption DEF TypeOK, Saved, Every
  <2> QED BY <2>1, <2>2, <1>0 DEF TypeOK, Labels
<1>2. ClaimsOK'
  BY ClaimsFrame DEF Switching, TypeOK
<1>3. SwitchOK'
  BY DEF SwitchOK, Switching, TypeOK
<1>4. StacksOK'
  <2>1. \A c \in Every : (nsp'[c] = "in_use") <=> (\E u \in Threads : stack'[u] = c)
    <3> SUFFICES ASSUME NEW c \in Every
                 PROVE  (nsp'[c] = "in_use") <=> (\E u \in Threads : stack'[u] = c)
      OBVIOUS
    <3>0. stack' = [stack EXCEPT ![t] = callee[t]]
      OBVIOUS
    <3>1. CASE c = callee[t]
      BY <3>0, <3>1, <1>0, <1>00 DEF TypeOK
    <3>2. CASE c = this[t]
      <4>1. nsp'[c] # "in_use"
        BY <3>2, <1>0, <1>00 DEF TypeOK, Saved
      <4>2. \A u \in Threads \ {t} : stack[u] # this[t]
        <5> SUFFICES ASSUME NEW u \in Threads \ {t} PROVE stack[u] # this[t]
          OBVIOUS
        <5>1. stack[u] \in Claims(u) /\ this[t] \in Claims(t)
          BY DEF SwitchOK, Claims, Switching
        <5> QED BY <5>1 DEF ClaimsOK
      <4> QED BY <3>0, <3>2, <4>1, <4>2, <1>0 DEF TypeOK
    <3>3. CASE c # callee[t] /\ c # this[t]
      BY <3>0, <3>3, <1>0, <1>00 DEF TypeOK, StacksOK
    <3> QED BY <3>1, <3>2, <3>3
  <2>2. \A c \in Every : nsp'[c] = "none" => state'[c] = "stopped"
    BY <1>00 DEF StacksOK, TypeOK, Saved
  <2>3. \A u \in Threads : pc'[u] \in {"init", "exchange"} =>
          /\ pc[u] = pc'[u] /\ callee[u] \in Coroutines /\ u \in Spawners
          /\ nsp[callee[u]] = "none" => nsp'[callee[u]] = "none"
          /\ nsp[callee[u]] # "none" => nsp'[callee[u]] # "none"
    <3> SUFFICES ASSUME NEW u \in Threads, pc'[u] \in {"init", "exchange"}
                 PROVE  /\ pc[u] = pc'[u] /\ callee[u] \in Coroutines /\ u \in Spawners
                        /\ nsp[callee[u]] = "none" => nsp'[callee[u]] = "none"
                        /\ nsp[callee[u]] # "none" => nsp'[callee[u]] # "none"
      OBVIOUS
    <3>1. pc[u] = pc'[u] /\ callee[u] \in Coroutines /\ u \in Spawners
      BY DEF TypeOK, StacksOK
    <3>2. nsp[this[t]] # "none" /\ nsp[callee[t]] # "none"
      <4>1. this[t] \in Claims(t) /\ callee[t] \in Claims(t)
        BY DEF Claims, Switching
      <4>2. state[this[t]] = "running" /\ state[callee[t]] = "running"
        BY <4>1, <1>0 DEF ClaimsOK, TypeOK
      <4> QED BY <4>2, <1>0 DEF StacksOK, TypeOK
    <3> QED BY <3>1, <3>2, <1>0, <1>00 DEF TypeOK, Saved, Every
  <2>4. \A u \in Threads :
          /\ pc'[u] \in {"init", "exchange"} => u \in Spawners /\ callee'[u] \in Coroutines
          /\ pc'[u] = "init" => nsp'[callee'[u]] = "none"
          /\ pc'[u] = "exchange" => nsp'[callee'[u]] # "none"
    <3>1. callee' = callee
      OBVIOUS
    <3>2. \A u \in Threads : pc[u] = "init" => nsp[callee[u]] = "none"
      BY DEF StacksOK
    <3>3. \A u \in Threads : pc[u] = "exchange" => nsp[callee[u]] # "none"
      BY DEF StacksOK
    <3> HIDE DEF Swap, SwitchIInv, SwitchInv
    <3> QED BY <3>1, <3>2, <3>3, <2>3
  <2> QED BY <2>1, <2>2, <2>4 DEF StacksOK
<1> QED BY <1>1, <1>2, <1>3, <1>4

(* The caller is given up: it is paused, or stopped, and nobody claims it. *)
LEMMA Phase2Inv == ASSUME SwitchIInv, NEW t \in Threads, Phase2(t) PROVE SwitchIInv'
<1> USE DEF SwitchIInv, SwitchInv, Phase2, Goto, Done, GiveUp
<1>0. /\ pc[t] = "landed" /\ stack[t] = callee[t]
      /\ callee[t] \in Every /\ this[t] \in Every /\ callee[t] # this[t]
      /\ \/ last[t] = this[t] /\ void[t] = NULL
         \/ last[t] = NULL /\ void[t] = this[t] /\ callee[t] = t
  BY DEF SwitchOK, Switching, TypeOK
<1>1. PICK s \in {"paused", "stopped"} :
        /\ state' = [state EXCEPT ![this[t]] = s]
        /\ s = "stopped" => this[t] \in Coroutines /\ last[t] = NULL
        /\ void' = [void EXCEPT ![t] = NULL]
  <2>1. CASE last[t] # NULL
    <3>1. void' = [void EXCEPT ![t] = NULL]
      BY <2>1, <1>0 DEF TypeOK
    <3>2. state' = [state EXCEPT ![this[t]] = "paused"]
      BY <2>1, <1>0
    <3> QED BY <3>1, <3>2
  <2>2. CASE last[t] = NULL
    <3>1. /\ void[t] = this[t] /\ void[t] # NULL
          /\ state' = [state EXCEPT ![this[t]] = "stopped"]
          /\ void' = [void EXCEPT ![t] = NULL]
      BY <2>2, <1>0, CoroutineAssumption
    <3> QED BY <2>2, <3>1 DEF TypeOK
  <2> QED BY <2>1, <2>2
<1>2. /\ this' = [this EXCEPT ![t] = callee[t]]
      /\ pc' = [pc EXCEPT ![t] = "user"]
      /\ callee' = [callee EXCEPT ![t] = NULL]
      /\ arg' = [arg EXCEPT ![t] = NULL]
      /\ UNCHANGED <<nsp, extra, last, stack>>
  BY <1>0
<1> HIDE DEF Phase2, GiveUp, Done, Goto
<1>3. TypeOK'
  BY <1>0, <1>1, <1>2, CoroutineAssumption DEF TypeOK, Labels, Every
<1>4. ClaimsOK'
  <2>1. /\ Claims(t) = {this[t], callee[t]} /\ Claims(t)' = {callee[t]}
        /\ \A u \in Threads \ {t} : Claims(u)' = Claims(u)
    BY <1>0, <1>2 DEF Claims, Switching, TypeOK
  <2>2. \A u, v \in Threads : u # v => Claims(u)' \cap Claims(v)' = {}
    BY <2>1 DEF ClaimsOK
  <2>3. \A c \in Every : (state'[c] = "running") <=> (\E u \in Threads : c \in Claims(u)')
    <3> SUFFICES ASSUME NEW c \in Every
                 PROVE  (state'[c] = "running") <=> (\E u \in Threads : c \in Claims(u)')
      OBVIOUS
    <3>1. CASE c = this[t]
      <4>1. state'[c] # "running"
        BY <3>1, <1>0, <1>1 DEF TypeOK
      <4>2. \A u \in Threads \ {t} : c \notin Claims(u)
        BY <3>1, <2>1 DEF ClaimsOK
      <4> QED BY <4>1, <4>2, <2>1, <3>1, <1>0
    <3>2. CASE c # this[t]
      <4>1. state'[c] = state[c]
        BY <3>2, <1>1 DEF TypeOK
      <4>2. \A u \in Threads : c \in Claims(u)' <=> c \in Claims(u)
        BY <3>2, <2>1
      <4> QED BY <4>1, <4>2 DEF ClaimsOK
    <3> QED BY <3>1, <3>2
  <2>4. \A u, v \in Threads : v \in Claims(u)' \/ last'[u] = v => u = v
    BY <2>1, <1>2 DEF ClaimsOK
  <2> QED BY <2>2, <2>3, <2>4 DEF ClaimsOK
<1>5. SwitchOK'
  BY <1>0, <1>1, <1>2 DEF SwitchOK, Switching, TypeOK
<1>6. StacksOK'
  <2>1. \A c \in Every : (nsp'[c] = "in_use") <=> (\E u \in Threads : stack'[u] = c)
    BY <1>2 DEF StacksOK
  <2>2. \A c \in Every : nsp'[c] = "none" => state'[c] = "stopped"
    <3>1. state[this[t]] = "running"
      BY <1>0 DEF ClaimsOK, Claims
    <3> QED BY <1>0, <1>1, <1>2, <3>1 DEF StacksOK, TypeOK
  <2>3. \A u \in Threads :
          /\ pc'[u] \in {"init", "exchange"} => u \in Spawners /\ callee'[u] \in Coroutines
          /\ pc'[u] = "init" => nsp'[callee'[u]] = "none"
          /\ pc'[u] = "exchange" => nsp'[callee'[u]] # "none"
    BY <1>2 DEF StacksOK, TypeOK
  <2> QED BY <2>1, <2>2, <2>3 DEF StacksOK
<1> QED BY <1>3, <1>4, <1>5, <1>6

(* Every step of the system keeps the invariant.                           *)
LEMMA SwitchStep == ASSUME SwitchIInv, [CoroutineNext]_coroutineVars PROVE SwitchIInv'
<1>1. CASE CoroutineNext
  <2> PICK t \in Threads :
        \/ \E c \in Coroutines : spawn(t, c)
        \/ Allocate(t) \/ AllocateFails(t) \/ Exchange(t)
        \/ \E x \in Extras \cup {NULL} :
             yield_main(t, x) \/ yield_last(t, x) \/ \E d \in Coroutines : yield(t, d, x)
        \/ Return(t) \/ Swap(t) \/ Phase2(t)
    BY <1>1 DEF CoroutineNext
  <2>1. CASE \E c \in Coroutines : spawn(t, c)
    BY <2>1, SpawnInv
  <2>2. CASE Allocate(t) \/ AllocateFails(t) \/ Exchange(t)
    BY <2>2, AllocateInv, AllocateFailsInv, ExchangeInv
  <2>3. CASE \E x \in Extras \cup {NULL} :
               yield_main(t, x) \/ yield_last(t, x) \/ \E d \in Coroutines : yield(t, d, x)
    <3> PICK x \in Extras \cup {NULL} :
          yield_main(t, x) \/ yield_last(t, x) \/ \E d \in Coroutines : yield(t, d, x)
      BY <2>3
    <3>1. CASE yield_main(t, x)
      BY <3>1, YieldInv DEF yield_main
    <3>2. CASE yield_last(t, x)
      BY <3>2, YieldInv, LastTarget DEF yield_last
    <3>3. CASE \E d \in Coroutines : yield(t, d, x)
      BY <3>3, YieldInv
    <3> QED BY <3>1, <3>2, <3>3
  <2>4. CASE Return(t) \/ Swap(t) \/ Phase2(t)
    BY <2>4, ReturnInv, SwapInv, Phase2Inv
  <2> QED BY <2>1, <2>2, <2>3, <2>4
<1>2. CASE UNCHANGED coroutineVars
  <2> USE <1>2 DEF coroutineVars, SwitchIInv, SwitchInv
  <2>1. TypeOK'
    BY DEF TypeOK
  <2>2. ClaimsOK'
    BY ClaimsFrame DEF Switching
  <2>3. SwitchOK'
    BY DEF SwitchOK, Switching
  <2>4. StacksOK'
    BY DEF StacksOK
  <2> QED BY <2>1, <2>2, <2>3, <2>4
<1> QED BY <1>1, <1>2

(* The state of the threads and of their coroutines always agree, whatever *)
(* the two phases of their switches interleave to.                         *)
THEOREM SwitchCorrect == CoroutineSpec => [](TypeOK /\ SwitchInv)
<1>1. CoroutineInit => SwitchIInv
  BY InitInv
<1>2. SwitchIInv /\ [CoroutineNext]_coroutineVars => SwitchIInv'
  BY SwitchStep
<1> QED BY <1>1, <1>2, PTL DEF CoroutineSpec, SwitchIInv

(* No coroutine is on two threads, no stack is resumed before it is saved, *)
(* no assertion of a switch fails, and the main coroutine can be claimed.  *)
LEMMA InvImplies == SwitchIInv => Asserted /\ StackSaved /\ OneThreadEach /\ MainWaits
<1> SUFFICES ASSUME SwitchIInv PROVE Asserted /\ StackSaved /\ OneThreadEach /\ MainWaits
  OBVIOUS
<1> USE DEF SwitchIInv, SwitchInv
<1>1. Asserted
  <2>1. \A t \in Threads : this[t] \in Every /\ this[t] \in Claims(t)
    BY DEF Claims, TypeOK
  <2>2. \A t \in Threads : state[this[t]] = "running"
    BY <2>1 DEF ClaimsOK
  <2>3. \A t \in Threads : pc[t] = "landed" => (last[t] = NULL) # (void[t] = NULL)
    <3> SUFFICES ASSUME NEW t \in Threads, pc[t] = "landed"
                 PROVE  (last[t] = NULL) # (void[t] = NULL)
      OBVIOUS
    <3>1. this[t] # NULL
      BY CoroutineAssumption DEF TypeOK
    <3>2. \/ last[t] # NULL /\ void[t] = NULL
          \/ last[t] = NULL /\ void[t] # NULL
      BY <3>1 DEF SwitchOK, Switching
    <3> QED BY <3>2
  <2> QED BY <2>2, <2>3 DEF Asserted
<1>2. OneThreadEach
  <2>1. \A t \in Threads : this[t] \in Claims(t) /\ stack[t] \in Claims(t)
    BY DEF Claims, Switching, SwitchOK
  <2>2. \A t, u \in Threads : t # u => this[t] # this[u] /\ stack[t] # stack[u]
    BY <2>1 DEF ClaimsOK
  <2> QED BY <2>2 DEF OneThreadEach, SwitchOK
<1>3. StackSaved
  <2> SUFFICES ASSUME NEW t \in Threads, pc[t] = "swap"
               PROVE  nsp[callee[t]] \in {"top", "inside"}
    BY DEF StackSaved
  <2>1. callee[t] \in Every /\ callee[t] # this[t] /\ stack[t] = this[t] /\ callee[t] \in Claims(t)
    BY DEF SwitchOK, Switching, Claims
  <2>2. \A u \in Threads : stack[u] # callee[t]
    <3>1. \A u \in Threads : stack[u] \in Claims(u)
      BY DEF Claims, Switching, SwitchOK
    <3> QED BY <3>1, <2>1 DEF ClaimsOK
  <2>3. state[callee[t]] = "running"
    BY <2>1 DEF ClaimsOK
  <2> QED BY <2>1, <2>2, <2>3 DEF StacksOK, TypeOK
<1>4. MainWaits
  <2> SUFFICES ASSUME NEW t \in Threads, pc[t] = "user", stack[t] \in Coroutines
               PROVE  state[t] = "paused"
    BY DEF MainWaits
  <2>1. t \notin Claims(t)
    BY CoroutineAssumption DEF SwitchOK, Claims, Switching
  <2>2. state[t] # "running"
    BY <2>1 DEF ClaimsOK, Every
  <2> QED BY <2>2 DEF TypeOK, Every
<1> QED BY <1>1, <1>2, <1>3, <1>4

(* At most one thread is on a coroutine, and this_coroutine() is right.    *)
THEOREM OneThread == CoroutineSpec => []OneThreadEach
BY SwitchCorrect, InvImplies, PTL DEF SwitchIInv

(* A stack is resumed only after it was saved.                             *)
THEOREM Saves == CoroutineSpec => []StackSaved
BY SwitchCorrect, InvImplies, PTL DEF SwitchIInv

(* The switch never meets the cases that the code asserts or logs.         *)
THEOREM NeverAsserts == CoroutineSpec => []Asserted
BY SwitchCorrect, InvImplies, PTL DEF SwitchIInv

(* The main coroutine of a thread can be claimed when svc returns.         *)
THEOREM MainResumable == CoroutineSpec => []MainWaits
BY SwitchCorrect, InvImplies, PTL DEF SwitchIInv
------------------------------------------------------------------------------
(* The switch implements the interface.                                    *)

(* Where the mapping puts a coroutine.                                     *)
LEMMA PlaceIs ==
  ASSUME OneThreadEach
  PROVE  /\ \A t \in Threads : Place(this[t]) = t
         /\ \A c : (\A t \in Threads : this[t] # c)
                     => Place(c) = IF state[c] = "stopped" THEN "stopped" ELSE "paused"
<1>1. ASSUME NEW t \in Threads PROVE Place(this[t]) = t
  BY DEF OneThreadEach, Place
<1> QED BY <1>1 DEF Place

(* A step that moves no thread and stops or spawns nothing is a stutter.   *)
LEMMA PlaceFrame ==
  ASSUME OneThreadEach, UNCHANGED this,
         \A c \in Every : (state'[c] = "stopped") <=> (state[c] = "stopped")
  PROVE  \A c \in Every : Place(c)' = Place(c)
<1> SUFFICES ASSUME NEW c \in Every PROVE Place(c)' = Place(c)
  OBVIOUS
<1>1. CASE \E t \in Threads : this[t] = c
  BY <1>1 DEF Place
<1>2. CASE ~\E t \in Threads : this[t] = c
  BY <1>2 DEF Place
<1> QED BY <1>1, <1>2

LEMMA InterfaceInit == CoroutineInit => Interface!Init
<1> SUFFICES ASSUME CoroutineInit PROVE Interface!Init
  OBVIOUS
<1>0. OneThreadEach
  BY InitInv, InvImplies
<1>1. ASSUME NEW c \in Every PROVE Place(c) = IF c \in Threads THEN c ELSE "stopped"
  <2>1. CASE c \in Threads
    BY <2>1, <1>0, PlaceIs DEF CoroutineInit
  <2>2. CASE c \notin Threads
    <3>1. /\ \A t \in Threads : this[t] # c
          /\ state[c] = "stopped"
      BY <2>2 DEF CoroutineInit
    <3> QED BY <2>2, <3>1, <1>0, PlaceIs
  <2> QED BY <2>1, <2>2
<1> QED BY <1>1 DEF Interface!Init, Interface!Every, Every

LEMMA InterfaceExchange ==
  ASSUME SwitchIInv, NEW t \in Threads, Exchange(t)
  PROVE  Interface!Next \/ UNCHANGED [c \in Every |-> Place(c)]
<1> PICK c \in Coroutines : c = callee[t]
  BY DEF Exchange, SwitchIInv, SwitchInv, StacksOK
<1>0. /\ c \in Every /\ OneThreadEach
      /\ UNCHANGED this /\ state' = [state EXCEPT ![c] = Spawned(@)]
  BY InvImplies DEF Exchange, Every, own
<1>1. CASE state[c] = "stopped"
  <2>1. state'[c] = "paused" /\ \A d \in Every \ {c} : state'[d] = state[d]
    BY <1>0, <1>1 DEF Spawned, SwitchIInv, TypeOK
  <2>2. \A u \in Threads : this[u] # c
    <3>1. \A u \in Threads : this[u] \in Every /\ this[u] \in Claims(u)
      BY DEF SwitchIInv, TypeOK, Claims
    <3>2. \A u \in Threads : state[this[u]] = "running"
      BY <3>1 DEF SwitchIInv, SwitchInv, ClaimsOK
    <3> QED BY <3>2, <1>1
  <2>3. Place(c) = "stopped" /\ Place(c)' = "paused"
    <3>1. UNCHANGED this
      BY <1>0
    <3> QED BY <3>1, <1>1, <2>1, <2>2 DEF Place
  <2>4. \A d \in Every \ {c} : Place(d)' = Place(d)
    <3> SUFFICES ASSUME NEW d \in Every \ {c} PROVE Place(d)' = Place(d)
      OBVIOUS
    <3>1. UNCHANGED this /\ state'[d] = state[d]
      BY <1>0, <2>1
    <3> QED BY <3>1 DEF Place
  <2>5. Interface!Spawn(c)
    BY <1>0, <2>3, <2>4 DEF Interface!Spawn
  <2> QED BY <1>0, <2>5 DEF Interface!Next
<1>2. CASE state[c] # "stopped"
  <2>1. state' = state
    BY <1>0, <1>2 DEF Spawned, SwitchIInv, TypeOK
  <2> QED BY <1>0, <2>1, PlaceFrame
<1> QED BY <1>1, <1>2

LEMMA InterfacePhase2 ==
  ASSUME SwitchIInv, SwitchIInv', NEW t \in Threads, Phase2(t)
  PROVE  Interface!Next
<1> USE DEF SwitchIInv, SwitchInv
<1> PICK c, d \in Every : c = this[t] /\ d = callee[t]
  BY DEF SwitchOK, Switching, Phase2, TypeOK
<1>0. /\ OneThreadEach /\ OneThreadEach'
      /\ c \in Every /\ d \in Every /\ c # d
      /\ this' = [this EXCEPT ![t] = d]
      /\ \/ last[t] = c /\ state' = [state EXCEPT ![c] = "paused"]
         \/ c \in Coroutines /\ d = t /\ state' = [state EXCEPT ![c] = "stopped"]
  <2>1. OneThreadEach /\ OneThreadEach'
    <3>1. OneThreadEach
      BY InvImplies
    <3>2. SwitchIInv' => OneThreadEach'
      BY InvImplies, PTL
    <3> QED BY <3>1, <3>2
  <2>2. /\ pc[t] = "landed" /\ stack[t] = d /\ d \in Every /\ c \in Every /\ c # d
        /\ \/ last[t] = c /\ void[t] = NULL
           \/ last[t] = NULL /\ void[t] = c /\ d = t
    BY DEF SwitchOK, Switching, Phase2, TypeOK
  <2>3. this' = [this EXCEPT ![t] = d]
    BY <2>2 DEF Phase2
  <2>4. c # NULL
    BY <2>2, CoroutineAssumption
  <2>5. CASE last[t] = c /\ void[t] = NULL
    <3>1. state' = [state EXCEPT ![c] = "paused"]
      BY <2>4, <2>5 DEF Phase2, GiveUp
    <3> QED BY <2>1, <2>2, <2>3, <2>5, <3>1
  <2>6. CASE last[t] = NULL /\ void[t] = c /\ d = t
    <3>1. state' = [state EXCEPT ![c] = "stopped"]
      BY <2>4, <2>6 DEF Phase2, GiveUp
    <3>2. c \in Coroutines
      BY <2>4, <2>6 DEF TypeOK
    <3> QED BY <2>1, <2>2, <2>3, <2>6, <3>1, <3>2
  <2> QED BY <2>2, <2>5, <2>6
<1>1. state[c] = "running" /\ state[d] = "running" /\ \A u \in Threads : this[u] # d
  <2>1. c \in Claims(t) /\ d \in Claims(t)
    BY DEF Claims, Switching, Phase2
  <2>2. \A u \in Threads \ {t} : this[u] # d
    BY <2>1 DEF ClaimsOK, Claims
  <2> QED BY <1>0, <2>1, <2>2 DEF ClaimsOK
<1>2. d \in Coroutines \cup {t}
  BY <1>0 DEF ClaimsOK, Claims, Switching, Phase2, Every
<1> HIDE DEF SwitchIInv, SwitchInv
<1>3. Place(c) = t /\ Place(d) = "paused"
  BY <1>0, <1>1, PlaceIs
<1>4. Place(d)' = t
  <2>1. this'[t] = d
    BY <1>0 DEF SwitchIInv, TypeOK
  <2>2. \A u \in Threads : u # t => this'[u] # d
    BY <1>0, <1>1 DEF SwitchIInv, TypeOK
  <2>3. (CHOOSE u \in Threads : this'[u] = d) = t
    BY <2>1, <2>2
  <2> QED BY <2>1, <2>3 DEF Place
<1>5. \A u \in Threads : this'[u] # c
  BY <1>0, <1>1 DEF OneThreadEach, SwitchIInv, TypeOK
<1>6. Place(c)' = IF state'[c] = "stopped" THEN "stopped" ELSE "paused"
  BY <1>5 DEF Place
<1>7. \A e \in Every \ {c, d} : Place(e)' = Place(e)
  <2> SUFFICES ASSUME NEW e \in Every \ {c, d} PROVE Place(e)' = Place(e)
    OBVIOUS
  <2>1. state'[e] = state[e]
    BY <1>0 DEF SwitchIInv, TypeOK
  <2>2. \A u \in Threads : this'[u] = e <=> this[u] = e
    BY <1>0 DEF SwitchIInv, TypeOK
  <2> QED BY <2>1, <2>2 DEF Place
<1>8. CASE last[t] = c /\ state' = [state EXCEPT ![c] = "paused"]
  <2>1. Place(c)' = "paused"
    BY <1>0, <1>6, <1>8 DEF SwitchIInv, TypeOK
  <2>2. Interface!Yield(t, c, d)
    BY <1>0, <1>3, <1>4, <1>7, <2>1 DEF Interface!Yield
  <2> QED BY <1>0, <1>2, <2>2 DEF Interface!Next, Interface!Every, Every
<1>9. CASE c \in Coroutines /\ d = t /\ state' = [state EXCEPT ![c] = "stopped"]
  <2>1. Place(c)' = "stopped"
    BY <1>0, <1>6, <1>9 DEF SwitchIInv, TypeOK
  <2>2. Interface!Finish(t, c)
    BY <1>0, <1>3, <1>4, <1>7, <1>9, <2>1 DEF Interface!Finish
  <2> QED BY <1>9, <2>2 DEF Interface!Next
<1> QED BY <1>0, <1>8, <1>9

(* The other steps move nothing.                                           *)
LEMMA InterfaceClaim ==
  ASSUME SwitchIInv, NEW t \in Threads, NEW d \in Every, NEW c, Claim(t, c, d), UNCHANGED this
  PROVE  UNCHANGED [e \in Every |-> Place(e)]
<1>1. \A e \in Every : (state'[e] = "stopped") <=> (state[e] = "stopped")
  BY DEF Claim, SwitchIInv, TypeOK
<1> QED BY <1>1, PlaceFrame, InvImplies

LEMMA InterfaceStep ==
  ASSUME SwitchIInv, SwitchIInv', [CoroutineNext]_coroutineVars
  PROVE  Interface!Next \/ UNCHANGED [c \in Every |-> Place(c)]
<1>0. OneThreadEach
  BY InvImplies
<1>1. CASE CoroutineNext
  <2> PICK t \in Threads :
        \/ \E c \in Coroutines : spawn(t, c)
        \/ Allocate(t) \/ AllocateFails(t) \/ Exchange(t)
        \/ \E x \in Extras \cup {NULL} :
             yield_main(t, x) \/ yield_last(t, x) \/ \E d \in Coroutines : yield(t, d, x)
        \/ Return(t) \/ Swap(t) \/ Phase2(t)
    BY <1>1 DEF CoroutineNext
  <2>1. CASE \/ \E c \in Coroutines : spawn(t, c)
             \/ Allocate(t) \/ AllocateFails(t) \/ Swap(t)
    <3>1. UNCHANGED <<state, this>>
      BY <2>1 DEF spawn, Allocate, AllocateFails, Swap, shared, own
    <3> QED BY <3>1, <1>0, PlaceFrame
  <2>2. CASE Exchange(t)
    BY <2>2, InterfaceExchange
  <2>3. CASE \E x \in Extras \cup {NULL} :
               yield_main(t, x) \/ yield_last(t, x) \/ \E d \in Coroutines : yield(t, d, x)
    <3>1. PICK d \in Every : Claim(t, this[t], d) /\ UNCHANGED this
      BY <2>3, LastTarget DEF yield_main, yield_last, yield, Every
    <3> QED BY <3>1, InterfaceClaim
  <2>4. CASE Return(t)
    <3>1. Claim(t, stack[t], t) /\ UNCHANGED this /\ t \in Every
      BY <2>4 DEF Return, Every
    <3> QED BY <3>1, InterfaceClaim
  <2>5. CASE Phase2(t)
    BY <2>5, InterfacePhase2
  <2> QED BY <2>1, <2>2, <2>3, <2>4, <2>5
<1>2. CASE UNCHANGED coroutineVars
  <2>1. UNCHANGED <<state, this>>
    BY <1>2 DEF coroutineVars
  <2> QED BY <2>1, <1>0, PlaceFrame
<1> QED BY <1>1, <1>2

(* The two-phase switch of coroutine.cpp implements the one-step switch    *)
(* that coroutine.h describes.                                             *)
THEOREM Refinement == CoroutineSpec => Implements
<1>1. CoroutineInit => Interface!Init
  BY InterfaceInit
<1>2. SwitchIInv /\ SwitchIInv' /\ [CoroutineNext]_coroutineVars => [Interface!Next]_[c \in Every |-> Place(c)]
  BY InterfaceStep
<1> QED BY <1>1, <1>2, SwitchCorrect, PTL DEF CoroutineSpec, Implements, Interface!Spec, SwitchIInv

------------------------------------------------------------------------------
(* TimerQueue.                                                             *)

USE TimerAssumption

AtWork == {"popped", "spin", "due", "run"}
Places == {"getq", "gone", "sleep_empty", "sleep_due", "woken"} \cup AtWork

TimerTypeOK ==
  /\ made \subseteq Timers /\ queue \subseteq made
  /\ ref \in [Timers -> Int]
  /\ hold \in [Clients -> made \cup {None}]
  /\ cur \in [Workers -> made \cup {None}]
  /\ wpc \in [Workers -> Places]

(* A worker has an ITimer exactly while it works on it.                    *)
Working == \A w \in Workers : cur[w] # None <=> wpc[w] \in AtWork

Inv == TimerTypeOK /\ Working

(* ITimer::done is 1 for the timers that ran and those that were stopped.  *)
Decided ==
  /\ done \in [Timers -> {0, 1}]
  /\ ran \cup stopped \subseteq {t \in Timers : done[t] = 1}

------------------------------------------------------------------------------
(* The sets that are counted.                                              *)

Holders(t) == {c \in Clients : hold[c] = t}
Users(t)   == {w \in Workers : cur[w] = t}
Queued(t)  == IF t \in queue THEN 1 ELSE 0
Is(x, t)   == IF x = t THEN 1 ELSE 0

Counted(t) == ref[t] = Cardinality(Holders(t)) + Cardinality(Users(t)) + Queued(t)

LEMMA RefCountDef == /\ RefCount <=> \A t \in made : Counted(t)
                     /\ RefCount' <=> \A t \in made' : Counted(t)'
  BY DEF RefCount, Counted, Holders, Users, Queued

LEMMA Numbers ==
  ASSUME NEW t
  PROVE  /\ IsFiniteSet(Holders(t)) /\ Cardinality(Holders(t)) \in Nat
         /\ IsFiniteSet(Users(t)) /\ Cardinality(Users(t)) \in Nat
<1>1. Holders(t) \in SUBSET Clients /\ Users(t) \in SUBSET Workers
  BY DEF Holders, Users
<1> QED BY <1>1, FS_Subset, FS_CardinalityType

(* The cardinalities of two sets that differ in x at most.                 *)
LEMMA Moved ==
  ASSUME NEW Old, IsFiniteSet(Old), NEW New, NEW x, \A y : y # x => (y \in New <=> y \in Old)
  PROVE  Cardinality(New) = Cardinality(Old) + (IF x \in New THEN 1 ELSE 0)
                                             - (IF x \in Old THEN 1 ELSE 0)
<1>0. Cardinality(Old) \in Nat
  BY FS_CardinalityType
<1>1. CASE x \in New <=> x \in Old
  <2>1. New = Old
    BY <1>1
  <2> QED BY <1>0, <1>1, <2>1
<1>2. CASE x \in New /\ x \notin Old
  <2>1. New = Old \cup {x}
    BY <1>2
  <2>2. Cardinality(New) = Cardinality(Old) + 1
    BY <1>2, <2>1, FS_AddElement
  <2> QED BY <1>0, <1>2, <2>2
<1>3. CASE x \notin New /\ x \in Old
  <2>1. New = Old \ {x}
    BY <1>3
  <2>2. Cardinality(New) = Cardinality(Old) - 1
    BY <1>3, <2>1, FS_RemoveElement
  <2> QED BY <1>0, <1>3, <2>2
<1> QED BY <1>1, <1>2, <1>3

LEMMA HoldMoves ==
  ASSUME Inv, NEW c \in Clients, NEW v, hold' = [hold EXCEPT ![c] = v], NEW t
  PROVE  Cardinality(Holders(t)') = Cardinality(Holders(t)) + Is(v, t) - Is(hold[c], t)
<1>1. \A y : y # c => (y \in Holders(t)' <=> y \in Holders(t))
  BY DEF Inv, TimerTypeOK, Holders
<1>2. (c \in Holders(t)' <=> v = t) /\ (c \in Holders(t) <=> hold[c] = t)
  BY DEF Inv, TimerTypeOK, Holders
<1>3. Cardinality(Holders(t)') = Cardinality(Holders(t)) + (IF c \in Holders(t)' THEN 1 ELSE 0)
                                                         - (IF c \in Holders(t) THEN 1 ELSE 0)
  BY <1>1, Numbers, Moved
<1> QED BY <1>2, <1>3 DEF Is

LEMMA CurMoves ==
  ASSUME Inv, NEW w \in Workers, NEW v, cur' = [cur EXCEPT ![w] = v], NEW t
  PROVE  Cardinality(Users(t)') = Cardinality(Users(t)) + Is(v, t) - Is(cur[w], t)
<1>1. \A y : y # w => (y \in Users(t)' <=> y \in Users(t))
  BY DEF Inv, TimerTypeOK, Users
<1>2. (w \in Users(t)' <=> v = t) /\ (w \in Users(t) <=> cur[w] = t)
  BY DEF Inv, TimerTypeOK, Users
<1>3. Cardinality(Users(t)') = Cardinality(Users(t)) + (IF w \in Users(t)' THEN 1 ELSE 0)
                                                     - (IF w \in Users(t) THEN 1 ELSE 0)
  BY <1>1, Numbers, Moved
<1> QED BY <1>2, <1>3 DEF Is

------------------------------------------------------------------------------
(* Who is where.                                                           *)

(* A worker that is woken was not at work.                                 *)
LEMMA WakeKeeps ==
  ASSUME Inv, NEW W \in SUBSET Asleep, Wake(W)
  PROVE  /\ wpc' \in [Workers -> Places]
         /\ \A w \in Workers : wpc'[w] \in AtWork <=> wpc[w] \in AtWork
  BY DEF Inv, TimerTypeOK, Wake, Asleep, Places, AtWork

LEMMA NotifyKeeps ==
  ASSUME Inv, NotifyOne \/ NotifyAll
  PROVE  /\ wpc' \in [Workers -> Places]
         /\ \A w \in Workers : wpc'[w] \in AtWork <=> wpc[w] \in AtWork
<1>1. CASE UNCHANGED wpc
  BY <1>1 DEF Inv, TimerTypeOK
<1>2. CASE \E W \in SUBSET Asleep : Wake(W)
  BY <1>2, WakeKeeps
<1> QED BY <1>1, <1>2 DEF NotifyOne, NotifyAll

(* The steps that leave the references, and what they refer to, alone.     *)
Still == UNCHANGED <<queue, ref, hold, cur, made>>

WorkerStays(w) ==
  \/ Leave(w) \/ SleepEmpty(w) \/ StillEmpty(w) \/ \E t \in Timers : SleepUntil(w, t)
  \/ Spin(w) \/ Run(w) \/ TaskCancel(w) \/ Timeout(w) \/ SpuriousWake(w)

LEMMA WorkerStaysInv ==
  ASSUME Inv, NEW w \in Workers, WorkerStays(w) PROVE Still /\ Inv'
<1>1. Still
  BY DEF WorkerStays, Leave, SleepEmpty, StillEmpty, SleepUntil, Spin, Run, TaskCancel, Timeout,
         SpuriousWake, Still, timers, workers, clients
<1>2. CASE Timeout(w) \/ SpuriousWake(w)
  <2>1. {w} \in SUBSET Asleep /\ Wake({w})
    BY <1>2 DEF Timeout, SpuriousWake
  <2> QED BY <1>1, <2>1, WakeKeeps DEF Inv, TimerTypeOK, Working, Still
<1>4. CASE TaskCancel(w)
  BY <1>1, <1>4 DEF TaskCancel, workers, Inv, TimerTypeOK, Working, Still
<1>3. CASE ~(Timeout(w) \/ SpuriousWake(w) \/ TaskCancel(w))
  <2>1. \E l \in Places : /\ wpc' = [wpc EXCEPT ![w] = l]
                          /\ l \in AtWork <=> wpc[w] \in AtWork
    BY ZenonT(30), <1>3 DEF WorkerStays, Leave, SleepEmpty, StillEmpty, SleepUntil, Front, Spin, Run, GotoW,
                Places, AtWork
  <2> QED BY <1>1, <2>1 DEF Inv, TimerTypeOK, Working, Still
<1> QED BY <1>1, <1>2, <1>3, <1>4

(* The worker lets go of its ITimer, or begins to spin.                    *)
LEMMA ReleaseInv ==
  ASSUME Inv, NEW w \in Workers, wpc[w] \in AtWork, Release(w), UNCHANGED <<queue, hold, made>>
  PROVE  Inv'
<1>1. cur[w] \in Timers
  BY DEF Inv, TimerTypeOK, Working
<1> QED BY <1>1 DEF Inv, TimerTypeOK, Working, Release, GotoW, Places, AtWork

LEMMA PopInv == ASSUME Inv, NEW w \in Workers, NEW t \in Timers, Pop(w, t) PROVE Inv'
  BY DEF Pop, Front, Inv, TimerTypeOK, Working, GotoW, Places, AtWork, timers, clients

LEMMA PutInv ==
  ASSUME Inv, NEW t \in Timers, NEW d, NEW old, Put(t, d, old), NotifyOne,
         \/ /\ cur' = cur
            /\ \E c \in Clients : hold' = [hold EXCEPT ![c] = t]
         \/ /\ hold' = hold
            /\ \E w \in Workers : wpc[w] \in AtWork /\ cur' = [cur EXCEPT ![w] = t]
  PROVE  Inv'
<1>1. ref' \in [Timers -> Int]
  BY DEF Put, Swapped, Inv, TimerTypeOK
<1> QED BY <1>1, NotifyKeeps DEF Put, IsNew, Inv, TimerTypeOK, Working

(* What can be copied has been made.                                       *)
LEMMA CopyableMade ==
  ASSUME Inv, NEW c \in Clients, NEW t \in Timers, copy(c, t) PROVE t \in made
<1>1. PICK x \in Clients \cup Workers : (x \in Clients /\ t = hold[x]) \/ (x \in Workers /\ t = cur[x])
  BY DEF copy, Copyable
<1> QED BY <1>1 DEF Inv, TimerTypeOK

(* The clients' steps on holders, and clear.                               *)
LEMMA HolderInv ==
  ASSUME Inv, NEW c \in Clients,
         \/ \E t \in Timers : bind(c, t)
         \/ \E t \in Timers : copy(c, t)
         \/ reset(c)
  PROVE  Inv'
<1>1. CASE \E t \in Timers : bind(c, t)
  BY <1>1 DEF bind, IsNew, Inv, TimerTypeOK, Working, workers
<1>2. ASSUME NEW t \in Timers, copy(c, t) PROVE Inv'
  <2>1. t \in made /\ UNCHANGED <<made, queue, cur, wpc>>
    BY <1>2, CopyableMade DEF copy, workers
  <2>2. hold' = [hold EXCEPT ![c] = t] /\ ref' = [ref EXCEPT ![t] = @ + 1]
    BY <1>2 DEF copy
  <2>3. ref' \in [Timers -> Int] /\ hold' \in [Clients -> made \cup {None}]
    BY <2>1, <2>2 DEF Inv, TimerTypeOK
  <2> QED BY <2>1, <2>3 DEF Inv, TimerTypeOK, Working
<1>3. CASE reset(c)
  BY <1>3 DEF reset, Inv, TimerTypeOK, Working, workers
<1> QED BY <1>1, <1>2, <1>3

LEMMA ClearInv == ASSUME Inv, NEW c \in Clients, NEW then, clear(c, then) PROVE Inv'
<1>1. ref' \in [Timers -> Int] /\ queue' = {} /\ UNCHANGED <<made, hold, cur>> /\ NotifyAll
  BY DEF clear, Dropped, Inv, TimerTypeOK
<1> QED BY <1>1, NotifyKeeps DEF Inv, TimerTypeOK, Working

ClientStays(c) == cancel(c) \/ redue(c) \/ wait_for_empty(c) \/ SetCanceled(c)

LEMMA StillInv ==
  ASSUME Inv, \/ \E c \in Clients : ClientStays(c)
              \/ activate \/ Tick \/ UNCHANGED vars
  PROVE  Still /\ Inv'
<1>1. CASE activate
  BY <1>1 DEF activate, Still, timers, clients, Inv, TimerTypeOK, Working, Places, AtWork
<1>2. CASE ~activate
  <2>1. Still /\ wpc' = wpc
    BY <1>2 DEF ClientStays, cancel, redue, wait_for_empty, SetCanceled, Tick, vars, Still, timers,
                clients, workers
  <2> QED BY <2>1 DEF Still, Inv, TimerTypeOK, Working
<1> QED BY <1>1, <1>2

LEMMA CheckSplit ==
  ASSUME NEW w \in Workers, Check(w)
  PROVE  /\ wpc[w] \in AtWork /\ UNCHANGED <<queue, hold, made>>
         /\ Release(w) \/ (GotoW(w, "spin") /\ Still)
  BY DEF Check, clients, Still, AtWork

Releases(w) == wpc[w] \in AtWork /\ Release(w) /\ UNCHANGED <<queue, hold, made>>

(* The steps, by what they do to the references.                           *)
LEMMA Steps ==
  ASSUME [Next]_vars
  PROVE  \/ \E w \in Workers :
              \/ WorkerStays(w) \/ Releases(w)
              \/ GotoW(w, "spin") /\ wpc[w] \in AtWork /\ Still
              \/ \E t \in Timers : Pop(w, t)
              \/ \E t \in Timers, d \in Delays : RunAgain(w, t, d)
         \/ \E c \in Clients :
              \/ ClientStays(c) \/ reset(c)
              \/ \E t \in Timers, d \in Delays : putq(c, t, d) \/ Redue(c, t, d)
              \/ \E t \in Timers : bind(c, t) \/ copy(c, t)
              \/ \E then \in {"idle", "cancel"} : clear(c, then)
         \/ activate \/ Tick \/ UNCHANGED vars
<1>1. ASSUME NEW w \in Workers, TooLate(w) \/ Finish(w) PROVE Releases(w)
  BY <1>1 DEF TooLate, Finish, Releases, AtWork, clients
<1> QED BY <1>1, CheckSplit DEF Next, Worker, Client, WorkerStays, ClientStays, Releases

LEMMA StepInv == ASSUME Inv, [Next]_vars PROVE Inv'
<1>1. ASSUME NEW w \in Workers, GotoW(w, "spin"), wpc[w] \in AtWork, Still PROVE Inv'
  BY <1>1 DEF GotoW, Still, Inv, TimerTypeOK, Working, Places, AtWork
<1>2. ASSUME NEW w \in Workers, NEW t \in Timers, NEW d \in Delays, RunAgain(w, t, d) PROVE Inv'
  BY <1>2, PutInv DEF RunAgain, AtWork, clients
<1>3. ASSUME NEW c \in Clients, NEW t \in Timers, NEW d \in Delays, putq(c, t, d) \/ Redue(c, t, d)
      PROVE  Inv'
  BY <1>3, PutInv DEF putq, Redue
<1>4. ASSUME NEW w \in Workers, Releases(w) PROVE Inv'
  BY <1>4, ReleaseInv DEF Releases
<1> QED BY <1>1, <1>2, <1>3, <1>4, Steps, WorkerStaysInv, StillInv, PopInv, HolderInv, ClearInv

------------------------------------------------------------------------------
(* The references.                                                         *)

(* A timer that is not made is referred to by nobody.                      *)
LEMMA Fresh ==
  ASSUME Inv, NEW t \in Timers \ made
  PROVE  Cardinality(Holders(t)) = 0 /\ Cardinality(Users(t)) = 0 /\ Queued(t) = 0
<1>1. Holders(t) = {} /\ Users(t) = {} /\ t \notin queue
  BY DEF Inv, TimerTypeOK, Holders, Users
<1> QED BY <1>1, FS_EmptySet DEF Queued

LEMMA StillCounted == ASSUME Still, NEW t, Counted(t) PROVE Counted(t)'
  BY DEF Still, Counted, Holders, Users, Queued

(* A holder leaves `old' for a new ITimer: putq, and redue by a client.    *)
LEMMA ClientPut ==
  ASSUME Inv, RefCount, NEW c \in Clients, NEW x \in Timers, NEW d, Put(x, d, hold[c]),
         hold' = [hold EXCEPT ![c] = x], UNCHANGED cur, NEW t \in made'
  PROVE  Counted(t)'
<1>1. Cardinality(Users(t)') = Cardinality(Users(t))
  BY DEF Users
<1>2. Cardinality(Holders(t)') = Cardinality(Holders(t)) + Is(x, t) - Is(hold[c], t)
  BY HoldMoves
<1>3. CASE t = x
  <2>1. hold[c] # x /\ ref'[t] = 2 /\ Queued(t)' = 1
    BY <1>3 DEF Put, IsNew, Swapped, Queued, Inv, TimerTypeOK
  <2>2. Cardinality(Holders(t)) = 0 /\ Cardinality(Users(t)) = 0
    BY <1>3, Fresh DEF Put, IsNew
  <2> QED BY <1>1, <1>2, <1>3, <2>1, <2>2 DEF Counted, Is
<1>4. CASE t # x
  <2>1. t \in made /\ ref'[t] = ref[t] - Is(hold[c], t) /\ Queued(t)' = Queued(t)
    BY <1>4 DEF Put, Swapped, Queued, Is, Inv, TimerTypeOK
  <2>2. Counted(t)
    BY <2>1, RefCountDef
  <2> QED BY <1>1, <1>2, <1>4, <2>1, <2>2, Numbers DEF Counted, Is, Queued
<1> QED BY <1>3, <1>4

(* The same by a task, on the reference of its worker.                     *)
LEMMA TaskPut ==
  ASSUME Inv, RefCount, NEW w \in Workers, NEW x \in Timers, NEW d, Put(x, d, cur[w]),
         cur' = [cur EXCEPT ![w] = x], UNCHANGED hold, NEW t \in made'
  PROVE  Counted(t)'
<1>1. Cardinality(Holders(t)') = Cardinality(Holders(t))
  BY DEF Holders
<1>2. Cardinality(Users(t)') = Cardinality(Users(t)) + Is(x, t) - Is(cur[w], t)
  BY CurMoves
<1>3. CASE t = x
  <2>1. cur[w] # x /\ ref'[t] = 2 /\ Queued(t)' = 1
    BY <1>3 DEF Put, IsNew, Swapped, Queued, Inv, TimerTypeOK
  <2>2. Cardinality(Holders(t)) = 0 /\ Cardinality(Users(t)) = 0
    BY <1>3, Fresh DEF Put, IsNew
  <2> QED BY <1>1, <1>2, <1>3, <2>1, <2>2 DEF Counted, Is
<1>4. CASE t # x
  <2>1. t \in made /\ ref'[t] = ref[t] - Is(cur[w], t) /\ Queued(t)' = Queued(t)
    BY <1>4 DEF Put, Swapped, Queued, Is, Inv, TimerTypeOK
  <2>2. Counted(t)
    BY <2>1, RefCountDef
  <2> QED BY <1>1, <1>2, <1>4, <2>1, <2>2, Numbers DEF Counted, Is, Queued
<1> QED BY <1>3, <1>4

LEMMA BindCounted ==
  ASSUME Inv, RefCount, NEW c \in Clients, NEW x \in Timers, bind(c, x), NEW t \in made'
  PROVE  Counted(t)'
<1>1. Cardinality(Users(t)') = Cardinality(Users(t)) /\ Queued(t)' = Queued(t)
  BY DEF bind, workers, Users, Queued
<1>2. Cardinality(Holders(t)') = Cardinality(Holders(t)) + Is(x, t) - Is(hold[c], t)
  BY HoldMoves DEF bind
<1>3. hold[c] # t /\ ref'[t] = IF t = x THEN 1 ELSE ref[t]
  BY DEF bind, IsNew, Inv, TimerTypeOK
<1>4. CASE t = x
  <2>1. Cardinality(Holders(t)) = 0 /\ Cardinality(Users(t)) = 0 /\ Queued(t) = 0
    BY <1>4, Fresh DEF bind, IsNew
  <2> QED BY <1>1, <1>2, <1>3, <1>4, <2>1 DEF Counted, Is
<1>5. CASE t # x
  <2>1. Counted(t)
    BY <1>5, RefCountDef DEF bind
  <2> QED BY <1>1, <1>2, <1>3, <1>5, <2>1, Numbers DEF Counted, Is, Queued
<1> QED BY <1>4, <1>5

LEMMA CopyCounted ==
  ASSUME Inv, NEW c \in Clients, NEW x \in Timers, copy(c, x), NEW t \in Timers, Counted(t)
  PROVE  Counted(t)'
<1>1. Cardinality(Users(t)') = Cardinality(Users(t)) /\ Queued(t)' = Queued(t)
  BY DEF copy, workers, Users, Queued
<1>2. Cardinality(Holders(t)') = Cardinality(Holders(t)) + Is(x, t) - Is(hold[c], t)
  BY HoldMoves DEF copy
<1>3. hold[c] # t /\ ref'[t] = ref[t] + Is(x, t)
  BY DEF copy, Inv, TimerTypeOK, Is
<1> QED BY <1>1, <1>2, <1>3, Numbers DEF Counted, Is, Queued

LEMMA ResetCounted ==
  ASSUME Inv, NEW c \in Clients, reset(c), NEW t \in Timers, Counted(t)
  PROVE  Counted(t)'
<1>1. Cardinality(Users(t)') = Cardinality(Users(t)) /\ Queued(t)' = Queued(t)
  BY DEF reset, workers, Users, Queued
<1>2. Cardinality(Holders(t)') = Cardinality(Holders(t)) + Is(None, t) - Is(hold[c], t)
  BY HoldMoves DEF reset
<1>3. None # t /\ ref'[t] = ref[t] - Is(hold[c], t)
  BY DEF reset, Inv, TimerTypeOK, Is
<1> QED BY <1>1, <1>2, <1>3, Numbers DEF Counted, Is, Queued

LEMMA ReleaseCounted ==
  ASSUME Inv, NEW w \in Workers, Releases(w), NEW t \in Timers, Counted(t)
  PROVE  Counted(t)'
<1>1. Cardinality(Holders(t)') = Cardinality(Holders(t)) /\ Queued(t)' = Queued(t)
  BY DEF Releases, Holders, Queued
<1>2. Cardinality(Users(t)') = Cardinality(Users(t)) + Is(None, t) - Is(cur[w], t)
  BY CurMoves DEF Releases, Release
<1>3. None # t /\ ref'[t] = ref[t] - Is(cur[w], t)
  BY DEF Releases, Release, Inv, TimerTypeOK, Is
<1> QED BY <1>1, <1>2, <1>3, Numbers DEF Counted, Is, Queued

(* The queue's reference becomes the worker's.                             *)
LEMMA PopCounted ==
  ASSUME Inv, NEW w \in Workers, NEW x \in Timers, Pop(w, x), NEW t \in Timers, Counted(t)
  PROVE  Counted(t)'
<1>1. Cardinality(Holders(t)') = Cardinality(Holders(t)) /\ ref' = ref
  BY DEF Pop, timers, clients, Holders
<1>2. Cardinality(Users(t)') = Cardinality(Users(t)) + Is(x, t) - Is(cur[w], t)
  BY CurMoves DEF Pop
<1>3. cur[w] # t
  BY DEF Pop, Front, Inv, TimerTypeOK, Working, AtWork
<1>4. Queued(t)' = Queued(t) - Is(x, t)
  BY DEF Pop, Front, Queued, Is
<1> QED BY <1>1, <1>2, <1>3, <1>4, Numbers DEF Counted, Is, Queued

LEMMA ClearCounted ==
  ASSUME Inv, NEW c \in Clients, NEW then, clear(c, then), NEW t \in Timers, Counted(t)
  PROVE  Counted(t)'
<1>1. /\ Cardinality(Holders(t)') = Cardinality(Holders(t))
      /\ Cardinality(Users(t)') = Cardinality(Users(t))
  BY DEF clear, Holders, Users
<1>2. Queued(t)' = 0 /\ ref'[t] = ref[t] - Queued(t)
  BY DEF clear, Dropped, Queued, Inv, TimerTypeOK
<1> QED BY <1>1, <1>2, Numbers DEF Counted, Queued

LEMMA RefCountStep == ASSUME Inv, RefCount, [Next]_vars PROVE RefCount'
<1> SUFFICES ASSUME NEW t \in made' PROVE Counted(t)'
  BY RefCountDef
<1>1. made' = made => t \in Timers /\ Counted(t)
  BY RefCountDef DEF Inv, TimerTypeOK
<1>2. ASSUME Still PROVE Counted(t)'
  BY <1>1, <1>2, StillCounted DEF Still
<1>3. ASSUME NEW w \in Workers, Releases(w) PROVE Counted(t)'
  BY <1>1, <1>3, ReleaseCounted DEF Releases
<1>4. ASSUME NEW w \in Workers, NEW x \in Timers, Pop(w, x) PROVE Counted(t)'
  BY <1>1, <1>4, PopCounted DEF Pop
<1>5. ASSUME NEW w \in Workers, NEW x \in Timers, NEW d \in Delays, RunAgain(w, x, d)
      PROVE  Counted(t)'
  BY <1>5, TaskPut DEF RunAgain, clients
<1>6. ASSUME NEW c \in Clients, NEW x \in Timers, NEW d \in Delays, putq(c, x, d) \/ Redue(c, x, d)
      PROVE  Counted(t)'
  BY <1>6, ClientPut DEF putq, Redue
<1>7. ASSUME NEW c \in Clients, NEW x \in Timers, bind(c, x) PROVE Counted(t)'
  BY <1>7, BindCounted
<1>8. ASSUME NEW c \in Clients, NEW x \in Timers, copy(c, x) PROVE Counted(t)'
  BY <1>1, <1>8, CopyCounted DEF copy
<1>9. ASSUME NEW c \in Clients, reset(c) PROVE Counted(t)'
  BY <1>1, <1>9, ResetCounted DEF reset
<1>10. ASSUME NEW c \in Clients, NEW then, clear(c, then) PROVE Counted(t)'
  BY <1>1, <1>10, ClearCounted DEF clear
<1> QED BY <1>2, <1>3, <1>4, <1>5, <1>6, <1>7, <1>8, <1>9, <1>10, Steps, WorkerStaysInv, StillInv

------------------------------------------------------------------------------
(* What was stopped.                                                       *)

(* The steps that look at ITimer::done and those that write it.            *)
LEMMA DoneSteps ==
  ASSUME [Next]_vars
  PROVE  \/ UNCHANGED <<done, ran, stopped>>
         \/ \E w \in Workers : Run(w) \/ TaskCancel(w)
         \/ \E c \in Clients : hold[c] # None /\ Stop(hold[c]) /\ ran' = ran
<1>1. ASSUME NEW w \in Workers, Worker(w) \/ SpuriousWake(w), ~Run(w)
      PROVE  UNCHANGED <<done, ran, stopped>>
  BY <1>1 DEF Worker, Leave, SleepEmpty, StillEmpty, SleepUntil, Pop, Check, Spin, TooLate, Finish,
              Timeout, SpuriousWake, timers, history
<1>2. ASSUME NEW w \in Workers, NEW t \in Timers, NEW d \in Delays, RunAgain(w, t, d)
      PROVE  UNCHANGED <<done, ran, stopped>>
  BY <1>2 DEF RunAgain, history
<1>3. ASSUME NEW c \in Clients, Client(c) \/ SetCanceled(c), ~cancel(c), ~redue(c)
      PROVE  UNCHANGED <<done, ran, stopped>>
  BY <1>3 DEF Client, SetCanceled, putq, Redue, bind, copy, reset, wait_for_empty, clear, timers, history
<1>4. ASSUME NEW c \in Clients, cancel(c) \/ redue(c)
      PROVE  hold[c] # None /\ Stop(hold[c]) /\ ran' = ran
  BY <1>4 DEF cancel, redue
<1>5. CASE activate \/ Tick \/ UNCHANGED vars
  BY <1>5 DEF activate, Tick, vars, timers, history
<1> QED BY <1>1, <1>2, <1>3, <1>4, <1>5 DEF Next

LEMMA DecidedStep ==
  ASSUME Inv, Decided, CanceledIsFinal, [Next]_vars PROVE Decided' /\ CanceledIsFinal'
<1>1. CASE UNCHANGED <<done, ran, stopped>>
  BY <1>1 DEF Decided, CanceledIsFinal
<1>2. ASSUME NEW w \in Workers, Run(w) PROVE Decided' /\ CanceledIsFinal'
  <2>1. cur[w] \in Timers
    BY <1>2 DEF Run, Inv, TimerTypeOK, Working, AtWork
  <2> QED BY <1>2, <2>1 DEF Run, Decided, CanceledIsFinal
<1>4. ASSUME NEW w \in Workers, TaskCancel(w) PROVE Decided' /\ CanceledIsFinal'
  <2>1. cur[w] \in Timers
    BY <1>4 DEF TaskCancel, Inv, TimerTypeOK, Working, AtWork
  <2> QED BY <1>4, <2>1 DEF TaskCancel, Stop, Decided, CanceledIsFinal
<1>3. ASSUME NEW c \in Clients, hold[c] # None, Stop(hold[c]), ran' = ran
      PROVE  Decided' /\ CanceledIsFinal'
  <2>1. hold[c] \in Timers
    BY <1>3 DEF Inv, TimerTypeOK
  <2> QED BY <1>3, <2>1 DEF Stop, Decided, CanceledIsFinal
<1> QED BY <1>1, <1>2, <1>3, <1>4, DoneSteps

------------------------------------------------------------------------------
(* Who wakes up in time.                                                   *)

Clocks == now \in Nat /\ due \in [Timers -> Int] /\ wake \in [Workers -> Int]

(* A worker is awake, and will look at the queue.                          *)
Awake == \E w \in Workers : w \notin Asleep /\ wpc[w] # "gone"

LEMMA AwakeEnough == (Awake \/ Asleep = {} \/ queue = {} => NoOversleep)
  BY DEF Awake, NoOversleep

LEMMA Laters == ASSUME Clocks, NEW d \in Nat PROVE Later(d) \in Int
  BY DEF Clocks, Later

LEMMA WakeTypes ==
  ASSUME Clocks, NEW W, Wake(W) PROVE wake' \in [Workers -> Int]
  BY DEF Clocks, Wake

LEMMA ClocksStep == ASSUME Clocks, Inv, [Next]_vars PROVE Clocks'
<1>1. ASSUME NEW w \in Workers, Worker(w) \/ SpuriousWake(w) PROVE Clocks'
  <2>1. CASE SleepEmpty(w)
    BY <1>1, <2>1, Laters DEF SleepEmpty, timers, Clocks
  <2>2. ASSUME NEW t \in Timers, SleepUntil(w, t) PROVE Clocks'
    BY <2>2 DEF SleepUntil, timers, Clocks
  <2>3. CASE Timeout(w) \/ SpuriousWake(w)
    BY <2>3, WakeTypes DEF Timeout, SpuriousWake, timers, Clocks
  <2>4. CASE \/ Leave(w) \/ StillEmpty(w) \/ \E t \in Timers : Pop(w, t)
             \/ Check(w) \/ Spin(w) \/ Run(w) \/ TooLate(w) \/ Finish(w)
    BY <2>4 DEF Leave, StillEmpty, Pop, Check, Spin, Run, TooLate, Finish, timers, Clocks
  <2> QED BY <1>1, <2>1, <2>2, <2>3, <2>4 DEF Worker
<1>2. ASSUME NEW t, NEW d \in Delays, NEW old, Put(t, d, old), NotifyOne, now' = now PROVE Clocks'
  <2>1. due' \in [Timers -> Int]
    BY <1>2, Laters DEF Put, Clocks
  <2>2. wake' \in [Workers -> Int]
    BY <1>2, WakeTypes DEF NotifyOne, Clocks
  <2> QED BY <1>2, <2>1, <2>2 DEF Clocks
<1>3. ASSUME NEW w \in Workers, NEW t \in Timers, NEW d \in Delays, RunAgain(w, t, d) PROVE Clocks'
  BY <1>2, <1>3 DEF RunAgain
<1>4. ASSUME NEW c \in Clients, Client(c) \/ SetCanceled(c) PROVE Clocks'
  <2>1. ASSUME NEW t \in Timers, NEW d \in Delays, putq(c, t, d) \/ Redue(c, t, d) PROVE Clocks'
    BY <1>2, <2>1 DEF putq, Redue
  <2>2. ASSUME NEW t \in Timers, bind(c, t) PROVE Clocks'
    BY <2>2 DEF bind, workers, Clocks
  <2>3. ASSUME NEW then, clear(c, then) PROVE Clocks'
    BY <2>3, WakeTypes DEF clear, NotifyAll, Clocks
  <2>4. CASE \/ \E t \in Timers : copy(c, t)
             \/ reset(c) \/ cancel(c) \/ redue(c) \/ wait_for_empty(c) \/ SetCanceled(c)
    BY <2>4 DEF copy, reset, cancel, redue, wait_for_empty, SetCanceled, workers, timers, Clocks
  <2> QED BY <1>4, <2>1, <2>2, <2>3, <2>4 DEF Client
<1>6. ASSUME NEW w \in Workers, TaskCancel(w) PROVE Clocks'
  BY <1>6 DEF TaskCancel, workers, Clocks
<1>5. CASE activate \/ Tick \/ UNCHANGED vars
  BY <1>5 DEF activate, Tick, vars, timers, workers, Clocks
<1> QED BY <1>1, <1>3, <1>4, <1>5, <1>6 DEF Next

(* A worker that is woken is awake.                                        *)
LEMMA WokenAwake ==
  ASSUME Inv, NEW w \in Asleep, Wake({w}) PROVE Awake'
  BY DEF Wake, Asleep, Awake

LEMMA WorkerSleeps ==
  ASSUME Inv, Clocks, NEW w \in Workers, Worker(w) \/ SpuriousWake(w) PROVE NoOversleep'
<1>1. CASE SleepEmpty(w) \/ StillEmpty(w)
  BY <1>1, AwakeEnough DEF SleepEmpty, StillEmpty, NoOversleep
<1>2. ASSUME NEW t \in Timers, SleepUntil(w, t) PROVE NoOversleep'
  <2>1. /\ wpc'[w] = "sleep_due" /\ wake'[w] = due[t] - Wait2 /\ due' = due /\ queue' = queue
        /\ due[t] \in Int
    BY <1>2 DEF SleepUntil, GotoW, timers, Inv, TimerTypeOK, Clocks
  <2>2. \A x \in queue : due[x] \in Int /\ due[t] <= due[x]
    BY <1>2 DEF SleepUntil, Front, Inv, TimerTypeOK, Clocks
  <2>3. \A x \in queue' : wake'[w] < due'[x]
    BY <2>1, <2>2
  <2>4. w \in Asleep'
    BY <2>1 DEF Asleep
  <2> QED BY <2>3, <2>4 DEF NoOversleep
<1>3. CASE Leave(w)
  <2>1. ~Active'
    BY <1>3 DEF Leave, GotoW, Inv, TimerTypeOK, Active
  <2> QED BY <2>1 DEF NoOversleep
<1>4. CASE Timeout(w) \/ SpuriousWake(w)
  <2>1. w \in Asleep /\ Wake({w})
    BY <1>4 DEF Timeout, SpuriousWake
  <2>2. Awake'
    BY <2>1, WokenAwake
  <2> QED BY <2>2 DEF Awake, NoOversleep
<1>5. CASE \/ \E t \in Timers : Pop(w, t)
           \/ Check(w) \/ Spin(w) \/ Run(w) \/ TooLate(w) \/ Finish(w)
  <2>1. wpc'[w] \in {"popped", "getq", "spin", "due", "run"}
    BY <1>5 DEF Pop, Check, Spin, Run, TooLate, Finish, Release, GotoW, Inv, TimerTypeOK
  <2>2. Awake'
    BY <2>1 DEF Awake, Asleep
  <2> QED BY <2>2 DEF Awake, NoOversleep
<1> QED BY <1>1, <1>2, <1>3, <1>4, <1>5 DEF Worker

(* Whoever puts a timer wakes a worker, unless none sleeps.                *)
LEMMA NotifySleeps ==
  ASSUME Inv, NotifyOne PROVE Awake' \/ Asleep' = {}
<1>1. CASE Asleep = {} /\ UNCHANGED <<wpc, wake>>
  BY <1>1 DEF Asleep
<1> QED BY <1>1, WokenAwake DEF NotifyOne

LEMMA ClientSleeps ==
  ASSUME Inv, Clocks, NoOversleep, NEW c \in Clients, Client(c) \/ SetCanceled(c)
  PROVE  NoOversleep'
<1>1. ASSUME NEW t \in Timers, NEW d \in Delays, putq(c, t, d) \/ Redue(c, t, d) PROVE NoOversleep'
  <2>1. Awake' \/ Asleep' = {}
    BY <1>1, NotifySleeps DEF putq, Redue
  <2> QED BY <2>1 DEF Awake, NoOversleep
<1>2. ASSUME NEW t \in Timers, bind(c, t) PROVE NoOversleep'
  <2>1. UNCHANGED <<queue, wpc, wake, canceled>> /\ \A x \in queue : due'[x] = due[x]
    BY <1>2 DEF bind, IsNew, workers, Inv, TimerTypeOK, Clocks
  <2> QED BY <2>1 DEF NoOversleep, Active, Asleep
<1>3. ASSUME NEW then, clear(c, then) PROVE NoOversleep'
  BY <1>3 DEF clear, NoOversleep
<1>4. CASE SetCanceled(c)
  BY <1>4 DEF SetCanceled, NoOversleep, Active
<1>5. CASE \/ \E t \in Timers : copy(c, t)
           \/ reset(c) \/ cancel(c) \/ redue(c) \/ wait_for_empty(c)
  <2>1. UNCHANGED <<queue, wpc, wake, canceled, due>>
    BY <1>5 DEF copy, reset, cancel, redue, wait_for_empty, workers, timers
  <2> QED BY <2>1 DEF NoOversleep, Active, Asleep
<1> QED BY <1>1, <1>2, <1>3, <1>4, <1>5 DEF Client

LEMMA SleepStep == ASSUME Inv, Clocks, NoOversleep, [Next]_vars PROVE NoOversleep'
<1>1. ASSUME NEW w \in Workers, NEW t \in Timers, NEW d \in Delays, RunAgain(w, t, d)
      PROVE  NoOversleep'
  <2>1. Awake' \/ Asleep' = {}
    BY <1>1, NotifySleeps DEF RunAgain
  <2> QED BY <2>1 DEF Awake, NoOversleep
<1>4. ASSUME NEW w \in Workers, TaskCancel(w) PROVE NoOversleep'
  BY <1>4 DEF TaskCancel, workers, NoOversleep, Active, Asleep
<1>2. CASE activate
  <2>1. Asleep' = {}
    BY <1>2 DEF activate, Asleep
  <2> QED BY <2>1 DEF NoOversleep
<1>3. CASE Tick \/ UNCHANGED vars
  <2>1. UNCHANGED <<queue, wpc, wake, canceled, due>>
    BY <1>3 DEF Tick, vars, timers, workers
  <2> QED BY <2>1 DEF NoOversleep, Active, Asleep
<1> QED BY <1>1, <1>2, <1>3, <1>4, WorkerSleeps, ClientSleeps DEF Next

------------------------------------------------------------------------------
LEMMA Initially == Init => Inv /\ Decided /\ RefCount /\ CanceledIsFinal
  BY DEF Init, Inv, TimerTypeOK, Working, Decided, RefCount, CanceledIsFinal, Places, AtWork

(* The inductive invariant: who refers to which ITimer and how often, and  *)
(* what ITimer::done says (timer_queue.cpp:22-158).                        *)
THEOREM TimerCorrect == Spec => [](Inv /\ Decided /\ RefCount /\ CanceledIsFinal)
<1>1. Inv /\ Decided /\ RefCount /\ CanceledIsFinal /\ [Next]_vars
      => (Inv /\ Decided /\ RefCount /\ CanceledIsFinal)'
  BY StepInv, RefCountStep, DecidedStep
<1> QED BY <1>1, Initially, PTL DEF Spec

(* The references are exact: no ITimer is freed while in use, and none     *)
(* leaks (timer_queue.cpp:91, 130, 157, 217).                              *)
THEOREM CountsReferences == Spec => []RefCount
  BY TimerCorrect, PTL

(* A timer whose cancel() returned true has not run and will not           *)
(* (timer_queue.cpp:25, 152).                                              *)
THEOREM CancelIsFinal == Spec => []CanceledIsFinal
  BY TimerCorrect, PTL

LEMMA InitiallyClocks == Init => Clocks /\ NoOversleep
  BY DEF Init, Clocks, NoOversleep, Asleep

(* While workers are there and none is told to leave, they never all sleep *)
(* past the first timer: the one that sees it sleeps until just before it  *)
(* is due, and whoever puts an earlier one wakes a sleeper                 *)
(* (timer_queue.cpp:135, 180-206).                                         *)
THEOREM WakesInTime == Spec => []NoOversleep
<1>1. Inv /\ Clocks /\ NoOversleep /\ [Next]_vars => (Clocks /\ NoOversleep)'
  BY ClocksStep, SleepStep
<1> QED BY <1>1, InitiallyClocks, TimerCorrect, PTL DEF Spec
==============================================================================
