------------------------ MODULE PipelineOrderProofs -------------------------
(***************************************************************************)
(* Operands and the order of memory operations in processor/processor.cpp  *)
(* and memory_disambiguation/, for any sizes of the buffers and of the     *)
(* tables and any uops, on top of the invariant of PipelineProofs.         *)
(*                                                                         *)
(* FeedInv says that a producer remembers whoever reads its registers,     *)
(* GuardInv that who is in conflict with an older operation is remembered  *)
(* by that one, or by one in between: both unless an array of dependents   *)
(* is full.  TakenInv and MemDistinctInv say when none is.                 *)
(***************************************************************************)
EXTENDS PipelineProofs

-----------------------------------------------------------------------------
(* What the steps other than rename do to the order of the uops, and of    *)
(* the memory operations.                                                  *)

\* No line gets a new uop or a new dependent; only the head may leave.
LinesQuiet ==
  \A x \in Slot :
    /\ rob'[x].uop # NULL => rob'[x].uop = rob[x].uop /\ rob'[x].uop_number = rob[x].uop_number
    /\ rob'[x].uop = NULL /\ rob[x].uop # NULL => x = robStart
    /\ Pending(x)' => Pending(x) /\ rob'[x].reg_deps_ptr_array = rob[x].reg_deps_ptr_array
    /\ rob'[x].reg_deps_ptr_array \in {<<>>, rob[x].reg_deps_ptr_array}
    /\ rob'[x].uop_number \in {0, rob[x].uop_number}
    /\ \/ rob'[x].waiting_mem_request = 0
       \/ rob'[x].waiting_mem_request = rob[x].waiting_mem_request /\ rob'[x].uop = rob[x].uop
       \/ rob'[x].uop # NULL /\ rob'[x].uop.op \in {"LOAD", "STORE"}

\* The operations in G are done: they let their dependents go.
PlacesQuiet(G) ==
  /\ \A x \in Place :
       /\ Used(x)' => Used(x) /\ mob'[x].rob_ptr = mob[x].rob_ptr /\ mob'[x].access = mob[x].access
       /\ mob'[x].access = mob[x].access \/ mob'[x].access = NULL
       /\ ~Used(x)' => mob'[x].access = NULL \/ ~Used(x)
       /\ Used(x)' /\ ~mob'[x].processed <=> Used(x) /\ ~mob[x].processed /\ x \notin G
       /\ mob'[x].mem_deps_ptr_array = IF x \in G THEN <<>> ELSE mob[x].mem_deps_ptr_array
       /\ x \in G => mob[x].wait_mem_deps_number = 0
  /\ \A b \in 0 .. LOAD_HASH_SIZE - 1 :
       load_hash'[b] = load_hash[b] \/ (load_hash'[b] = NULL /\ load_hash[b] \in G)
  /\ \A b \in 0 .. STORE_HASH_SIZE - 1 :
       store_hash'[b] = store_hash[b] \/ (store_hash'[b] = NULL /\ store_hash[b] \in G)
  /\ \A x, y \in Place : Used(x)' /\ Used(y)' => (Older(x, y)' <=> Older(x, y))
  /\ \A o \in Memory : MOB[o] = 0 => mob_start'[o] = mob_start[o]

AtMostOne(G) == \A x, y \in G : x = y

LEMMA NoneOrOne == AtMostOne({}) /\ \A p : AtMostOne({p})
BY DEF AtMostOne

\* Places that leave at the front of a buffer leave the order of the others.
LEMMA OlderSame ==
  ASSUME IInv, IInv', LinesQuiet, NEW op \in Memory, NEW n \in 0 .. mob_used[op],
         \A o \in Memory : MOB[o] # 0 =>
           mob_start'[o] = IF o = op /\ n # 0 THEN (mob_start[o] + n) % MOB[o] ELSE mob_start[o],
         mob_used'[op] = mob_used[op] - n,
         \A x \in Place : Used(x)' => Used(x) /\ mob'[x].rob_ptr = mob[x].rob_ptr
  PROVE  \A x, y \in Place : Used(x)' /\ Used(y)' => (Older(x, y)' <=> Older(x, y))
<1>1. /\ RobShape /\ MobShape /\ PlaceInv /\ MobShape' /\ PlaceInv' /\ OwnerInv
      /\ n \in Nat /\ mob_used[op] \in Nat /\ mob_used[op] <= MOB[op] /\ MOB[op] \in Nat /\ n <= mob_used[op]
  BY MobSize DEF IInv, MobShape
<1>2. ASSUME NEW x \in Place, Used(x)'
      PROVE  /\ Distance(x)' = IF x[1] = op THEN Distance(x) - n ELSE Distance(x)
             /\ Distance(x) \in Nat
             /\ Used(x) /\ Owner(x)' = Owner(x) /\ Owner(x) \in Slot /\ Kind(Owner(x)) = x[1]
             /\ rob'[Owner(x)].uop_number = rob[Owner(x)].uop_number
  <2>1. x[1] \in Memory /\ MOB[x[1]] \in Nat \ {0} /\ Distance(x) \in 0 .. MOB[x[1]] - 1
    BY <1>1, PlaceType, DistanceIs
  <2>2. Used(x) /\ Owner(x)' = Owner(x)
    BY <1>2 DEF Owner
  <2>3. Owner(x) \in Slot /\ Kind(Owner(x)) = x[1]
    BY <1>1, <2>2 DEF PlaceInv
  <2>5. PICK s \in Slot : s = Owner(x)
    BY <2>3
  <2>6. rob'[s].uop # NULL
    BY <1>1, <1>2, <2>2, <2>5 DEF PlaceInv, IsMemory, Busy
  <2>7. rob'[s].uop_number = rob[s].uop_number
    BY <2>6 DEF LinesQuiet
  <2>8. Distance(x)' = IF x[1] = op THEN Distance(x) - n ELSE Distance(x)
    <3>1. CASE x[1] # op \/ n = 0
      <4>1. mob_start'[x[1]] = mob_start[x[1]]
        BY <2>1, <3>1
      <4>2. Distance(x)' = Distance(x)
        BY <4>1 DEF Distance
      <4> QED BY <2>1, <3>1, <4>2
    <3>2. CASE x[1] = op /\ n # 0
      <4>1. mob_start'[x[1]] = (mob_start[x[1]] + n) % MOB[x[1]] /\ n \in 0 .. MOB[x[1]]
        BY <1>1, <2>1, <3>2
      <4>2. Distance(x)' = IF n <= Distance(x) THEN Distance(x) - n ELSE Distance(x) - n + MOB[x[1]]
        BY <1>1, <4>1, DistanceMoves
      <4>3. Distance(x)' < mob_used'[op]
        BY <1>1, <1>2, <3>2 DEF PlaceInv
      <4> QED BY <1>1, <2>1, <3>2, <4>2, <4>3
    <3> QED BY <3>1, <3>2
  <2> QED BY <2>1, <2>2, <2>3, <2>5, <2>7, <2>8
<1>3. ASSUME NEW x \in Place, NEW y \in Place, Used(x)', Used(y)'
      PROVE  Older(x, y)' <=> Older(x, y)
  <2>1. PICK s \in Slot : s = Owner(x) /\ s = Owner(x)' /\ Kind(s) = x[1] /\ rob'[s].uop_number = rob[s].uop_number
    BY <1>2, <1>3
  <2>2. PICK t \in Slot : t = Owner(y) /\ t = Owner(y)' /\ Kind(t) = y[1] /\ rob'[t].uop_number = rob[t].uop_number
    BY <1>2, <1>3
  <2>3. Before(s, t)' <=> Before(s, t)
    BY <2>1, <2>2 DEF Before
  <2>4. s = t => (Distance(x)' < Distance(y)' <=> Distance(x) < Distance(y))
    <3>1. ASSUME s = t PROVE Distance(x)' < Distance(y)' <=> Distance(x) < Distance(y)
      <4>1. x[1] = y[1] /\ Distance(x) \in Nat /\ Distance(y) \in Nat
        BY <1>2, <1>3, <2>1, <2>2, <3>1
      <4>2. /\ Distance(x)' = IF x[1] = op THEN Distance(x) - n ELSE Distance(x)
            /\ Distance(y)' = IF y[1] = op THEN Distance(y) - n ELSE Distance(y)
        BY <1>2, <1>3
      <4> QED BY <1>1, <4>1, <4>2
    <3> QED BY <3>1
  <2> QED BY <2>1, <2>2, <2>3, <2>4 DEF Older, Owner
<1> QED BY <1>3

LEMMA LineStepQuiet ==
  ASSUME NEW s \in Slot, NEW done \in BOOLEAN, LineStep(s, done),
         \A x \in Slot : rob'[x].waiting_mem_request = rob[x].waiting_mem_request
                         \/ (Busy(x) /\ Kind(x) \in {"LOAD", "STORE"})
  PROVE  LinesQuiet
<1>1. \A x \in Slot : /\ rob'[x].uop = rob[x].uop /\ rob'[x].uop_number = rob[x].uop_number
                      /\ rob'[x].stage = IF done /\ x = s THEN "COMMIT" ELSE rob[x].stage
                      /\ rob'[x].reg_deps_ptr_array = IF done /\ x = s THEN <<>> ELSE rob[x].reg_deps_ptr_array
  BY DEF LineStep
<1>2. \A x \in Slot : Pending(x)' => Pending(x) /\ rob'[x].reg_deps_ptr_array = rob[x].reg_deps_ptr_array
  BY <1>1 DEF Pending
<1>3. \A x \in Slot : rob'[x].reg_deps_ptr_array \in {<<>>, rob[x].reg_deps_ptr_array}
  BY <1>1
<1>4. \A x \in Slot : rob'[x].waiting_mem_request = rob[x].waiting_mem_request
                      \/ (rob'[x].uop # NULL /\ rob'[x].uop.op \in {"LOAD", "STORE"})
  BY <1>1 DEF Busy, Kind
<1> QED BY <1>1, <1>2, <1>3, <1>4, Zenon DEF LinesQuiet

LEMMA LinesSameQuiet ==
  ASSUME \A x \in Slot : /\ rob'[x].uop = rob[x].uop /\ rob'[x].uop_number = rob[x].uop_number
                         /\ rob'[x].reg_deps_ptr_array = rob[x].reg_deps_ptr_array
                         /\ rob'[x].waiting_mem_request = rob[x].waiting_mem_request
                         /\ Pending(x)' => Pending(x)
  PROVE  LinesQuiet
BY DEF LinesQuiet

LEMMA PlacesSameQuiet ==
  ASSUME IInv, IInv', LinesQuiet, mob_start' = mob_start, mob_used' = mob_used,
         load_hash' = load_hash, store_hash' = store_hash,
         \A x \in Place : /\ Used(x)' = Used(x) /\ mob'[x].rob_ptr = mob[x].rob_ptr /\ mob'[x].access = mob[x].access
                          /\ mob'[x].processed = mob[x].processed
                          /\ mob'[x].mem_deps_ptr_array = mob[x].mem_deps_ptr_array
  PROVE  PlacesQuiet({})
<1>1. "LOAD" \in Memory /\ mob_used["LOAD"] \in Nat
  BY DEF Memory, IInv, MobShape
<1>2. \A x, y \in Place : Used(x)' /\ Used(y)' => (Older(x, y)' <=> Older(x, y))
  <2>1. 0 \in 0 .. mob_used["LOAD"] /\ mob_used'["LOAD"] = mob_used["LOAD"] - 0
    BY <1>1
  <2>2. \A o \in Memory : MOB[o] # 0 =>
          mob_start'[o] = IF o = "LOAD" /\ 0 # 0 THEN (mob_start[o] + 0) % MOB[o] ELSE mob_start[o]
    OBVIOUS
  <2> QED BY <1>1, <2>1, <2>2, OlderSame
<1> QED BY <1>2, Zenon DEF PlacesQuiet

LEMMA DispatchQuiet ==
  ASSUME IInv, IInv', NEW k \in DOMAIN unified_reservation_station, dispatch(k)
  PROVE  LinesQuiet /\ PlacesQuiet({})
<1> USE DEF IInv
<1>1. PICK s \in Slot : s = unified_reservation_station[k]
  BY DEF StageShape
<1>2. Busy(s) /\ rob[s].stage = "RENAME"
  BY <1>1 DEF StageInv
<1>3. rob' = [rob EXCEPT ![s].stage = "EXECUTION"] /\ UNCHANGED mobVars
  BY <1>1 DEF dispatch
<1>4. \A x \in Slot :
           /\ rob'[x].uop = rob[x].uop /\ rob'[x].uop_number = rob[x].uop_number
           /\ rob'[x].stage = IF x = s THEN "EXECUTION" ELSE rob[x].stage
           /\ rob'[x].waiting_mem_request = rob[x].waiting_mem_request
           /\ rob'[x].reg_deps_ptr_array = rob[x].reg_deps_ptr_array
  <2>1. rob \in [Slot -> LineShape] /\ rob[s] \in LineShape
    BY DEF RobShape
  <2>2. rob' = [rob EXCEPT ![s] = [rob[s] EXCEPT !.stage = "EXECUTION"]]
    BY <1>3, Zenon
  <2> QED BY <2>1, <2>2 DEF LineShape
<1>5. LinesQuiet
  <2>1. \A x \in Slot : Pending(x)' => Pending(x)
    BY <1>2, <1>4 DEF Pending
  <2> QED BY <1>4, <2>1, LinesSameQuiet
<1> QED BY <1>3, <1>5, PlacesSameQuiet DEF mobVars, Used

LEMMA ExecuteQuiet ==
  ASSUME IInv, IInv', NEW s \in unified_functional_units, execute(s)
  PROVE  LinesQuiet /\ PlacesQuiet({})
<1> USE DEF IInv
<1>1. s \in Slot /\ Busy(s) /\ rob[s].stage = "EXECUTION"
  BY DEF StageInv, StageShape
<1>2. CASE rob[s].uop.op \in Memory
  <2>1. /\ mob' = [p \in Place |-> IF p \in ToSet(PlacesOf(s)) THEN [mob[p] EXCEPT !.uop_executed = TRUE] ELSE mob[p]]
        /\ rob' = rob /\ mob_start' = mob_start /\ mob_used' = mob_used
        /\ load_hash' = load_hash /\ store_hash' = store_hash
    BY <1>2 DEF execute
  <2>2. LinesQuiet
    BY <2>1, LinesSameQuiet DEF Pending
  <2>3. \A x \in Place : /\ mob'[x].status = mob[x].status /\ mob'[x].rob_ptr = mob[x].rob_ptr
                         /\ mob'[x].access = mob[x].access /\ mob'[x].processed = mob[x].processed
                         /\ mob'[x].mem_deps_ptr_array = mob[x].mem_deps_ptr_array
    <3> TAKE x \in Place
    <3>1. mob[x] \in EntryShape
      BY DEF MobShape
    <3>2. mob'[x] = IF x \in ToSet(PlacesOf(s)) THEN [mob[x] EXCEPT !.uop_executed = TRUE] ELSE mob[x]
      BY <2>1
    <3> QED BY <3>1, <3>2 DEF EntryShape
  <2>4. \A x \in Place : Used(x)' = Used(x)
    BY <2>3 DEF Used
  <2> QED BY <2>1, <2>2, <2>3, <2>4, PlacesSameQuiet
<1>3. CASE rob[s].uop.op \notin Memory
  <2> DEFINE lines == [rob EXCEPT ![s].stage = "COMMIT"]
  <2>2. /\ solve_registers_dependency(lines, s)
        /\ UNCHANGED mobVars /\ UNCHANGED <<robStart, robUsed, renameCounter>>
    BY <1>3 DEF execute, mobVars
  <2>3. /\ LineBase(lines)
        /\ \A x \in Slot : /\ lines[x].stage = IF x = s THEN "COMMIT" ELSE rob[x].stage
                           /\ lines[x].waiting_mem_request = rob[x].waiting_mem_request
                           /\ lines[x].sent = rob[x].sent
    <3>1. rob \in [Slot -> LineShape] /\ rob[s] \in LineShape
      BY <1>1 DEF RobShape
    <3>2. lines = [rob EXCEPT ![s] = [rob[s] EXCEPT !.stage = "COMMIT"]]
      BY Zenon
    <3> HIDE DEF lines
    <3> QED BY <3>1, <3>2 DEF LineShape, LineBase
  <2> HIDE DEF lines
  <2>4. /\ LineStep(s, TRUE)
        /\ \A x \in Slot : rob'[x].waiting_mem_request = rob[x].waiting_mem_request
    BY <1>1, <2>2, <2>3, SolvesLine
  <2>5. LinesQuiet
    BY <1>1, <2>4, LineStepQuiet
  <2> QED BY <2>2, <2>5, PlacesSameQuiet DEF mobVars, Used
<1> QED BY <1>2, <1>3

LEMMA SendQuiet ==
  ASSUME IInv, IInv', NEW op \in Memory, mob_send(op)
  PROVE  LinesQuiet /\ PlacesQuiet({})
<1> USE DEF IInv
<1>1. PICK p \in Place : p = Candidate(op)
  BY CandidateIs DEF mob_send
<1>2. Used(p)
  BY <1>1, CandidateIs DEF mob_send
<1>3. /\ mob' = [mob EXCEPT ![p].sent = TRUE]
      /\ rob' = [rob EXCEPT ![Owner(p)].sent = TRUE]
      /\ mob_start' = mob_start /\ mob_used' = mob_used
      /\ load_hash' = load_hash /\ store_hash' = store_hash
  BY <1>1 DEF mob_send, Taken, Owner
<1>4. PICK s \in Slot : s = Owner(p)
  BY <1>2, OwnedPlace
<1>5. \A x \in Slot :
           /\ rob'[x].uop = rob[x].uop /\ rob'[x].uop_number = rob[x].uop_number
           /\ rob'[x].stage = rob[x].stage
           /\ rob'[x].waiting_mem_request = rob[x].waiting_mem_request
           /\ rob'[x].reg_deps_ptr_array = rob[x].reg_deps_ptr_array
  <2>1. rob \in [Slot -> LineShape] /\ rob[s] \in LineShape
    BY DEF RobShape
  <2>2. rob' = [rob EXCEPT ![s] = [rob[s] EXCEPT !.sent = TRUE]]
    BY <1>3, <1>4, Zenon
  <2> QED BY <2>1, <2>2 DEF LineShape
<1>6. LinesQuiet
  BY <1>5, LinesSameQuiet DEF Pending
<1>7. \A x \in Place :
           /\ mob'[x].status = mob[x].status /\ mob'[x].rob_ptr = mob[x].rob_ptr /\ mob'[x].access = mob[x].access
           /\ mob'[x].processed = mob[x].processed
           /\ mob'[x].mem_deps_ptr_array = mob[x].mem_deps_ptr_array
  <2>1. mob \in [Place -> EntryShape] /\ mob[p] \in EntryShape
    BY DEF MobShape
  <2>2. mob' = [mob EXCEPT ![p] = [mob[p] EXCEPT !.sent = TRUE]]
    BY <1>3, Zenon
  <2> QED BY <2>1, <2>2 DEF EntryShape
<1>8. \A x \in Place : Used(x)' = Used(x)
  BY <1>7 DEF Used
<1> QED BY <1>3, <1>6, <1>7, <1>8, PlacesSameQuiet

LEMMA AnswerQuiet ==
  ASSUME IInv, IInv', NEW p \in Place, Answer(p)
  PROVE  LinesQuiet /\ PlacesQuiet({})
<1> USE DEF IInv
<1>1. /\ mob[p].status = "WAIT" /\ mob' = [mob EXCEPT ![p].status = "READY"]
      /\ rob' = rob /\ mob_start' = mob_start /\ mob_used' = mob_used
      /\ load_hash' = load_hash /\ store_hash' = store_hash
  BY DEF Answer, robVars
<1>2. LinesQuiet
  BY <1>1, LinesSameQuiet DEF Pending
<1>3. \A x \in Place :
           /\ mob'[x].status = (IF x = p THEN "READY" ELSE mob[x].status)
           /\ mob'[x].rob_ptr = mob[x].rob_ptr /\ mob'[x].access = mob[x].access
           /\ mob'[x].processed = mob[x].processed
           /\ mob'[x].mem_deps_ptr_array = mob[x].mem_deps_ptr_array
  <2>1. mob \in [Place -> EntryShape] /\ mob[p] \in EntryShape
    BY DEF MobShape
  <2>2. mob' = [mob EXCEPT ![p] = [mob[p] EXCEPT !.status = "READY"]]
    BY <1>1, Zenon
  <2> QED BY <2>1, <2>2 DEF EntryShape
<1>4. \A x \in Place : Used(x)' = Used(x)
  BY <1>1, <1>3 DEF Used
<1> QED BY <1>1, <1>2, <1>3, <1>4, PlacesSameQuiet

LEMMA WriteQuiet ==
  ASSUME IInv, IInv', mob_write
  PROVE  LinesQuiet /\ \E G : PlacesQuiet(G) /\ AtMostOne(G)
<1> USE DEF IInv
<1>0. "STORE" \in Memory /\ MOB["STORE"] = MOB_WRITE
  BY DEF Memory, MOB
<1>1. PICK p \in Place : p = Candidate("STORE")
  BY <1>0, CandidateIs DEF mob_write
<1>2. p[1] = "STORE" /\ Used(p) /\ Sendable(p) /\ Distance(p) = 0
  BY <1>0, <1>1, CandidateIs DEF mob_write
<1>3. PICK s \in Slot : s = Owner(p)
  BY <1>2, OwnedPlace
<1>4. WriteFacts(p, s)
  BY <1>2, <1>3, WriteIs
<1>5. mob[p].wait_mem_deps_number = 0 /\ Busy(s) /\ Kind(s) = "STORE"
  BY <1>4 DEF WriteFacts
<1>6. \A w \in Forwarded(mob, p) : w \in Place /\ Used(w)
  BY <1>4 DEF WriteFacts
<1>7. /\ StoreDone(p)
      /\ mob_used' = [mob_used EXCEPT !["STORE"] = @ - 1]
      /\ mob_start' = [mob_start EXCEPT !["STORE"] = (@ + 1) % MOB_WRITE]
      /\ UNCHANGED <<robStart, robUsed, renameCounter>>
  BY <1>1 DEF mob_write
<1>8. PICK done \in BOOLEAN :
        /\ LineStep(s, done)
        /\ \A x \in Slot :
             rob'[x].waiting_mem_request =
               IF x = s THEN rob[x].waiting_mem_request - 1 ELSE rob[x].waiting_mem_request
  BY <1>4, <1>7, WriteLines
<1>9. LinesQuiet
  BY <1>5, <1>8, LineStepQuiet
<1>10. WritePlaces(p, Forwarded(mob, p)) /\ TablesForget(p)
  BY <1>4, <1>7, StorePlaces
<1>11. /\ mob'[p].status = "FREE" /\ mob'[p].access = NULL
       /\ \A x \in Place :
            /\ mob'[x].mem_deps_ptr_array = IF x = p THEN <<>> ELSE mob[x].mem_deps_ptr_array
            /\ x # p =>
                 /\ mob'[x].rob_ptr = mob[x].rob_ptr /\ mob'[x].access = mob[x].access
                 /\ mob'[x].processed = mob[x].processed
                 /\ Used(x)' = Used(x)
  <2>1. mob'[p] = CleanEntry(<<>>)
    BY <1>10 DEF WritePlaces
  <2>2. <<>> \in Seq(Place)
    OBVIOUS
  <2>3. mob'[p].status = "FREE" /\ mob'[p].access = NULL
    BY <2>1, <2>2, CleanEntryIs
  <2> QED BY <1>6, <1>10, <2>3 DEF WritePlaces, Used
<1>12. 1 \in 0 .. mob_used["STORE"]
  <2>1. 0 < mob_used["STORE"] /\ mob_used["STORE"] \in Nat
    BY <1>0, <1>2 DEF PlaceInv, MobShape
  <2> QED BY <2>1
<1>13. \A x, y \in Place : Used(x)' /\ Used(y)' => (Older(x, y)' <=> Older(x, y))
  <2>1. mob_start \in [Memory -> Nat] /\ mob_used \in [Memory -> Nat]
    BY DEF MobShape
  <2>2. \A o \in Memory : MOB[o] # 0 =>
          mob_start'[o] = IF o = "STORE" /\ 1 # 0 THEN (mob_start[o] + 1) % MOB[o] ELSE mob_start[o]
    BY <1>0, <1>7, <2>1
  <2>3. mob_used'["STORE"] = mob_used["STORE"] - 1
    BY <1>0, <1>7, <2>1
  <2>4. \A x \in Place : Used(x)' => Used(x) /\ mob'[x].rob_ptr = mob[x].rob_ptr
    BY <1>11 DEF Used
  <2> QED BY <1>0, <1>9, <1>12, <2>2, <2>3, <2>4, OlderSame
<1>14. PlacesQuiet({p})
  <2>1. ~mob[p].processed
    BY <1>4 DEF WriteFacts
  <2>2. \A x \in Place :
       /\ Used(x)' => Used(x) /\ mob'[x].rob_ptr = mob[x].rob_ptr /\ mob'[x].access = mob[x].access
       /\ mob'[x].access = mob[x].access \/ mob'[x].access = NULL
       /\ ~Used(x)' => mob'[x].access = NULL \/ ~Used(x)
       /\ Used(x)' /\ ~mob'[x].processed <=> Used(x) /\ ~mob[x].processed /\ x \notin {p}
       /\ mob'[x].mem_deps_ptr_array = IF x \in {p} THEN <<>> ELSE mob[x].mem_deps_ptr_array
       /\ x \in {p} => mob[x].wait_mem_deps_number = 0
    BY <1>2, <1>5, <1>11, <2>1 DEF Used
  <2>3. /\ \A b \in 0 .. LOAD_HASH_SIZE - 1 :
             load_hash'[b] = load_hash[b] \/ (load_hash'[b] = NULL /\ load_hash[b] \in {p})
        /\ \A b \in 0 .. STORE_HASH_SIZE - 1 :
             store_hash'[b] = store_hash[b] \/ (store_hash'[b] = NULL /\ store_hash[b] \in {p})
    BY <1>10 DEF TablesForget
  <2>4. \A o \in Memory : MOB[o] = 0 => mob_start'[o] = mob_start[o]
    <3>1. MOB["STORE"] # 0
      BY <1>2, PlaceType
    <3>2. mob_start \in [Memory -> Nat]
      BY DEF MobShape
    <3> QED BY <1>7, <3>1, <3>2
  <2> QED BY <1>13, <2>2, <2>3, <2>4, Zenon DEF PlacesQuiet
<1> QED BY <1>9, <1>14, NoneOrOne

LEMMA CleanQuiet ==
  ASSUME IInv, IInv', NEW p \in Place, clean_mob(p)
  PROVE  LinesQuiet /\ \E G : PlacesQuiet(G) /\ AtMostOne(G)
<1> USE DEF IInv
<1>1. PICK s \in Slot : s = Owner(p)
  BY CleanedIs
<1>2. CleanedFacts(p, s)
  BY <1>1, CleanedIs
<1>3. /\ Used(p) /\ ~mob[p].processed /\ mob[p].wait_mem_deps_number = 0
      /\ Busy(s) /\ Kind(s) = p[1]
  BY <1>2 DEF CleanedFacts
<1>4. \A w \in Forwarded(mob, p) : w \in Place /\ Used(w)
  BY <1>2 DEF CleanedFacts
<1>5. PICK done \in BOOLEAN :
           /\ LineStep(s, done)
           /\ \A x \in Slot :
                rob'[x].waiting_mem_request =
                  IF p[1] = "LOAD" /\ x = s THEN rob[x].waiting_mem_request - 1 ELSE rob[x].waiting_mem_request
  BY <1>1, CleanLines
<1>6. LinesQuiet
  BY <1>3, <1>5, LineStepQuiet
<1>7. Wakes(p, Forwarded(mob, p)) /\ TablesForget(p)
  BY CleanPlaces
<1>8. mob_start' = mob_start /\ mob_used' = mob_used
  BY DEF clean_mob
<1>9. \A x \in Place :
        /\ mob'[x].rob_ptr = mob[x].rob_ptr /\ mob'[x].access = mob[x].access
        /\ mob'[x].processed = IF x = p THEN TRUE ELSE mob[x].processed
        /\ mob'[x].mem_deps_ptr_array = IF x = p THEN <<>> ELSE mob[x].mem_deps_ptr_array
        /\ Used(x)' = Used(x)
  BY <1>4, <1>7 DEF Wakes, Used
<1>10. \A x, y \in Place : Used(x)' /\ Used(y)' => (Older(x, y)' <=> Older(x, y))
  <2>1. "LOAD" \in Memory /\ mob_used["LOAD"] \in Nat
    BY DEF Memory, MobShape
  <2>2. 0 \in 0 .. mob_used["LOAD"] /\ mob_used'["LOAD"] = mob_used["LOAD"] - 0
    BY <1>8, <2>1
  <2>3. \A o \in Memory : MOB[o] # 0 =>
          mob_start'[o] = IF o = "LOAD" /\ 0 # 0 THEN (mob_start[o] + 0) % MOB[o] ELSE mob_start[o]
    BY <1>8
  <2>4. \A x \in Place : Used(x)' => Used(x) /\ mob'[x].rob_ptr = mob[x].rob_ptr
    BY <1>9
  <2> QED BY <1>6, <2>1, <2>2, <2>3, <2>4, OlderSame
<1>11. PlacesQuiet({p})
  <2>2. \A x \in Place :
       /\ Used(x)' => Used(x) /\ mob'[x].rob_ptr = mob[x].rob_ptr /\ mob'[x].access = mob[x].access
       /\ mob'[x].access = mob[x].access \/ mob'[x].access = NULL
       /\ ~Used(x)' => mob'[x].access = NULL \/ ~Used(x)
       /\ Used(x)' /\ ~mob'[x].processed <=> Used(x) /\ ~mob[x].processed /\ x \notin {p}
       /\ mob'[x].mem_deps_ptr_array = IF x \in {p} THEN <<>> ELSE mob[x].mem_deps_ptr_array
       /\ x \in {p} => mob[x].wait_mem_deps_number = 0
    BY <1>3, <1>9
  <2>3. /\ \A b \in 0 .. LOAD_HASH_SIZE - 1 :
             load_hash'[b] = load_hash[b] \/ (load_hash'[b] = NULL /\ load_hash[b] \in {p})
        /\ \A b \in 0 .. STORE_HASH_SIZE - 1 :
             store_hash'[b] = store_hash[b] \/ (store_hash'[b] = NULL /\ store_hash[b] \in {p})
    BY <1>7 DEF TablesForget
  <2> QED BY <1>8, <1>10, <2>2, <2>3, Zenon DEF PlacesQuiet
<1> QED BY <1>6, <1>11, NoneOrOne

LEMMA CommitQuiet ==
  ASSUME IInv, IInv', commit
  PROVE  LinesQuiet /\ PlacesQuiet({})
<1> USE DEF IInv
<1>1. PICK h \in Slot, op \in Memory, n \in Nat : HeadFacts(h, op, n) /\ CommitEffect(h, op, n)
  BY CommitIs
<1>2. /\ h = robStart /\ rob'[h].uop = NULL /\ rob'[h].stage = "DECODE"
      /\ rob'[h].uop_number = 0 /\ rob'[h].waiting_mem_request = 0 /\ rob'[h].reg_deps_ptr_array = <<>>
      /\ \A x \in Slot : x # h => rob'[x] = rob[x]
      /\ \A x \in Place : mob'[x] = IF Used(x) /\ Owner(x) = h THEN CleanEntry(<<>>) ELSE mob[x]
      /\ \A o \in Memory : mob_used'[o] = IF o = op THEN mob_used[o] - n ELSE mob_used[o]
      /\ \A o \in Memory : mob_start'[o] = IF o = op /\ n # 0 THEN (mob_start[o] + n) % MOB[o] ELSE mob_start[o]
      /\ load_hash' = load_hash /\ store_hash' = store_hash
  BY <1>1 DEF CommitEffect
<1>3. /\ n \in 0 .. mob_used[op]
      /\ \A x \in Place : Used(x) /\ Owner(x) = h => mob[x].processed /\ mob[x].mem_deps_ptr_array = <<>>
  BY <1>1 DEF HeadFacts
<1>4. LinesQuiet
  BY <1>2 DEF LinesQuiet, Pending
<1>5. ASSUME NEW x \in Place, Used(x), Owner(x) = h
      PROVE  mob'[x].status = "FREE" /\ mob'[x].access = NULL /\ mob'[x].mem_deps_ptr_array = <<>>
  <2>1. <<>> \in Seq(Place) /\ mob'[x] = CleanEntry(<<>>)
    BY <1>2, <1>5
  <2> QED BY <2>1, CleanEntryIs
<1>6. \A x \in Place : ~(Used(x) /\ Owner(x) = h) => mob'[x] = mob[x]
  BY <1>2
<1>7. \A x \in Place :
       /\ Used(x)' => Used(x) /\ mob'[x].rob_ptr = mob[x].rob_ptr /\ mob'[x].access = mob[x].access
       /\ mob'[x].access = mob[x].access \/ mob'[x].access = NULL
       /\ ~Used(x)' => mob'[x].access = NULL \/ ~Used(x)
       /\ Used(x)' /\ ~mob'[x].processed <=> Used(x) /\ ~mob[x].processed /\ x \notin {}
       /\ mob'[x].mem_deps_ptr_array = IF x \in {} THEN <<>> ELSE mob[x].mem_deps_ptr_array
       /\ x \in {} => mob[x].wait_mem_deps_number = 0
  <2> TAKE x \in Place
  <2>1. CASE Used(x) /\ Owner(x) = h
    BY <1>3, <1>5, <2>1 DEF Used
  <2>2. CASE ~(Used(x) /\ Owner(x) = h)
    BY <1>6, <2>2 DEF Used
  <2> QED BY <2>1, <2>2
<1>8. \A x, y \in Place : Used(x)' /\ Used(y)' => (Older(x, y)' <=> Older(x, y))
  <2>1. \A x \in Place : Used(x)' => Used(x) /\ mob'[x].rob_ptr = mob[x].rob_ptr
    BY <1>7
  <2>2. mob_used'[op] = mob_used[op] - n
    BY <1>2
  <2> QED BY <1>2, <1>3, <1>4, <2>1, <2>2, OlderSame
<1>9. \A o \in Memory : MOB[o] = 0 => mob_start'[o] = mob_start[o]
  <2>1. n # 0 => MOB[op] # 0
    <3>1. n <= mob_used[op] /\ mob_used[op] <= MOB[op] /\ mob_used[op] \in Nat /\ MOB[op] \in Nat /\ n \in Nat
      BY <1>3, MobSize DEF MobShape
    <3> QED BY <3>1
  <2> QED BY <1>2, <2>1
<1> QED BY <1>2, <1>4, <1>7, <1>8, <1>9, Zenon DEF PlacesQuiet

LEMMA StutterQuiet ==
  ASSUME IInv, IInv', rob' = rob, mob' = mob, mob_start' = mob_start, mob_used' = mob_used,
         load_hash' = load_hash, store_hash' = store_hash
  PROVE  LinesQuiet /\ PlacesQuiet({})
<1>1. LinesQuiet
  BY LinesSameQuiet DEF Pending
<1> QED BY <1>1, PlacesSameQuiet DEF Used

\* Only rename gives a line, and places, to a uop.
LEMMA NextQuiet ==
  ASSUME IInv, IInv', [Next]_vars, ~\E u \in Uop : rename(u)
  PROVE  LinesQuiet /\ \E G : PlacesQuiet(G) /\ AtMostOne(G)
<1>1. ASSUME NEW k \in DOMAIN unified_reservation_station, dispatch(k) PROVE LinesQuiet /\ \E G : PlacesQuiet(G) /\ AtMostOne(G)
  BY <1>1, NoneOrOne, DispatchQuiet
<1>2. ASSUME NEW s \in unified_functional_units, execute(s) PROVE LinesQuiet /\ \E G : PlacesQuiet(G) /\ AtMostOne(G)
  BY <1>2, NoneOrOne, ExecuteQuiet
<1>3. ASSUME NEW op \in Memory, mob_unavailable(op) \/ mob_refused(op) PROVE LinesQuiet /\ \E G : PlacesQuiet(G) /\ AtMostOne(G)
  BY <1>3, NoneOrOne, StutterQuiet DEF mob_unavailable, mob_refused, robVars, mobVars
<1>4. ASSUME NEW op \in Memory, mob_send(op) PROVE LinesQuiet /\ \E G : PlacesQuiet(G) /\ AtMostOne(G)
  BY <1>4, NoneOrOne, SendQuiet
<1>5. ASSUME mob_write PROVE LinesQuiet /\ \E G : PlacesQuiet(G) /\ AtMostOne(G)
  BY <1>5, WriteQuiet
<1>6. ASSUME NEW p \in Place, Answer(p) PROVE LinesQuiet /\ \E G : PlacesQuiet(G) /\ AtMostOne(G)
  BY <1>6, NoneOrOne, AnswerQuiet
<1>7. ASSUME NEW p \in Place, clean_mob(p) PROVE LinesQuiet /\ \E G : PlacesQuiet(G) /\ AtMostOne(G)
  BY <1>7, CleanQuiet
<1>8. ASSUME commit PROVE LinesQuiet /\ \E G : PlacesQuiet(G) /\ AtMostOne(G)
  BY <1>8, NoneOrOne, CommitQuiet
<1>9. ASSUME Finished \/ UNCHANGED vars PROVE LinesQuiet /\ \E G : PlacesQuiet(G) /\ AtMostOne(G)
  BY <1>9, NoneOrOne, StutterQuiet DEF Finished, vars, robVars, mobVars
<1> QED BY <1>1, <1>2, <1>3, <1>4, <1>5, <1>6, <1>7, <1>8, <1>9 DEF Next

-----------------------------------------------------------------------------
(* Lines and places that are free are clean.                               *)

CleanInv ==
  /\ \A s \in Slot : /\ rob[s].uop_number <= MAX_UOPS
                     /\ ~(Busy(s) /\ Kind(s) \in {"LOAD", "STORE"}) => rob[s].waiting_mem_request = 0
  /\ \A p \in Place : ~Used(p) => mob[p].access = NULL
  /\ \A op \in Memory : MOB[op] = 0 => mob_start[op] = 0

LEMMA InitialClean == Init => CleanInv
<1> SUFFICES ASSUME Init PROVE CleanInv
  OBVIOUS
<1>1. MAX_UOPS \in Nat
  BY SizesAssumption
<1>2. \A s \in Slot : rob[s].uop_number = 0 /\ rob[s].waiting_mem_request = 0
  BY DEF Init, CleanLine
<1>3. \A p \in Place : mob[p].access = NULL
  BY DEF Init, CleanEntry
<1>4. \A op \in Memory : mob_start[op] = 0
  BY DEF Init
<1> QED BY <1>1, <1>2, <1>3, <1>4 DEF CleanInv

LEMMA RenameClean ==
  ASSUME IInv, CleanInv, NEW u \in Uop, rename(u)
  PROVE  CleanInv'
<1> USE DEF IInv
<1>1. PICK s : s = robEnd
  OBVIOUS
<1>2. LinesRenamed(u, s)
  BY <1>1, RenamedLines
<1>3. /\ rob'[s].uop = u /\ rob'[s].uop_number = renameCounter
      /\ rob'[s].waiting_mem_request = IF u.op \in {"LOAD", "STORE"} THEN Len(u.accesses) ELSE 0
      /\ \A x \in Slot : x # s =>
           /\ rob'[x].uop = rob[x].uop /\ rob'[x].uop_number = rob[x].uop_number
           /\ rob'[x].waiting_mem_request = rob[x].waiting_mem_request
  BY <1>2 DEF LinesRenamed
<1>4. renameCounter <= MAX_UOPS /\ u # NULL
  BY NullAssumption, SizesAssumption DEF RobShape
<1>5. \A x \in Slot : /\ rob'[x].uop_number <= MAX_UOPS
                      /\ ~(rob'[x].uop # NULL /\ rob'[x].uop.op \in {"LOAD", "STORE"}) => rob'[x].waiting_mem_request = 0
  BY <1>3, <1>4 DEF CleanInv, Busy, Kind
<1>6. \A x \in Place : mob'[x].status = "FREE" => mob'[x].access = NULL
  <2>1. CASE u.op \in Memory
    <3>1. PlacesRenamed(u, s) /\ NewFacts(u, s)
      BY <1>1, <2>1, RenameMob, NewUop
    <3>2. \A x \in Place : x \notin ToSet(NewPlaces(u)) =>
            mob'[x].status = mob[x].status /\ mob'[x].access = mob[x].access
      BY <3>1 DEF PlacesRenamed
    <3>3. \A x \in Place : x \in ToSet(NewPlaces(u)) => mob'[x].status = "WAIT"
      BY <3>1 DEF PlacesRenamed, NewFacts
    <3> QED BY <3>2, <3>3 DEF CleanInv, Used
  <2>2. CASE u.op \notin Memory
    <3>1. mob' = mob
      BY <2>2 DEF rename
    <3> QED BY <3>1 DEF CleanInv, Used
  <2> QED BY <2>1, <2>2
<1>7. \A op \in Memory : MOB[op] = 0 => mob_start'[op] = 0
  BY <1>2 DEF CleanInv, LinesRenamed
<1> QED BY <1>5, <1>6, <1>7 DEF CleanInv, Busy, Kind, Used

LEMMA QuietClean ==
  ASSUME IInv, CleanInv, LinesQuiet, NEW G, PlacesQuiet(G)
  PROVE  CleanInv'
<1>1. MAX_UOPS \in Nat
  BY SizesAssumption
<1>2. \A x \in Slot : rob'[x].uop_number <= MAX_UOPS
  BY <1>1 DEF LinesQuiet, CleanInv
<1>3. \A x \in Slot : ~(rob'[x].uop # NULL /\ rob'[x].uop.op \in {"LOAD", "STORE"}) => rob'[x].waiting_mem_request = 0
  BY DEF LinesQuiet, CleanInv, Busy, Kind
<1>4. \A x \in Place : ~Used(x)' => mob'[x].access = NULL
  BY DEF PlacesQuiet, CleanInv
<1>5. \A op \in Memory : MOB[op] = 0 => mob_start'[op] = 0
  BY DEF PlacesQuiet, CleanInv
<1> QED BY <1>2, <1>3, <1>4, <1>5 DEF CleanInv, Busy, Kind, Used

LEMMA AlwaysClean == Spec => [](IInv /\ CleanInv)
<1>1. IInv /\ CleanInv /\ IInv' /\ [Next]_vars => CleanInv'
  <2> SUFFICES ASSUME IInv, CleanInv, IInv', [Next]_vars PROVE CleanInv'
    OBVIOUS
  <2>1. ASSUME NEW u \in Uop, rename(u) PROVE CleanInv'
    BY <2>1, RenameClean
  <2>2. ASSUME ~\E u \in Uop : rename(u) PROVE CleanInv'
    BY <2>2, NextQuiet, QuietClean
  <2> QED BY <2>1, <2>2
<1>2. IInv /\ [Next]_vars => IInv'
  BY NextKeeps
<1> QED BY <1>1, <1>2, InitialInv, InitialClean, PTL DEF Spec

LEMMA TypesHold == IInv /\ CleanInv => TypeOK
<1> SUFFICES ASSUME IInv, CleanInv PROVE TypeOK
  OBVIOUS
<1> USE DEF IInv
<1>1. rob \in [Slot -> Line]
  <2>1. rob \in [Slot -> LineShape] /\ MAX_UOPS \in Nat
    BY SizesAssumption DEF RobShape
  <2> SUFFICES ASSUME NEW s \in Slot PROVE rob[s] \in Line
    BY <2>1
  <2>2. rob[s].wait_reg_deps_number \in Nat
    <3>1. RegWaits(rob)[s] \in Nat
      BY SlotFinite, RegDepsType, TimesBound DEF LineWaitInv
    <3> QED BY <3>1 DEF RegWaits
  <2>3. rob[s].waiting_mem_request \in Nat
    <3>1. CASE ~(Busy(s) /\ Kind(s) \in {"LOAD", "STORE"})
      BY <3>1 DEF CleanInv
    <3>2. CASE Busy(s) /\ Kind(s) = "LOAD"
      <4>1. IsMemory(s)
        BY <3>2 DEF IsMemory, Kind, Memory
      <4>2. rob[s].waiting_mem_request = Cardinality(Open(s))
        BY <3>2, <4>1 DEF DoneInv
      <4> QED BY <4>2, OpenFinite, FS_CardinalityType
    <3>3. CASE Busy(s) /\ Kind(s) = "STORE"
      <4>1. IsMemory(s)
        BY <3>3 DEF IsMemory, Kind, Memory
      <4>2. Kept(s) = rob[s].waiting_mem_request
        BY <3>3 DEF Kept
      <4>3. Kept(s) \in 0 .. Count(s) /\ Count(s) \in Nat
        BY <4>1, MemoryUop
      <4> QED BY <4>2, <4>3
    <3> QED BY <3>1, <3>2, <3>3
  <2>4. rob[s].uop_number \in 0 .. MAX_UOPS
    BY <2>1 DEF CleanInv, LineShape
  <2> QED BY <2>1, <2>2, <2>3, <2>4 DEF Line, LineShape
<1>2. mob \in [Place -> MobLine]
  <2>1. mob \in [Place -> EntryShape]
    BY DEF MobShape
  <2> SUFFICES ASSUME NEW p \in Place PROVE mob[p] \in MobLine
    BY <2>1
  <2>2. mob[p].wait_mem_deps_number \in Nat
    <3>1. MemWaits(mob)[p] \in Nat
      BY PlaceFinite, MemDepsType, TimesBound DEF PlaceWaitInv
    <3> QED BY <3>1 DEF MemWaits
  <2>3. mob[p].access \in Access \cup {NULL}
    <3>1. CASE ~Used(p)
      BY <3>1 DEF CleanInv
    <3>2. CASE Used(p)
      <4>1. PICK s \in Slot : s = Owner(p) /\ IsMemory(s)
        BY <3>2, OwnedPlace
      <4>2. PICK i \in 0 .. Count(s) - 1 : Count(s) - Kept(s) <= i /\ p = Nth(s, i)
        BY <3>2, <4>1, OwnedPlace
      <4>3. mob[p].access = rob[s].uop.accesses[i + 1]
        BY <4>1, <4>2, KeptPlace
      <4>4. /\ rob[s].uop \in Uop /\ rob[s].uop.op \in Memory /\ Count(s) \in Nat
        BY <4>1, MemoryUop DEF Kind
      <4>5. i + 1 \in 1 .. Count(s)
        BY <4>2, <4>4
      <4>6. DOMAIN rob[s].uop.accesses = 1 .. Count(s)
        BY <4>4, UopAssumption DEF Count
      <4>7. mob[p].access \in ToSet(rob[s].uop.accesses)
        BY <4>3, <4>5, <4>6 DEF ToSet
      <4> QED BY <4>4, <4>7 DEF Access
    <3> QED BY <3>1, <3>2
  <2> QED BY <2>1, <2>2, <2>3 DEF MobLine, EntryShape
<1>3. ASSUME NEW op \in Memory
      PROVE  /\ mob_start[op] \in Position(op) \cup {0}
             /\ mob_used[op] \in 0 .. MOB[op]
             /\ memory_executed[op] \in 0 .. MOB[op]
             /\ oldest_to_send[op] \in ({op} \X Position(op)) \cup {NULL}
  <2>1. MOB[op] \in Nat /\ mob_start[op] \in Nat /\ mob_used[op] \in Nat /\ mob_used[op] <= MOB[op]
    BY MobSize DEF MobShape
  <2>2. mob_start[op] \in Position(op) \cup {0}
    <3>1. CASE MOB[op] = 0
      BY <3>1 DEF CleanInv
    <3>2. CASE MOB[op] # 0
      BY <2>1, <3>2 DEF MobShape, Position
    <3> QED BY <3>1, <3>2
  <2>3. memory_executed[op] \in 0 .. MOB[op]
    <3> DEFINE all == {op} \X Position(op)
    <3>1. IsFiniteSet(Position(op)) /\ Cardinality(Position(op)) = MOB[op]
      <4>1. 0 \in Int /\ MOB[op] - 1 \in Int
        BY <2>1
      <4>2. IsFiniteSet(0 .. MOB[op] - 1)
            /\ Cardinality(0 .. MOB[op] - 1) = IF 0 > MOB[op] - 1 THEN 0 ELSE (MOB[op] - 1) - 0 + 1
        BY <4>1, FS_Interval, Zenon
      <4>3. Cardinality(0 .. MOB[op] - 1) = MOB[op]
        BY <2>1, <4>2
      <4> QED BY <4>2, <4>3 DEF Position
    <3>2. IsFiniteSet(all) /\ Cardinality(all) = MOB[op]
      <4>1. IsFiniteSet({op}) /\ Cardinality({op}) = 1
        BY FS_Singleton
      <4>2. IsFiniteSet(all) /\ Cardinality(all) = Cardinality({op}) * Cardinality(Position(op))
        BY <3>1, <4>1, FS_Product
      <4> QED BY <2>1, <3>1, <4>1, <4>2
    <3>3. ExecutedOf(op) \subseteq all
      <4>1. \A p \in Place : p[1] = op => p \in all
        BY PlaceType DEF Position
      <4> QED BY <4>1 DEF ExecutedOf
    <3> HIDE DEF all
    <3>4. IsFiniteSet(ExecutedOf(op)) /\ Cardinality(ExecutedOf(op)) <= MOB[op]
      BY <3>2, <3>3, FS_Subset
    <3>5. Cardinality(ExecutedOf(op)) \in Nat
      BY <3>4, FS_CardinalityType
    <3> QED BY <2>1, <3>4, <3>5 DEF CountInv
  <2>4. oldest_to_send[op] \in ({op} \X Position(op)) \cup {NULL}
    <3>1. oldest_to_send[op] \in Place \cup {NULL}
      BY DEF StageShape
    <3>2. oldest_to_send[op] # NULL => oldest_to_send[op][1] = op
      BY DEF CandidateInv
    <3> QED BY <3>1, <3>2, PlaceType DEF Position
  <2> QED BY <2>1, <2>2, <2>3, <2>4
<1> QED BY <1>1, <1>2, <1>3 DEF TypeOK, RobShape, StageShape, MobShape

\* Lines, places, rings, tables and counters of the pipeline keep their types.
THEOREM PipelineTypes == Spec => []TypeOK
BY AlwaysClean, TypesHold, PTL

-----------------------------------------------------------------------------
(* Operands: what rename makes of the producers of the registers it reads. *)

\* s is the last uop before t that writes the register r, which t reads, and is
\* not done.
Feeds(s, t, r) ==
  /\ Busy(s) /\ Busy(t) /\ Writes(s, r) /\ Reads(t, r) /\ Before(s, t) /\ Pending(s)
  /\ \A x \in Slot : Busy(x) /\ Writes(x, r) => ~(Before(s, x) /\ Before(x, t))

Full(dependents) == Len(dependents) = ROB_SIZE

\* A producer remembers who reads its registers, as long as it has place.
FeedInv ==
  \A s, t \in Slot : \A r \in Register :
    Feeds(s, t, r) => t \in ToSet(rob[s].reg_deps_ptr_array) \/ Full(rob[s].reg_deps_ptr_array)

\* Line s reads a register.
LEMMA ReadOne ==
  ASSUME StageShape, AliasInv, NEW s \in Slot, ~Busy(s), NEW line,
         NEW lines, Renaming(lines, line, s), NEW r \in Register, NEW x \in Slot
  PROVE  RegDeps(ReadRegister(lines, s, r))[x] =
           IF x = register_alias_table[r] /\ ~Full(RegDeps(lines)[x])
           THEN Append(RegDeps(lines)[x], s) ELSE RegDeps(lines)[x]
<1> DEFINE g == ReadRegister(lines, s, r)
           a == register_alias_table[r]
<1>0. lines \in [Slot -> LineShape] /\ RegDeps(lines)[x] = lines[x].reg_deps_ptr_array
      /\ RegDeps(g)[x] = g[x].reg_deps_ptr_array
  BY DEF Renaming, RegDeps
<1>n. NULL \notin Slot
  BY NullAssumption, RobSize DEF Slot
<1>1. CASE a = NULL \/ Len(lines[a].reg_deps_ptr_array) = ROB_SIZE
  <2>1. g = lines
    BY <1>1 DEF ReadRegister
  <2>2. ~(x = a /\ ~Full(lines[x].reg_deps_ptr_array))
    BY <1>1, <1>n DEF Full
  <2> QED BY <1>0, <2>1, <2>2
<1>2. CASE ~(a = NULL \/ Len(lines[a].reg_deps_ptr_array) = ROB_SIZE)
  <2>1. a \in Slot /\ a # s
    BY <1>2 DEF StageShape, AliasInv, Named
  <2>2. g = [lines EXCEPT ![a].reg_deps_ptr_array = Append(@, s), ![s].wait_reg_deps_number = @ + 1]
    BY <1>2 DEF ReadRegister
  <2> HIDE DEF g, a
  <2>3. PICK b : b = Append(lines[a].reg_deps_ptr_array, s)
    OBVIOUS
  <2>4. PICK f : f = [lines EXCEPT ![a] = [lines[a] EXCEPT !.reg_deps_ptr_array = b]]
    OBVIOUS
  <2>5. [lines EXCEPT ![a].reg_deps_ptr_array = Append(@, s)] = f
    BY <2>3, <2>4, Zenon
  <2>6. g = [f EXCEPT ![s].wait_reg_deps_number = @ + 1]
    BY <2>2, <2>5, Zenon
  <2>7. PICK w : w = f[s].wait_reg_deps_number + 1
    OBVIOUS
  <2>8. g = [f EXCEPT ![s] = [f[s] EXCEPT !.wait_reg_deps_number = w]]
    BY <2>6, <2>7, Zenon
  <2>9. \A y \in Slot : lines[y] = [lines[y] EXCEPT !.uop = lines[y].uop] /\ f[y] = IF y = a THEN [lines[y] EXCEPT !.reg_deps_ptr_array = b] ELSE lines[y]
    BY <1>0, <2>1, <2>4 DEF LineShape
  <2>10. \A y \in Slot : f[y].reg_deps_ptr_array = IF y = a THEN b ELSE lines[y].reg_deps_ptr_array
    BY <1>0, <2>9 DEF LineShape
  <2>11. f \in [Slot -> {f[y] : y \in Slot}]
    BY <1>0, <2>4
  <2>12. g[x] = IF x = s THEN [f[x] EXCEPT !.wait_reg_deps_number = w] ELSE f[x]
    BY <2>8, <2>11
  <2>13. x = s => g[x].reg_deps_ptr_array = f[x].reg_deps_ptr_array
    <3> HAVE x = s
    <3>1. lines[x] \in LineShape /\ f[x] = lines[x]
      BY <1>0, <2>1, <2>9
    <3> QED BY <2>12, <3>1 DEF LineShape
  <2>14. g[x].reg_deps_ptr_array = IF x = a THEN b ELSE lines[x].reg_deps_ptr_array
    BY <2>10, <2>12, <2>13
  <2>15. ~Full(lines[a].reg_deps_ptr_array)
    BY <1>2 DEF Full, a
  <2> QED BY <1>0, <2>3, <2>14, <2>15 DEF g, a
<1> QED BY <1>1, <1>2

\* What n registers read have made of the dependents of each line.
Feeding(arrays, s, u, n) ==
  \A x \in Slot :
    /\ ToSet(RegDeps(rob)[x]) \subseteq ToSet(arrays[x])
    /\ ToSet(arrays[x]) \subseteq ToSet(RegDeps(rob)[x]) \cup {s}
    /\ Full(RegDeps(rob)[x]) => Full(arrays[x])
    /\ \A m \in 1 .. n : register_alias_table[u.read_regs[m]] = x => s \in ToSet(arrays[x]) \/ Full(arrays[x])
    /\ s \in ToSet(arrays[x]) => \E m \in 1 .. n : register_alias_table[u.read_regs[m]] = x

LEMMA AppendSet ==
  ASSUME NEW X, NEW a \in Seq(X), NEW x \in X
  PROVE  ToSet(Append(a, x)) = ToSet(a) \cup {x}
<1>1. \A i \in DOMAIN Append(a, x) : Append(a, x)[i] = IF i = Len(a) + 1 THEN x ELSE a[i]
  OBVIOUS
<1>2. DOMAIN Append(a, x) = DOMAIN a \cup {Len(a) + 1} /\ Len(a) + 1 \notin DOMAIN a
  OBVIOUS
<1> QED BY <1>1, <1>2 DEF ToSet

\* Every register that is read makes the new line a dependent of its producer.
LEMMA FeedingKept ==
  ASSUME IInv, NEW u \in Uop, rename(u), NEW s, s = robEnd, NEW a, RenameChain(a, u, s),
         NEW n \in 0 .. Len(u.read_regs)
  PROVE  Feeding(RegDeps(a[n]), s, u, n)
<1> DEFINE N == Len(u.read_regs)
           Wrong == {k \in 0 .. N : ~Feeding(RegDeps(a[k]), s, u, k)}
<1>1. s \in Slot /\ ~Busy(s) /\ RobShape /\ StageShape /\ AliasInv /\ LineWaitInv
  BY RenameChainExists DEF IInv
<1>2. N \in Nat /\ \A k \in 1 .. N : u.read_regs[k] \in Register
  <2>1. u.read_regs \in Seq(Register)
    BY UopAssumption
  <2> QED BY <2>1
<1>3. \A x \in Slot : s \notin ToSet(RegDeps(rob)[x])
  <2> TAKE x \in Slot
  <2>1. rob[s].stage # "RENAME"
    BY <1>1 DEF IInv, RobInv
  <2>2. RegWaits(rob)[s] = 0
    BY <1>1, <2>1 DEF LineWaitInv, RegWaits
  <2> QED BY <1>1, <2>2, SlotFinite, RegDepsType, PointedAt DEF LineWaitInv
<1>4. \A k \in 0 .. N : Renaming(a[k], NewLine(u), s)
  BY DEF RenameChain
<1>5. \A k \in 0 .. N : \A x \in Slot : RegDeps(a[k])[x] \in Seq(Slot)
  <2> TAKE k \in 0 .. N
  <2>1. a[k] \in [Slot -> LineShape]
    BY <1>4 DEF Renaming
  <2> QED BY <2>1 DEF RegDeps, LineShape
<1>6. Wrong = {}
  <2> SUFFICES ASSUME Wrong # {} PROVE FALSE
    OBVIOUS
  <2>1. Wrong \in SUBSET Nat
    BY <1>2
  <2>2. PICK m \in Wrong : \A k \in Wrong : m <= k
    BY <2>1, LeastNumber
  <2>3. m # 0
    <3>1. RegDeps(a[0]) = RegDeps(rob)
      BY DEF RenameChain
    <3>2. Feeding(RegDeps(rob), s, u, 0)
      BY <1>3 DEF Feeding
    <3> QED BY <3>1, <3>2
  <2>4. m \in 1 .. N /\ m - 1 \in 0 .. N /\ m - 1 \notin Wrong
    BY <1>2, <2>2, <2>3
  <2>5. PICK c : c = a[m - 1] /\ Renaming(c, NewLine(u), s) /\ Feeding(RegDeps(c), s, u, m - 1)
    BY <1>4, <2>4
  <2>6. PICK r \in Register : r = u.read_regs[m] /\ a[m] = ReadRegister(c, s, r)
    BY <1>2, <2>4, <2>5 DEF RenameChain
  <2>7. PICK A : A = RegDeps(c)
    OBVIOUS
  <2>8. PICK B : B = RegDeps(a[m])
    OBVIOUS
  <2>9. \A x \in Slot : B[x] = IF x = register_alias_table[r] /\ ~Full(A[x]) THEN Append(A[x], s) ELSE A[x]
    BY <1>1, <2>5, <2>6, <2>7, <2>8, ReadOne
  <2>10. ASSUME NEW x \in Slot
         PROVE  /\ ToSet(RegDeps(rob)[x]) \subseteq ToSet(B[x])
                /\ ToSet(B[x]) \subseteq ToSet(RegDeps(rob)[x]) \cup {s}
                /\ Full(RegDeps(rob)[x]) => Full(B[x])
                /\ \A i \in 1 .. m : register_alias_table[u.read_regs[i]] = x => s \in ToSet(B[x]) \/ Full(B[x])
                /\ s \in ToSet(B[x]) => \E i \in 1 .. m : register_alias_table[u.read_regs[i]] = x
    <3>1. /\ ToSet(RegDeps(rob)[x]) \subseteq ToSet(A[x])
          /\ ToSet(A[x]) \subseteq ToSet(RegDeps(rob)[x]) \cup {s}
          /\ Full(RegDeps(rob)[x]) => Full(A[x])
          /\ \A i \in 1 .. m - 1 : register_alias_table[u.read_regs[i]] = x => s \in ToSet(A[x]) \/ Full(A[x])
          /\ s \in ToSet(A[x]) => \E i \in 1 .. m - 1 : register_alias_table[u.read_regs[i]] = x
      BY <2>5, <2>7, Zenon DEF Feeding
    <3>2. A[x] \in Seq(Slot)
      BY <1>5, <2>4, <2>5, <2>7
    <3>3. \A i \in 1 .. m : i \in 1 .. m - 1 \/ i = m
      BY <2>4
    <3>4. 1 .. m - 1 \subseteq 1 .. m /\ m \in 1 .. m
      BY <2>4
    <3>5. CASE x = register_alias_table[r] /\ ~Full(A[x])
      <4>1. B[x] = Append(A[x], s)
        BY <2>9, <3>5
      <4>2. ToSet(B[x]) = ToSet(A[x]) \cup {s}
        BY <1>1, <3>2, <4>1, AppendSet
      <4>3. Full(RegDeps(rob)[x]) => Full(B[x])
        BY <3>1, <3>5
      <4> QED BY <2>6, <3>1, <3>4, <3>5, <4>2, <4>3, Zenon
    <3>6. CASE ~(x = register_alias_table[r] /\ ~Full(A[x]))
      <4>1. B[x] = A[x]
        BY <2>9, <3>6
      <4>2. \A i \in 1 .. m : register_alias_table[u.read_regs[i]] = x => s \in ToSet(A[x]) \/ Full(A[x])
        BY <2>6, <3>1, <3>3, <3>6
      <4> QED BY <3>1, <3>4, <4>1, <4>2, Zenon
    <3> QED BY <3>5, <3>6
  <2>11. Feeding(B, s, u, m)
    BY <2>10, Zenon DEF Feeding
  <2> QED BY <2>8, <2>11
<1> QED BY <1>6

LEMMA InitialFeed == Init => FeedInv
BY DEF Init, CleanLine, FeedInv, Feeds, Busy

LEMMA QuietFeed ==
  ASSUME IInv, IInv', FeedInv, LinesQuiet
  PROVE  FeedInv'
<1>1. RobShape /\ RobInv
  BY DEF IInv
<1>2. ASSUME NEW s \in Slot, NEW t \in Slot, NEW r \in Register, Feeds(s, t, r)'
      PROVE  t \in ToSet(rob'[s].reg_deps_ptr_array) \/ Full(rob'[s].reg_deps_ptr_array)
  <2>1. Busy(s)' /\ Busy(t)' /\ Writes(s, r)' /\ Reads(t, r)' /\ Before(s, t)' /\ Pending(s)'
    BY <1>2, Zenon DEF Feeds
  <2>2. /\ rob'[s].uop = rob[s].uop /\ rob'[s].uop_number = rob[s].uop_number
        /\ rob'[t].uop = rob[t].uop /\ rob'[t].uop_number = rob[t].uop_number
        /\ Pending(s) /\ rob'[s].reg_deps_ptr_array = rob[s].reg_deps_ptr_array
    BY <2>1 DEF LinesQuiet, Busy
  <2>3. Busy(s) /\ Busy(t) /\ Writes(s, r) /\ Reads(t, r) /\ Before(s, t) /\ Pending(s)
    BY <2>1, <2>2 DEF Busy, Writes, Reads, Before
  <2>4. ASSUME NEW x \in Slot, Busy(x), Writes(x, r), Before(s, x), Before(x, t)
        PROVE  FALSE
    <3>1. CASE Busy(x)'
      <4>1. rob'[x].uop = rob[x].uop /\ rob'[x].uop_number = rob[x].uop_number
        BY <3>1 DEF LinesQuiet, Busy
      <4>2. Writes(x, r)' /\ Before(s, x)' /\ Before(x, t)'
        BY <2>2, <2>4, <4>1 DEF Writes, Before
      <4> QED BY <1>2, <3>1, <4>2 DEF Feeds
    <3>2. CASE ~Busy(x)'
      <4>1. x = robStart
        BY <2>4, <3>2 DEF LinesQuiet, Busy
      <4>2. robUsed # 0
        <5>1. Age(x) < robUsed /\ Age(x) \in 0 .. ROB_SIZE - 1
          BY <1>1, <2>4, AgeIs DEF RobInv
        <5> QED BY <5>1, RobSize
      <4>3. s # x
        BY <2>1, <3>2
      <4>4. Before(x, s)
        BY <1>1, <2>3, <4>1, <4>2, <4>3, HeadIsOldest
      <4>5. rob[x].uop_number \in Nat /\ rob[s].uop_number \in Nat
        BY <1>1, Numbers
      <4> QED BY <2>4, <4>4, <4>5 DEF Before
    <3> QED BY <3>1, <3>2
  <2>5. Feeds(s, t, r)
    BY <2>3, <2>4 DEF Feeds
  <2> QED BY <2>2, <2>5 DEF FeedInv
<1> QED BY <1>2 DEF FeedInv

LEMMA RenameFeed ==
  ASSUME IInv, IInv', FeedInv, NEW u \in Uop, rename(u)
  PROVE  FeedInv'
<1>1. PICK n : n = robEnd
  OBVIOUS
<1>2. /\ RobShape /\ RobInv /\ AliasInv /\ StageShape /\ n \in Slot /\ ~Busy(n)
  BY <1>1, RenameChainExists DEF IInv
<1>3. PICK a : RenameChain(a, u, n)
  BY <1>1, RenameChainExists
<1> DEFINE N == Len(u.read_regs)
<1>4. N \in Nat /\ N \in 0 .. N /\ u.read_regs \in Seq(Register)
  <2>1. u.read_regs \in Seq(Register)
    BY UopAssumption
  <2> QED BY <2>1
<1>5. Feeding(RegDeps(a[N]), n, u, N) /\ rob' = a[N]
  BY <1>1, <1>3, <1>4, FeedingKept DEF RenameChain
<1>6. \A x \in Slot : RegDeps(a[N])[x] = rob'[x].reg_deps_ptr_array /\ RegDeps(rob)[x] = rob[x].reg_deps_ptr_array
  BY <1>5 DEF RegDeps
<1>7. \A x \in Slot :
        /\ ToSet(rob[x].reg_deps_ptr_array) \subseteq ToSet(rob'[x].reg_deps_ptr_array)
        /\ Full(rob[x].reg_deps_ptr_array) => Full(rob'[x].reg_deps_ptr_array)
        /\ \A m \in 1 .. N : register_alias_table[u.read_regs[m]] = x =>
             n \in ToSet(rob'[x].reg_deps_ptr_array) \/ Full(rob'[x].reg_deps_ptr_array)
  BY <1>5, <1>6, Zenon DEF Feeding
<1>8. /\ rob'[n].uop = u /\ rob'[n].uop_number = renameCounter
      /\ \A x \in Slot : x # n =>
           /\ rob'[x].uop = rob[x].uop /\ rob'[x].uop_number = rob[x].uop_number
           /\ rob'[x].stage = rob[x].stage
  <2>1. LinesRenamed(u, n)
    BY <1>1, RenamedLines
  <2> QED BY <2>1 DEF LinesRenamed
<1>9. \A x \in Slot : Busy(x) => rob[x].uop_number < renameCounter
  BY <1>2, Numbers
<1>10. \A x \in Slot : rob[x].uop_number \in Nat
  BY <1>2, Numbers
<1>11. renameCounter \in Nat
  BY <1>2, SizesAssumption DEF RobShape
<1>12. ASSUME NEW s \in Slot, NEW t \in Slot, NEW r \in Register, Feeds(s, t, r)'
      PROVE  t \in ToSet(rob'[s].reg_deps_ptr_array) \/ Full(rob'[s].reg_deps_ptr_array)
  <2>1. /\ Busy(s)' /\ Busy(t)' /\ Writes(s, r)' /\ Reads(t, r)' /\ Before(s, t)' /\ Pending(s)'
        /\ \A x \in Slot : Busy(x)' /\ Writes(x, r)' => ~(Before(s, x)' /\ Before(x, t)')
    BY <1>12, Zenon DEF Feeds
  <2>2. s # n
    <3> SUFFICES ASSUME s = n PROVE FALSE
      OBVIOUS
    <3>1. renameCounter < rob'[t].uop_number
      BY <1>8, <2>1 DEF Before
    <3>2. CASE t = n
      BY <1>8, <1>11, <3>1, <3>2
    <3>3. CASE t # n
      <4>1. rob'[t].uop_number = rob[t].uop_number /\ Busy(t)
        BY <1>8, <2>1, <3>3 DEF Busy
      <4> QED BY <1>9, <1>10, <1>11, <3>1, <4>1
    <3> QED BY <3>2, <3>3
  <2>3. Busy(s) /\ Writes(s, r) /\ Pending(s)
    BY <1>8, <2>1, <2>2 DEF Busy, Writes, Pending
  <2>4. CASE t # n
    <3>1. Busy(t) /\ Reads(t, r) /\ Before(s, t)
      BY <1>8, <2>1, <2>2, <2>4 DEF Busy, Reads, Before
    <3>2. ASSUME NEW x \in Slot, Busy(x), Writes(x, r), Before(s, x), Before(x, t) PROVE FALSE
      <4>1. x # n
        BY <1>2, <3>2
      <4>2. Busy(x)' /\ Writes(x, r)' /\ Before(s, x)' /\ Before(x, t)'
        BY <1>8, <2>2, <2>4, <3>2, <4>1 DEF Busy, Writes, Before
      <4> QED BY <2>1, <4>2
    <3>3. Feeds(s, t, r)
      BY <2>3, <3>1, <3>2 DEF Feeds
    <3>4. t \in ToSet(rob[s].reg_deps_ptr_array) \/ Full(rob[s].reg_deps_ptr_array)
      BY <3>3 DEF FeedInv
    <3> QED BY <1>7, <3>4
  <2>5. CASE t = n
    <3>1. ASSUME NEW x \in Slot, Busy(x), Writes(x, r), Before(s, x) PROVE FALSE
      <4>1. x # n
        BY <1>2, <3>1
      <4>2. Busy(x)' /\ Writes(x, r)' /\ Before(s, x)'
        BY <1>8, <2>2, <3>1, <4>1 DEF Busy, Writes, Before
      <4>3. Before(x, t)'
        BY <1>8, <1>9, <2>5, <3>1, <4>1 DEF Before
      <4> QED BY <2>1, <4>2, <4>3
    <3>2. register_alias_table[r] # NULL
      <4> SUFFICES ASSUME register_alias_table[r] = NULL PROVE FALSE
        OBVIOUS
      <4>1. Unnamed(r)
        BY <1>2 DEF AliasInv
      <4>2. PICK x \in Slot : Busy(x) /\ Writes(x, r) /\ Before(s, x)
        BY <2>3, <4>1 DEF Unnamed
      <4> QED BY <3>1, <4>2
    <3>3. PICK y \in Slot : y = register_alias_table[r] /\ Named(y, r)
      BY <1>2, <3>2 DEF AliasInv, StageShape
    <3>4. Busy(y) /\ Writes(y, r) /\ ~Before(y, s)
      BY <2>3, <3>3 DEF Named
    <3>5. y = s
      BY <1>2, <2>3, <3>1, <3>4, Numbers
    <3>6. r \in ToSet(u.read_regs)
      BY <1>8, <2>1, <2>5 DEF Reads
    <3>7. PICK m \in 1 .. N : r = u.read_regs[m]
      BY <1>4, <3>6 DEF ToSet
    <3>8. n \in ToSet(rob'[s].reg_deps_ptr_array) \/ Full(rob'[s].reg_deps_ptr_array)
      BY <1>7, <3>3, <3>5, <3>7
    <3> QED BY <2>5, <3>8
  <2> QED BY <2>4, <2>5
<1> QED BY <1>12 DEF FeedInv

\* Producers remember whoever waits for them, in every behaviour.
LEMMA AlwaysFeed == Spec => [](IInv /\ FeedInv)
<1>1. IInv /\ FeedInv /\ IInv' /\ [Next]_vars => FeedInv'
  <2> SUFFICES ASSUME IInv, FeedInv, IInv', [Next]_vars PROVE FeedInv'
    OBVIOUS
  <2>1. ASSUME NEW u \in Uop, rename(u) PROVE FeedInv'
    BY <2>1, RenameFeed
  <2>2. ASSUME ~\E u \in Uop : rename(u) PROVE FeedInv'
    BY <2>2, NextQuiet, QuietFeed
  <2> QED BY <2>1, <2>2
<1>2. IInv /\ [Next]_vars => IInv'
  BY NextKeeps
<1> QED BY <1>1, <1>2, InitialInv, InitialFeed, PTL DEF Spec

\* What OperandsReady says of two uops and a register.
Operand(s, t, r) == Produces(s, t, r) /\ Reads(t, r) /\ Pending(s) => rob[t].stage = "RENAME"

\* Operands are ready unless the producer has forgotten a dependent.
OperandsUnlessFull ==
  \A s, t \in Live : \A r \in Register : ~Full(rob[s].reg_deps_ptr_array) => Operand(s, t, r)

LEMMA OperandsHold == IInv /\ FeedInv => OperandsUnlessFull
<1> SUFFICES ASSUME IInv, FeedInv, NEW s \in Live, NEW t \in Live, NEW r \in Register,
                    ~Full(rob[s].reg_deps_ptr_array), Produces(s, t, r), Reads(t, r), Pending(s)
             PROVE  rob[t].stage = "RENAME"
  BY Zenon DEF OperandsUnlessFull, Operand
<1>1. RobShape /\ RobInv /\ LineWaitInv
  BY DEF IInv
<1>2. Live = {x \in Slot : Busy(x)}
  BY <1>1, LiveIsBusy
<1>3. s \in Slot /\ t \in Slot /\ Feeds(s, t, r)
  BY <1>2 DEF Feeds, Produces
<1>4. t \in ToSet(RegDeps(rob)[s])
  BY <1>3 DEF FeedInv, RegDeps
<1>5. RegWaits(rob)[t] # 0
  BY <1>1, <1>3, <1>4, SlotFinite, RegDepsType, PointedAt DEF LineWaitInv
<1>6. rob[t].wait_reg_deps_number # 0
  BY <1>3, <1>5 DEF RegWaits
<1> QED BY <1>1, <1>3, <1>6 DEF LineWaitInv

\* A uop leaves the reservation station before the producer of a register it
\* reads is done only if that one's array of dependents is full: update_registers
\* and solve_registers_dependency, for any uops.
THEOREM OperandsUnlessFullHold == Spec => []OperandsUnlessFull
BY AlwaysFeed, OperandsHold, PTL

-----------------------------------------------------------------------------
(* How many wait for a producer.                                           *)

Distinct(dependents) ==
  \A i, j \in DOMAIN dependents : dependents[i] = dependents[j] => i = j

\* Dependents that differ from each other and from the one who remembers them
\* are fewer than all.
LEMMA DistinctLength ==
  ASSUME NEW X, IsFiniteSet(X), NEW x \in X, NEW a \in Seq(X), Distinct(a), x \notin ToSet(a)
  PROVE  Len(a) < Cardinality(X)
<1>1. Len(a) \in Nat /\ \A i \in 1 .. Len(a) : a[i] \in X /\ a[i] # x
  <2>1. DOMAIN a = 1 .. Len(a) /\ Len(a) \in Nat
    OBVIOUS
  <2>2. \A i \in 1 .. Len(a) : a[i] \in X /\ a[i] \in ToSet(a)
    BY <2>1 DEF ToSet
  <2> QED BY <2>1, <2>2
<1>2. PICK n : n = Len(a)
  OBVIOUS
<1>3. IsFiniteSet(1 .. n) /\ Cardinality(1 .. n) = n
  <2>1. 1 \in Int /\ n \in Int
    BY <1>1, <1>2
  <2>2. IsFiniteSet(1 .. n) /\ Cardinality(1 .. n) = IF 1 > n THEN 0 ELSE n - 1 + 1
    BY <2>1, FS_Interval, Zenon
  <2> QED BY <1>1, <1>2, <2>2
<1>4. IsFiniteSet(X \ {x}) /\ Cardinality(X \ {x}) = Cardinality(X) - 1 /\ Cardinality(X) \in Nat
  BY FS_RemoveElement, FS_CardinalityType
<1> DEFINE f == [i \in 1 .. n |-> a[i]]
<1>5. f \in [1 .. n -> X \ {x}]
  BY <1>1, <1>2
<1>6. \A i, j \in 1 .. n : f[i] = f[j] => i = j
  BY <1>2 DEF Distinct
<1> HIDE DEF f
<1>7. f \in Injection(1 .. n, X \ {x})
  BY <1>5, <1>6 DEF Injection, IsInjective
<1>8. Cardinality(1 .. n) <= Cardinality(X \ {x})
  BY <1>3, <1>4, <1>7, FS_Injection
<1> QED BY <1>1, <1>2, <1>3, <1>4, <1>8

LEMMA DistinctAppend ==
  ASSUME NEW X, NEW a \in Seq(X), NEW x \in X, Distinct(a), x \notin ToSet(a)
  PROVE  Distinct(Append(a, x))
<1>1. \A i \in DOMAIN Append(a, x) : Append(a, x)[i] = IF i = Len(a) + 1 THEN x ELSE a[i]
  OBVIOUS
<1>2. DOMAIN Append(a, x) = DOMAIN a \cup {Len(a) + 1} /\ Len(a) + 1 \notin DOMAIN a
  OBVIOUS
<1>3. \A i \in DOMAIN a : a[i] # x
  BY DEF ToSet
<1> QED BY <1>1, <1>2, <1>3 DEF Distinct

\* The register reads of younger uops that are of registers s writes.
ReadsOf(s) ==
  UNION {{t} \X {j \in DOMAIN rob[t].uop.read_regs :
                    rob[t].uop.read_regs[j] \in ToSet(rob[s].uop.write_regs)} :
         t \in {x \in Live : Before(s, x)}}

\* The places of the array of x are taken by different reads of this kind: f says by
\* which register of the dependent.
TakenFor(lines, x, f) ==
  LET a == lines[x].reg_deps_ptr_array
  IN /\ f \in [DOMAIN a -> Nat]
     /\ \A k \in DOMAIN a :
          /\ lines[x].uop_number < lines[a[k]].uop_number
          /\ f[k] \in DOMAIN lines[a[k]].uop.read_regs
          /\ lines[a[k]].uop.read_regs[f[k]] \in ToSet(lines[x].uop.write_regs)
     /\ \A k, l \in DOMAIN a : a[k] = a[l] /\ f[k] = f[l] => k = l

TakenInv == \A x \in Slot : \E f : TakenFor(rob, x, f)

WaitersBusy ==
  \A x \in Slot : \A k \in DOMAIN rob[x].reg_deps_ptr_array :
    rob[x].reg_deps_ptr_array[k] \in Slot /\ Busy(rob[x].reg_deps_ptr_array[k]) /\ Busy(x)

LEMMA WaitersAreBusy == IInv => WaitersBusy
<1> SUFFICES ASSUME IInv, NEW x \in Slot, NEW k \in DOMAIN rob[x].reg_deps_ptr_array
             PROVE  rob[x].reg_deps_ptr_array[k] \in Slot /\ Busy(rob[x].reg_deps_ptr_array[k]) /\ Busy(x)
  BY DEF WaitersBusy
<1>1. RobShape /\ RobInv /\ LineWaitInv
  BY DEF IInv
<1>2. PICK t : t = rob[x].reg_deps_ptr_array[k]
  OBVIOUS
<1>3. t \in Slot /\ t \in ToSet(rob[x].reg_deps_ptr_array) /\ rob[x].reg_deps_ptr_array # <<>>
  <2>1. rob[x].reg_deps_ptr_array \in Seq(Slot)
    BY <1>1, RegDepsType
  <2> QED BY <1>2, <2>1 DEF ToSet
<1>4. t \in ToSet(RegDeps(rob)[x])
  BY <1>3 DEF RegDeps
<1>5. RegWaits(rob)[t] # 0
  BY <1>1, <1>3, <1>4, SlotFinite, RegDepsType, PointedAt DEF LineWaitInv
<1>6. rob[t].stage = "RENAME"
  BY <1>1, <1>3, <1>5 DEF LineWaitInv, RegWaits
<1>7. Busy(t)
  BY <1>1, <1>3, <1>6 DEF RobInv
<1> QED BY <1>1, <1>2, <1>3, <1>7 DEF LineWaitInv

\* The array, and who is in it, stays.
LEMMA SameTaken ==
  ASSUME NEW lines, NEW next, NEW x, NEW f, TakenFor(lines, x, f),
         next[x].reg_deps_ptr_array = lines[x].reg_deps_ptr_array,
         \A k \in DOMAIN lines[x].reg_deps_ptr_array :
           LET t == lines[x].reg_deps_ptr_array[k]
           IN /\ next[x].uop = lines[x].uop /\ next[x].uop_number = lines[x].uop_number
              /\ next[t].uop = lines[t].uop /\ next[t].uop_number = lines[t].uop_number
  PROVE  TakenFor(next, x, f)
<1>1. PICK a : a = lines[x].reg_deps_ptr_array
  OBVIOUS
<1>2. /\ f \in [DOMAIN a -> Nat]
      /\ \A k, l \in DOMAIN a : a[k] = a[l] /\ f[k] = f[l] => k = l
  BY <1>1 DEF TakenFor
<1>3. ASSUME NEW k \in DOMAIN a
      PROVE  /\ next[x].uop_number < next[a[k]].uop_number
             /\ f[k] \in DOMAIN next[a[k]].uop.read_regs
             /\ next[a[k]].uop.read_regs[f[k]] \in ToSet(next[x].uop.write_regs)
  <2>1. /\ lines[x].uop_number < lines[a[k]].uop_number
        /\ f[k] \in DOMAIN lines[a[k]].uop.read_regs
        /\ lines[a[k]].uop.read_regs[f[k]] \in ToSet(lines[x].uop.write_regs)
    BY <1>1 DEF TakenFor
  <2>2. /\ next[x].uop = lines[x].uop /\ next[x].uop_number = lines[x].uop_number
        /\ next[a[k]].uop = lines[a[k]].uop /\ next[a[k]].uop_number = lines[a[k]].uop_number
    BY <1>1
  <2> QED BY <2>1, <2>2
<1> QED BY <1>1, <1>2, <1>3 DEF TakenFor

\* Line s takes a place in the array of x for the register it reads as its m-th.
Takes(lines, next, x, s, m, f) ==
  /\ x \in Slot /\ s \in Slot /\ m \in Nat
  /\ lines[x].reg_deps_ptr_array \in Seq(Slot)
  /\ next[x].reg_deps_ptr_array = Append(lines[x].reg_deps_ptr_array, s)
  /\ \A t \in Slot : next[t].uop = lines[t].uop /\ next[t].uop_number = lines[t].uop_number
  /\ TakenFor(lines, x, f)
  /\ \A k \in DOMAIN lines[x].reg_deps_ptr_array :
       lines[x].reg_deps_ptr_array[k] = s => f[k] <= m - 1
  /\ lines[x].uop_number < lines[s].uop_number
  /\ m \in DOMAIN lines[s].uop.read_regs
  /\ lines[s].uop.read_regs[m] \in ToSet(lines[x].uop.write_regs)

LEMMA OneTaken ==
  ASSUME NEW lines, NEW next, NEW x, NEW s, NEW m, NEW f, Takes(lines, next, x, s, m, f)
  PROVE  \E g : /\ TakenFor(next, x, g)
                /\ \A k \in DOMAIN next[x].reg_deps_ptr_array :
                     next[x].reg_deps_ptr_array[k] = s => g[k] <= m
<1> USE DEF Takes
<1>1. PICK a : a = lines[x].reg_deps_ptr_array
  OBVIOUS
<1>2. PICK b : b = next[x].reg_deps_ptr_array
  OBVIOUS
<1>3. /\ a \in Seq(Slot) /\ b = Append(a, s)
      /\ \A k \in DOMAIN b : b[k] = IF k \in DOMAIN a THEN a[k] ELSE s
      /\ DOMAIN a \subseteq DOMAIN b /\ \A k, l \in DOMAIN b : k \notin DOMAIN a /\ l \notin DOMAIN a => k = l
  BY <1>1, <1>2
<1>4. /\ f \in [DOMAIN a -> Nat]
      /\ \A k \in DOMAIN a :
           /\ lines[x].uop_number < lines[a[k]].uop_number
           /\ f[k] \in DOMAIN lines[a[k]].uop.read_regs
           /\ lines[a[k]].uop.read_regs[f[k]] \in ToSet(lines[x].uop.write_regs)
           /\ a[k] = s => f[k] <= m - 1
      /\ \A k, l \in DOMAIN a : a[k] = a[l] /\ f[k] = f[l] => k = l
  BY <1>1 DEF TakenFor
<1>5. PICK g : g = [k \in DOMAIN b |-> IF k \in DOMAIN a THEN f[k] ELSE m]
  OBVIOUS
<1>6. g \in [DOMAIN b -> Nat]
  BY <1>4, <1>5
<1>7. ASSUME NEW k \in DOMAIN b
      PROVE  /\ next[x].uop_number < next[b[k]].uop_number
             /\ g[k] \in DOMAIN next[b[k]].uop.read_regs
             /\ next[b[k]].uop.read_regs[g[k]] \in ToSet(next[x].uop.write_regs)
  <2>1. CASE k \in DOMAIN a
    <3>1. b[k] = a[k] /\ g[k] = f[k] /\ a[k] \in Slot
      BY <1>3, <1>5, <2>1
    <3> QED BY <1>4, <2>1, <3>1
  <2>2. CASE k \notin DOMAIN a
    <3>1. b[k] = s /\ g[k] = m
      BY <1>3, <1>5, <2>2
    <3> QED BY <3>1
  <2> QED BY <2>1, <2>2
<1>8. ASSUME NEW k \in DOMAIN b, NEW l \in DOMAIN b, b[k] = b[l], g[k] = g[l] PROVE k = l
  <2>1. g[k] = (IF k \in DOMAIN a THEN f[k] ELSE m) /\ g[l] = (IF l \in DOMAIN a THEN f[l] ELSE m)
    BY <1>5
  <2>2. \A j \in DOMAIN a : f[j] \in Nat
    BY <1>4
  <2>3. CASE k \in DOMAIN a /\ l \in DOMAIN a
    BY <1>3, <1>4, <1>8, <2>1, <2>3
  <2>4. CASE k \in DOMAIN a /\ l \notin DOMAIN a
    <3>1. a[k] = s /\ f[k] = m
      BY <1>3, <1>8, <2>1, <2>4
    <3> QED BY <1>4, <2>2, <2>4, <3>1
  <2>5. CASE k \notin DOMAIN a /\ l \in DOMAIN a
    <3>1. a[l] = s /\ f[l] = m
      BY <1>3, <1>8, <2>1, <2>5
    <3> QED BY <1>4, <2>2, <2>5, <3>1
  <2> QED BY <1>3, <2>3, <2>4, <2>5
<1>9. ASSUME NEW k \in DOMAIN b, b[k] = s PROVE g[k] <= m
  <2>1. CASE k \in DOMAIN a
    <3>1. a[k] = s /\ g[k] = f[k] /\ f[k] \in Nat
      BY <1>3, <1>4, <1>5, <1>9, <2>1
    <3> QED BY <1>4, <2>1, <3>1
  <2>2. CASE k \notin DOMAIN a
    BY <1>5, <2>2
  <2> QED BY <2>1, <2>2
<1>10. TakenFor(next, x, g)
  BY <1>2, <1>6, <1>7, <1>8 DEF TakenFor
<1> QED BY <1>2, <1>9, <1>10

LEMMA TakenKept ==
  ASSUME IInv, TakenInv, NEW u \in Uop, rename(u), NEW s, s = robEnd, NEW a, RenameChain(a, u, s),
         NEW n \in 0 .. Len(u.read_regs)
  PROVE  \A x \in Slot : \E f : TakenFor(a[n], x, f)
<1> DEFINE N == Len(u.read_regs)
           Upto(k, x, f) ==
             /\ TakenFor(a[k], x, f)
             /\ \A j \in DOMAIN a[k][x].reg_deps_ptr_array :
                  a[k][x].reg_deps_ptr_array[j] = s => f[j] <= k
           Wrong == {k \in 0 .. N : ~\A x \in Slot : \E f : Upto(k, x, f)}
<1>1. s \in Slot /\ ~Busy(s) /\ RobShape /\ RobInv /\ StageShape /\ AliasInv
  BY RenameChainExists DEF IInv
<1>2. N \in Nat /\ (\A k \in 1 .. N : u.read_regs[k] \in Register) /\ DOMAIN u.read_regs = 1 .. N
  <2>1. u.read_regs \in Seq(Register)
    BY UopAssumption
  <2> QED BY <2>1
<1>3. NULL \notin Slot
  BY NullAssumption, RobSize DEF Slot
<1>4. \A k \in 0 .. N : Renaming(a[k], NewLine(u), s)
  BY DEF RenameChain
<1>5. ASSUME NEW k \in 0 .. N
      PROVE  /\ \A x \in Slot : a[k][x].reg_deps_ptr_array \in Seq(Slot)
             /\ a[k][s].uop = u /\ a[k][s].uop_number = renameCounter
             /\ \A x \in Slot : x # s => a[k][x].uop = rob[x].uop /\ a[k][x].uop_number = rob[x].uop_number
             /\ a[k][s].reg_deps_ptr_array = <<>>
  <2>1. Renaming(a[k], NewLine(u), s)
    BY <1>4
  <2> QED BY <2>1 DEF Renaming, NewLine, LineShape
<1>6. Wrong = {}
  <2> SUFFICES ASSUME Wrong # {} PROVE FALSE
    OBVIOUS
  <2>1. Wrong \in SUBSET Nat
    BY <1>2
  <2>2. PICK m \in Wrong : \A k \in Wrong : m <= k
    BY <2>1, LeastNumber
  <2>3. ASSUME NEW x \in Slot PROVE \E f : Upto(0, x, f)
    <3>0. 0 \in 0 .. N
      BY <1>2
    <3>1. PICK f : TakenFor(rob, x, f)
      BY DEF TakenInv
    <3>2. a[0][x].reg_deps_ptr_array = rob[x].reg_deps_ptr_array
      <4>1. RegDeps(a[0])[x] = RegDeps(rob)[x]
        BY DEF RenameChain
      <4> QED BY <4>1 DEF RegDeps
    <3>3. \A k \in DOMAIN rob[x].reg_deps_ptr_array :
            /\ rob[x].reg_deps_ptr_array[k] \in Slot /\ rob[x].reg_deps_ptr_array[k] # s
            /\ x # s
      BY <1>1, WaitersAreBusy DEF WaitersBusy
    <3>4. TakenFor(a[0], x, f)
      <4>1. \A k \in DOMAIN rob[x].reg_deps_ptr_array :
              LET t == rob[x].reg_deps_ptr_array[k]
              IN /\ a[0][x].uop = rob[x].uop /\ a[0][x].uop_number = rob[x].uop_number
                 /\ a[0][t].uop = rob[t].uop /\ a[0][t].uop_number = rob[t].uop_number
        BY <1>5, <3>0, <3>3
      <4>2. PICK lines : lines = a[0]
        OBVIOUS
      <4> QED BY <3>1, <3>2, <4>1, <4>2, SameTaken
    <3> QED BY <3>2, <3>3, <3>4
  <2>4. m # 0
    BY <2>3
  <2>5. m \in 1 .. N /\ m - 1 \in 0 .. N /\ m \in 0 .. N /\ m - 1 \notin Wrong
    BY <1>2, <2>2, <2>4
  <2>6. PICK c : c = a[m - 1] /\ Renaming(c, NewLine(u), s)
    BY <1>4, <2>5
  <2>7. PICK r \in Register : r = u.read_regs[m] /\ a[m] = ReadRegister(c, s, r)
    BY <1>2, <2>5, <2>6 DEF RenameChain
  <2>8. \A x \in Slot : a[m][x].reg_deps_ptr_array =
          IF x = register_alias_table[r] /\ ~Full(c[x].reg_deps_ptr_array)
          THEN Append(c[x].reg_deps_ptr_array, s) ELSE c[x].reg_deps_ptr_array
    <3> TAKE x \in Slot
    <3>1. RegDeps(a[m])[x] = a[m][x].reg_deps_ptr_array /\ RegDeps(c)[x] = c[x].reg_deps_ptr_array
      BY DEF RegDeps
    <3> QED BY <1>1, <2>6, <2>7, <3>1, ReadOne
  <2>9. \A t \in Slot : a[m][t].uop = c[t].uop /\ a[m][t].uop_number = c[t].uop_number
    <3> TAKE t \in Slot
    <3>1. CASE t = s
      BY <1>5, <2>5, <2>6, <3>1
    <3>2. CASE t # s
      BY <1>5, <2>5, <2>6, <3>2
    <3> QED BY <3>1, <3>2
  <2>10. ASSUME NEW x \in Slot PROVE \E f : Upto(m, x, f)
    <3>1. PICK f : Upto(m - 1, x, f)
      BY <2>5
    <3>2. PICK A : A = c[x].reg_deps_ptr_array /\ A \in Seq(Slot)
      BY <1>5, <2>5, <2>6
    <3>3. /\ f \in [DOMAIN A -> Nat]
          /\ \A k \in DOMAIN A :
               /\ c[x].uop_number < c[A[k]].uop_number
               /\ f[k] \in DOMAIN c[A[k]].uop.read_regs
               /\ c[A[k]].uop.read_regs[f[k]] \in ToSet(c[x].uop.write_regs)
               /\ A[k] = s => f[k] <= m - 1
          /\ \A k, l \in DOMAIN A : A[k] = A[l] /\ f[k] = f[l] => k = l
      BY <2>6, <3>1, <3>2 DEF TakenFor
    <3>4. CASE a[m][x].reg_deps_ptr_array = A
      <4>1. TakenFor(a[m], x, f)
        <5>1. \A k \in DOMAIN A : A[k] \in Slot
          BY <3>2
        <5>2. PICK next : next = a[m]
          OBVIOUS
        <5>3. TakenFor(c, x, f) /\ next[x].reg_deps_ptr_array = c[x].reg_deps_ptr_array
          BY <2>6, <3>1, <3>2, <3>4, <5>2
        <5>4. \A k \in DOMAIN c[x].reg_deps_ptr_array :
                LET t == c[x].reg_deps_ptr_array[k]
                IN /\ next[x].uop = c[x].uop /\ next[x].uop_number = c[x].uop_number
                   /\ next[t].uop = c[t].uop /\ next[t].uop_number = c[t].uop_number
          BY <2>9, <3>2, <5>1, <5>2
        <5> QED BY <5>2, <5>3, <5>4, SameTaken
      <4>2. \A k \in DOMAIN A : A[k] = s => f[k] <= m
        BY <2>5, <3>3
      <4> QED BY <3>4, <4>1, <4>2
    <3>5. CASE x = register_alias_table[r] /\ a[m][x].reg_deps_ptr_array = Append(A, s)
      <4>1. Named(x, r) /\ x # s
        BY <1>1, <1>3, <3>5 DEF AliasInv, Named
      <4>2. PICK next : next = a[m]
        OBVIOUS
      <4>3. c[x].uop_number < c[s].uop_number
        <5>1. c[s].uop_number = renameCounter /\ c[x].uop_number = rob[x].uop_number
          BY <1>5, <2>5, <2>6, <4>1
        <5> QED BY <1>1, <4>1, <5>1, Numbers DEF Named
      <4>4. m \in DOMAIN c[s].uop.read_regs /\ c[s].uop.read_regs[m] = r
        BY <1>2, <1>5, <2>5, <2>6, <2>7
      <4>5. c[s].uop.read_regs[m] \in ToSet(c[x].uop.write_regs)
        BY <1>5, <2>5, <2>6, <4>1, <4>4 DEF Named, Writes
      <4>6. \A k \in DOMAIN c[x].reg_deps_ptr_array : c[x].reg_deps_ptr_array[k] = s => f[k] <= m - 1
        BY <3>2, <3>3
      <4>7. TakenFor(c, x, f)
        BY <2>6, <3>1
      <4>8. m \in Nat /\ s \in Slot /\ c[x].reg_deps_ptr_array \in Seq(Slot)
        BY <1>1, <2>5, <3>2
      <4>9. \A t \in Slot : next[t].uop = c[t].uop /\ next[t].uop_number = c[t].uop_number
        BY <2>9, <4>2
      <4>10. next[x].reg_deps_ptr_array = Append(c[x].reg_deps_ptr_array, s)
        BY <3>2, <3>5, <4>2
      <4>11. Takes(c, next, x, s, m, f)
        BY <4>3, <4>4, <4>5, <4>6, <4>7, <4>8, <4>9, <4>10 DEF Takes
      <4>12. \E g : /\ TakenFor(next, x, g)
                    /\ \A k \in DOMAIN next[x].reg_deps_ptr_array :
                         next[x].reg_deps_ptr_array[k] = s => g[k] <= m
        BY <4>11, OneTaken
      <4> QED BY <4>2, <4>12
    <3> QED BY <2>8, <3>2, <3>4, <3>5
  <2> QED BY <2>2, <2>10
<1> QED BY <1>6

LEMMA InitialTaken == Init => TakenInv
<1> SUFFICES ASSUME Init, NEW x \in Slot PROVE \E f : TakenFor(rob, x, f)
  BY DEF TakenInv
<1>1. rob[x].reg_deps_ptr_array = <<>>
  BY DEF Init, CleanLine
<1>2. TakenFor(rob, x, [k \in DOMAIN <<>> |-> 0])
  BY <1>1 DEF TakenFor
<1> QED BY <1>2

LEMMA QuietTaken ==
  ASSUME TakenInv, WaitersBusy', LinesQuiet
  PROVE  TakenInv'
<1> SUFFICES ASSUME NEW x \in Slot PROVE \E f : TakenFor(rob', x, f)
  BY DEF TakenInv
<1>1. PICK f : TakenFor(rob, x, f)
  BY DEF TakenInv
<1>2. CASE rob'[x].reg_deps_ptr_array = <<>>
  <2>1. TakenFor(rob', x, [k \in DOMAIN <<>> |-> 0])
    BY <1>2 DEF TakenFor
  <2> QED BY <2>1
<1>3. CASE rob'[x].reg_deps_ptr_array = rob[x].reg_deps_ptr_array
  <2>1. PICK a : a = rob[x].reg_deps_ptr_array
    OBVIOUS
  <2>2. \A k \in DOMAIN a : a[k] \in Slot /\ rob'[a[k]].uop # NULL /\ rob'[x].uop # NULL
    BY <1>3, <2>1 DEF WaitersBusy, Busy
  <2>3. \A k \in DOMAIN rob[x].reg_deps_ptr_array :
          LET t == rob[x].reg_deps_ptr_array[k]
          IN /\ rob'[x].uop = rob[x].uop /\ rob'[x].uop_number = rob[x].uop_number
             /\ rob'[t].uop = rob[t].uop /\ rob'[t].uop_number = rob[t].uop_number
    BY <2>1, <2>2 DEF LinesQuiet
  <2>4. PICK next : next = rob'
    OBVIOUS
  <2> QED BY <1>1, <1>3, <2>3, <2>4, SameTaken
<1> QED BY <1>2, <1>3 DEF LinesQuiet

LEMMA RenameTaken ==
  ASSUME IInv, TakenInv, NEW u \in Uop, rename(u)
  PROVE  TakenInv'
<1>1. PICK n : n = robEnd
  OBVIOUS
<1>2. PICK a : RenameChain(a, u, n)
  BY <1>1, RenameChainExists
<1>3. Len(u.read_regs) \in 0 .. Len(u.read_regs)
  <2>1. u.read_regs \in Seq(Register)
    BY UopAssumption
  <2> QED BY <2>1
<1>4. \A x \in Slot : \E f : TakenFor(a[Len(u.read_regs)], x, f)
  BY <1>1, <1>2, <1>3, TakenKept
<1> QED BY <1>2, <1>4 DEF RenameChain, TakenInv

LEMMA AlwaysTaken == Spec => [](IInv /\ TakenInv)
<1>1. IInv /\ TakenInv /\ IInv' /\ WaitersBusy' /\ [Next]_vars => TakenInv'
  <2> SUFFICES ASSUME IInv, TakenInv, IInv', WaitersBusy', [Next]_vars PROVE TakenInv'
    OBVIOUS
  <2>1. ASSUME NEW u \in Uop, rename(u) PROVE TakenInv'
    BY <2>1, RenameTaken
  <2>2. ASSUME ~\E u \in Uop : rename(u) PROVE TakenInv'
    BY <2>2, NextQuiet, QuietTaken
  <2> QED BY <2>1, <2>2
<1>2. IInv /\ [Next]_vars => IInv'
  BY NextKeeps
<1> QED BY <1>1, <1>2, InitialInv, InitialTaken, WaitersAreBusy, PTL DEF Spec

\* An array is no longer than the reads it was taken for.
LEMMA TakenLength ==
  ASSUME IInv, TakenInv, NEW s \in Slot
  PROVE  /\ Cardinality(ReadsOf(s)) \in Nat
         /\ Len(rob[s].reg_deps_ptr_array) <= Cardinality(ReadsOf(s))
<1>1. PICK a \in Seq(Slot) : a = rob[s].reg_deps_ptr_array
  BY RegDepsType DEF IInv
<1>2. PICK f : TakenFor(rob, s, f)
  BY DEF TakenInv
<1>3. PICK n \in Nat : n = Len(a) /\ DOMAIN a = 1 .. n
  BY <1>1
<1>4. Live = {x \in Slot : Busy(x)}
  BY LiveIsBusy DEF IInv
<1> DEFINE Of(t) == {t} \X {j \in DOMAIN rob[t].uop.read_regs :
                             rob[t].uop.read_regs[j] \in ToSet(rob[s].uop.write_regs)}
           Readers == {x \in Live : Before(s, x)}
           g == [t \in Readers |-> Of(t)]
           All == {Of(t) : t \in Readers}
           p == [k \in 1 .. n |-> <<a[k], f[k]>>]
<1>5. ReadsOf(s) = UNION All
  BY DEF ReadsOf
<1>6. IsFiniteSet(Readers) /\ Readers \in SUBSET Slot
  <2>1. Readers \in SUBSET Slot
    BY <1>4
  <2> QED BY <2>1, SlotFinite, FS_Subset
<1>7. ASSUME NEW t \in Readers PROVE IsFiniteSet(Of(t))
  <2>1. rob[t].uop \in Uop /\ t \in Slot
    BY <1>4 DEF IInv, RobShape, LineShape, Busy
  <2>2. PICK m \in Nat : DOMAIN rob[t].uop.read_regs = 1 .. m
    <3>1. rob[t].uop.read_regs \in Seq(Register)
      BY <2>1, UopAssumption
    <3> QED BY <3>1
  <2>3. IsFiniteSet(1 .. m) /\ IsFiniteSet({t})
    <3>1. 1 \in Int /\ m \in Int
      BY <2>2
    <3> QED BY <3>1, FS_Interval, FS_Singleton
  <2>4. IsFiniteSet({j \in DOMAIN rob[t].uop.read_regs :
                      rob[t].uop.read_regs[j] \in ToSet(rob[s].uop.write_regs)})
    BY <2>2, <2>3, FS_Subset
  <2> QED BY <2>3, <2>4, FS_Product
<1>8. IsFiniteSet(All)
  <2> HIDE DEF Of
  <2>1. g \in Surjection(Readers, All)
    BY DEF Surjection
  <2> QED BY <1>6, <2>1, FS_Surjection
<1>9. IsFiniteSet(UNION All)
  <2> HIDE DEF Of
  <2>1. \A T \in All : IsFiniteSet(T)
    BY <1>7
  <2> QED BY <1>8, <2>1, FS_UNION
<1>10. p \in Injection(1 .. n, UNION All)
  <2>1. ASSUME NEW k \in 1 .. n PROVE p[k] \in UNION All
    <3>1. /\ rob[s].uop_number < rob[a[k]].uop_number
          /\ f[k] \in DOMAIN rob[a[k]].uop.read_regs
          /\ rob[a[k]].uop.read_regs[f[k]] \in ToSet(rob[s].uop.write_regs)
      BY <1>1, <1>2, <1>3 DEF TakenFor
    <3>2. a[k] \in Slot /\ Busy(a[k])
      BY <1>1, <1>3, WaitersAreBusy DEF WaitersBusy
    <3>3. a[k] \in Readers
      BY <1>4, <3>1, <3>2 DEF Before
    <3>4. p[k] \in Of(a[k])
      BY <3>1
    <3> QED BY <3>3, <3>4
  <2>2. \A k, l \in 1 .. n : p[k] = p[l] => k = l
    <3>1. \A k, l \in 1 .. n : a[k] = a[l] /\ f[k] = f[l] => k = l
      BY <1>1, <1>2, <1>3 DEF TakenFor
    <3> QED BY <3>1
  <2> HIDE DEF All
  <2>3. p \in [1 .. n -> UNION All]
    BY <2>1
  <2> HIDE DEF p
  <2> QED BY <2>2, <2>3 DEF Injection, IsInjective
<1>11. Cardinality(1 .. n) = n
  <2>1. 1 \in Int /\ n \in Int
    BY <1>3
  <2>2. Cardinality(1 .. n) = IF 1 > n THEN 0 ELSE n - 1 + 1
    BY <2>1, FS_Interval, Zenon
  <2> QED BY <1>3, <2>2
<1> HIDE DEF All, p
<1>12. Cardinality(1 .. n) <= Cardinality(UNION All)
  BY <1>9, <1>10, FS_Injection
<1>13. Cardinality(UNION All) \in Nat
  BY <1>9, FS_CardinalityType
<1> QED BY <1>1, <1>3, <1>5, <1>11, <1>12, <1>13

LEMMA OperandsAllHold ==
  IInv /\ FeedInv /\ TakenInv =>
    ((\A s \in Live : Cardinality(ReadsOf(s)) < ROB_SIZE) => OperandsReady)
<1> SUFFICES ASSUME IInv, FeedInv, TakenInv, \A s \in Live : Cardinality(ReadsOf(s)) < ROB_SIZE
             PROVE  OperandsReady
  OBVIOUS
<1>1. OperandsUnlessFull
  BY OperandsHold
<1>2. Live \subseteq Slot
  BY LiveIsBusy DEF IInv
<1>3. \A s \in Live : ~Full(rob[s].reg_deps_ptr_array)
  <2> SUFFICES ASSUME NEW s \in Live, Len(rob[s].reg_deps_ptr_array) = ROB_SIZE PROVE FALSE
    BY DEF Full
  <2>1. /\ ROB_SIZE <= Cardinality(ReadsOf(s)) /\ Cardinality(ReadsOf(s)) < ROB_SIZE
        /\ Cardinality(ReadsOf(s)) \in Nat
    BY <1>2, TakenLength
  <2> QED BY <2>1, RobSize
<1> QED BY <1>1, <1>3, Zenon DEF OperandsUnlessFull, Operand, OperandsReady

\* A uop that has left the reservation station finds its operands, unless as many
\* registers as the reorder buffer has lines are read by younger uops and written by
\* one and the same: update_registers takes a place in its array for each of these
\* reads, and for no other, until it is done.
THEOREM Operands ==
  Spec => []((\A s \in Live : Cardinality(ReadsOf(s)) < ROB_SIZE) => OperandsReady)
BY AlwaysTaken, AlwaysFeed, OperandsAllHold, PTL

-----------------------------------------------------------------------------
(* The order of the memory operations.                                     *)

\* The kinds of operation the tables remember.
Remembered == {"LOAD", "STORE"}

\* The bucket of a place in the table of loads, or of stores.
Bucket(e, op, x) ==
  IF op = "LOAD" THEN LoadHash(e[x].access.address) ELSE StoreHash(e[x].access.address)

NotBefore(O, p, y) == y = p \/ <<p, y>> \in O

\* The place y holds operations of the bucket of p back, as p does or after it.
Stands(e, O, U, p, y) ==
  /\ y \in U /\ y[1] = p[1] /\ Undone(e, y) /\ NotBefore(O, p, y)
  /\ Bucket(e, p[1], y) = Bucket(e, p[1], p)

Guards(e, O, U, p, q, y) ==
  /\ Stands(e, O, U, p, y) /\ <<y, q>> \in O
  /\ q \in ToSet(e[y].mem_deps_ptr_array) \/ Full(e[y].mem_deps_ptr_array)

\* p must be done before q: it is older, and of the same bucket.
Conflict(e, O, p, q) ==
  /\ p[1] \in Remembered /\ Undone(e, p) /\ <<p, q>> \in O
  /\ Bucket(e, p[1], p) = Bucket(e, p[1], q)

\* Of the places in U, in the order O, with entries e: whoever is in conflict
\* with an older place is remembered by it, or by one in between.
AllGuarded(e, O, U) ==
  \A p, q \in U : Conflict(e, O, p, q) => \E y \in U : Guards(e, O, U, p, q, y)

\* What the table has for the bucket of p.
Latest(e, p, loads, stores) ==
  IF p[1] = "LOAD" THEN loads[Bucket(e, "LOAD", p)] ELSE stores[Bucket(e, "STORE", p)]

Overfull(e, O, U, p) == \E y \in U : Stands(e, O, U, p, y) /\ Full(e[y].mem_deps_ptr_array)

\* The tables name p, or a younger one, as long as p is not done.
AllTabled(e, O, U, loads, stores) ==
  \A p \in U :
    p[1] \in Remembered /\ Undone(e, p) =>
      \/ Latest(e, p, loads, stores) \in U /\ NotBefore(O, p, Latest(e, p, loads, stores))
      \/ Overfull(e, O, U, p)

\* The older of two operations, in a set.
OlderPairs == {pq \in Place \X Place : Older(pq[1], pq[2])}
UsedPlaces == {x \in Place : Used(x)}

GuardInv ==
  /\ AllGuarded(mob, OlderPairs, UsedPlaces)
  /\ AllTabled(mob, OlderPairs, UsedPlaces, load_hash, store_hash)

\* An order of the places of U.
IsOrder(O, U) ==
  /\ \A x \in U : <<x, x>> \notin O
  /\ \A x, y, z \in U : <<x, y>> \in O /\ <<y, z>> \in O => <<x, z>> \in O

LEMMA OlderIsOrder ==
  ASSUME IInv
  PROVE  IsOrder(OlderPairs, UsedPlaces)
<1>1. ASSUME NEW x \in UsedPlaces
      PROVE  x \in Place /\ Owner(x) \in Slot /\ rob[Owner(x)].uop_number \in Nat /\ Distance(x) \in Nat
             /\ Busy(Owner(x))
  <2>1. x \in Place /\ Used(x) /\ x[1] \in Memory /\ MOB[x[1]] \in Nat \ {0}
    BY PlaceType DEF UsedPlaces
  <2>2. Distance(x) \in Nat
    BY <2>1, DistanceIs DEF IInv
  <2>3. Owner(x) \in Slot /\ Busy(Owner(x))
    BY <2>1 DEF IInv, PlaceInv, IsMemory
  <2>4. rob[Owner(x)].uop_number \in Nat
    BY <2>3, Numbers DEF IInv
  <2> QED BY <2>1, <2>2, <2>3, <2>4
<1>2. \A x, y \in UsedPlaces : <<x, y>> \in OlderPairs <=>
         \/ rob[Owner(x)].uop_number < rob[Owner(y)].uop_number
         \/ Owner(x) = Owner(y) /\ Distance(x) < Distance(y)
  BY <1>1 DEF OlderPairs, Older, Before, Owner
<1>3. ASSUME NEW x \in UsedPlaces PROVE <<x, x>> \notin OlderPairs
  <2>1. rob[Owner(x)].uop_number \in Nat /\ Distance(x) \in Nat
    BY <1>1
  <2> QED BY <1>2, <2>1
<1>4. ASSUME NEW x \in UsedPlaces, NEW y \in UsedPlaces, NEW z \in UsedPlaces,
             <<x, y>> \in OlderPairs, <<y, z>> \in OlderPairs
      PROVE  <<x, z>> \in OlderPairs
  <2>1. \A w \in {x, y, z} : rob[Owner(w)].uop_number \in Nat /\ Distance(w) \in Nat
    BY <1>1
  <2>2. /\ rob[Owner(x)].uop_number < rob[Owner(y)].uop_number \/ (Owner(x) = Owner(y) /\ Distance(x) < Distance(y))
        /\ rob[Owner(y)].uop_number < rob[Owner(z)].uop_number \/ (Owner(y) = Owner(z) /\ Distance(y) < Distance(z))
    BY <1>2, <1>4
  <2>3. rob[Owner(x)].uop_number < rob[Owner(z)].uop_number \/ (Owner(x) = Owner(z) /\ Distance(x) < Distance(z))
    BY <2>1, <2>2
  <2> QED BY <1>2, <2>3
<1> QED BY <1>3, <1>4 DEF IsOrder

\* From the entries e of the places in U to e1 of those in U1, the operations of
\* G, one at most, which waited for nothing, are done, and no other.
Done(e, O, U, e1, O1, U1, G) ==
  /\ U1 \subseteq U /\ AtMostOne(G) /\ G \subseteq U
  /\ \A x \in U1 : e1[x].access = e[x].access
  /\ \A x \in U : x \in U1 /\ Undone(e1, x) <=> Undone(e, x) /\ x \notin G
  /\ \A x \in U1 : x \notin G => e1[x].mem_deps_ptr_array = e[x].mem_deps_ptr_array
  /\ \A x, y \in U1 : <<x, y>> \in O1 <=> <<x, y>> \in O
  /\ \A x \in G : \A y \in U : x \notin ToSet(e[y].mem_deps_ptr_array)
  /\ IsOrder(O, U)

LEMMA BucketSame ==
  ASSUME NEW e, NEW e1, NEW x, e1[x].access = e[x].access, NEW op
  PROVE  Bucket(e1, op, x) = Bucket(e, op, x)
BY DEF Bucket

\* One that is done was held back by none, but for one that is full.
LEMMA DoneOverfull ==
  ASSUME NEW e, NEW O, NEW U, NEW e1, NEW O1, NEW U1, NEW G, Done(e, O, U, e1, O1, U1, G),
         AllGuarded(e, O, U), NEW p \in U, Undone(e, p), p \notin G, p[1] \in Remembered,
         NEW y \in G, Stands(e, O, U, p, y)
  PROVE  \E z \in U1 : /\ Stands(e, O, U, p, z) /\ Full(e[z].mem_deps_ptr_array) /\ z \notin G
                       /\ <<z, y>> \in O
<1>1. y # p /\ y \in U /\ <<p, y>> \in O /\ Bucket(e, p[1], y) = Bucket(e, p[1], p)
  BY DEF Stands, NotBefore, Done
<1>2. Conflict(e, O, p, y)
  BY <1>1 DEF Conflict
<1>3. PICK z \in U : Guards(e, O, U, p, y, z)
  BY <1>1, <1>2 DEF AllGuarded
<1>4. Stands(e, O, U, p, z) /\ <<z, y>> \in O /\ (y \in ToSet(e[z].mem_deps_ptr_array) \/ Full(e[z].mem_deps_ptr_array))
  BY <1>3, Zenon DEF Guards
<1>5. Full(e[z].mem_deps_ptr_array)
  BY <1>4 DEF Done
<1>6. z # y
  BY <1>1, <1>4 DEF Done, IsOrder
<1>7. z \notin G
  BY <1>6 DEF Done, AtMostOne
<1>8. z \in U1
  BY <1>4, <1>7 DEF Stands, Done
<1> QED BY <1>4, <1>5, <1>7, <1>8

\* Who stood, and is not done, stands.
LEMMA StandsKept ==
  ASSUME NEW e, NEW O, NEW U, NEW e1, NEW O1, NEW U1, NEW G, Done(e, O, U, e1, O1, U1, G),
         NEW p \in U1, NEW y, Stands(e, O, U, p, y), y \notin G
  PROVE  y \in U1 /\ Stands(e1, O1, U1, p, y) /\ e1[y].mem_deps_ptr_array = e[y].mem_deps_ptr_array
<1>1. y \in U /\ y[1] = p[1] /\ Undone(e, y) /\ NotBefore(O, p, y) /\ Bucket(e, p[1], y) = Bucket(e, p[1], p)
  BY DEF Stands
<1>2. y \in U1 /\ Undone(e1, y) /\ e1[y].access = e[y].access /\ e1[p].access = e[p].access
      /\ e1[y].mem_deps_ptr_array = e[y].mem_deps_ptr_array
  BY <1>1 DEF Done
<1>3. Bucket(e1, p[1], y) = Bucket(e1, p[1], p)
  BY <1>1, <1>2, BucketSame
<1>4. NotBefore(O1, p, y)
  BY <1>1, <1>2 DEF NotBefore, Done
<1> QED BY <1>1, <1>2, <1>3, <1>4 DEF Stands

LEMMA DoneGuarded ==
  ASSUME NEW e, NEW O, NEW U, NEW e1, NEW O1, NEW U1, NEW G, Done(e, O, U, e1, O1, U1, G),
         AllGuarded(e, O, U)
  PROVE  AllGuarded(e1, O1, U1)
<1> SUFFICES ASSUME NEW p \in U1, NEW q \in U1, Conflict(e1, O1, p, q)
             PROVE  \E y \in U1 : Guards(e1, O1, U1, p, q, y)
  BY DEF AllGuarded
<1>1. p \in U /\ q \in U /\ p[1] \in Remembered /\ Undone(e, p) /\ p \notin G /\ <<p, q>> \in O
  BY DEF Done, Conflict
<1>2. Bucket(e, p[1], p) = Bucket(e, p[1], q)
  <2>1. e1[p].access = e[p].access /\ e1[q].access = e[q].access
    BY DEF Done
  <2> QED BY <2>1, BucketSame DEF Conflict
<1>3. Conflict(e, O, p, q)
  BY <1>1, <1>2 DEF Conflict
<1>4. PICK y \in U : Guards(e, O, U, p, q, y)
  BY <1>1, <1>3 DEF AllGuarded
<1>5. Stands(e, O, U, p, y) /\ <<y, q>> \in O /\ (q \in ToSet(e[y].mem_deps_ptr_array) \/ Full(e[y].mem_deps_ptr_array))
  BY <1>4, Zenon DEF Guards
<1>6. CASE y \notin G
  <2>1. y \in U1 /\ Stands(e1, O1, U1, p, y) /\ e1[y].mem_deps_ptr_array = e[y].mem_deps_ptr_array
    BY <1>5, <1>6, StandsKept
  <2>2. <<y, q>> \in O1
    BY <1>5, <2>1 DEF Done
  <2>3. Guards(e1, O1, U1, p, q, y)
    BY <1>5, <2>1, <2>2 DEF Guards
  <2> QED BY <2>1, <2>3
<1>7. CASE y \in G
  <2>1. PICK z \in U1 : Stands(e, O, U, p, z) /\ Full(e[z].mem_deps_ptr_array) /\ z \notin G /\ <<z, y>> \in O
    BY <1>1, <1>5, <1>7, DoneOverfull
  <2>2. Stands(e1, O1, U1, p, z) /\ Full(e1[z].mem_deps_ptr_array)
    BY <2>1, StandsKept
  <2>3. <<z, q>> \in O
    <3>1. z \in U
      BY DEF Done
    <3> QED BY <1>1, <1>5, <2>1, <3>1 DEF Done, IsOrder
  <2>4. <<z, q>> \in O1
    BY <2>3 DEF Done
  <2>5. Guards(e1, O1, U1, p, q, z)
    BY <2>2, <2>4 DEF Guards
  <2> QED BY <2>5
<1> QED BY <1>6, <1>7

\* What the table has for p stays, and is still in use, or is done.
Forgets(e, U, U1, G, p, t, t1) ==
  \/ t1 = t /\ (t \in U => t \in U1)
  \/ t \in G /\ Undone(e, t) /\ t[1] = p[1] /\ Bucket(e, p[1], t) = Bucket(e, p[1], p)

LEMMA DoneTabled ==
  ASSUME NEW e, NEW O, NEW U, NEW e1, NEW O1, NEW U1, NEW G, Done(e, O, U, e1, O1, U1, G),
         AllGuarded(e, O, U), NEW loads, NEW stores, NEW loads1, NEW stores1,
         AllTabled(e, O, U, loads, stores),
         \A p \in U1 : p[1] \in Remembered =>
           Forgets(e, U, U1, G, p, Latest(e, p, loads, stores), Latest(e, p, loads1, stores1))
  PROVE  AllTabled(e1, O1, U1, loads1, stores1)
<1> SUFFICES ASSUME NEW p \in U1, p[1] \in Remembered, Undone(e1, p)
             PROVE  \/ /\ Latest(e1, p, loads1, stores1) \in U1
                       /\ NotBefore(O1, p, Latest(e1, p, loads1, stores1))
                    \/ Overfull(e1, O1, U1, p)
  BY Zenon DEF AllTabled
<1>1. p \in U /\ Undone(e, p) /\ p \notin G /\ e1[p].access = e[p].access
  BY DEF Done
<1>2. PICK t : t = Latest(e, p, loads, stores)
  OBVIOUS
<1>3. PICK t1 : t1 = Latest(e1, p, loads1, stores1)
  OBVIOUS
<1>4. t1 = Latest(e, p, loads1, stores1)
  BY <1>1, <1>3, BucketSame DEF Latest
<1>5. \/ t1 = t /\ (t \in U => t \in U1)
      \/ t \in G /\ Undone(e, t) /\ t[1] = p[1] /\ Bucket(e, p[1], t) = Bucket(e, p[1], p)
  <2>1. Forgets(e, U, U1, G, p, Latest(e, p, loads, stores), Latest(e, p, loads1, stores1))
    OBVIOUS
  <2>2. Forgets(e, U, U1, G, p, t, t1)
    BY <1>2, <1>4, <2>1
  <2> QED BY <2>2, Zenon DEF Forgets
<1>6. (t \in U /\ NotBefore(O, p, t)) \/ Overfull(e, O, U, p)
  BY <1>1, <1>2 DEF AllTabled
<1>7. ASSUME NEW y \in G, Stands(e, O, U, p, y) PROVE Overfull(e1, O1, U1, p)
  <2>1. PICK z \in U1 : Stands(e, O, U, p, z) /\ Full(e[z].mem_deps_ptr_array) /\ z \notin G /\ <<z, y>> \in O
    BY <1>1, <1>7, DoneOverfull
  <2>2. Stands(e1, O1, U1, p, z) /\ Full(e1[z].mem_deps_ptr_array)
    BY <2>1, StandsKept
  <2> QED BY <2>2 DEF Overfull
<1>8. CASE Overfull(e, O, U, p)
  <2>1. PICK y \in U : Stands(e, O, U, p, y) /\ Full(e[y].mem_deps_ptr_array)
    BY <1>8 DEF Overfull
  <2>2. CASE y \in G
    BY <1>7, <2>1, <2>2
  <2>3. CASE y \notin G
    <3>1. y \in U1 /\ Stands(e1, O1, U1, p, y) /\ Full(e1[y].mem_deps_ptr_array)
      BY <2>1, <2>3, StandsKept
    <3> QED BY <3>1 DEF Overfull
  <2> QED BY <2>2, <2>3
<1>9. CASE t \in U /\ NotBefore(O, p, t)
  <2>1. CASE t1 = t /\ t \in U1
    <3>1. NotBefore(O1, p, t)
      BY <1>9, <2>1 DEF NotBefore, Done
    <3> QED BY <1>3, <2>1, <3>1
  <2>2. CASE t \in G /\ Undone(e, t) /\ t[1] = p[1] /\ Bucket(e, p[1], t) = Bucket(e, p[1], p)
    <3>1. Stands(e, O, U, p, t)
      BY <1>9, <2>2 DEF Stands
    <3> QED BY <1>7, <2>2, <3>1
  <2> QED BY <1>5, <1>9, <2>1, <2>2
<1> QED BY <1>6, <1>8, <1>9

\* A place in use has an access of its uop.
LEMMA UsedAccess ==
  ASSUME IInv, NEW p \in Place, Used(p)
  PROVE  mob[p].access \in [address : Nat, size : Nat]
<1>1. RobShape /\ MobShape /\ PlaceInv /\ OwnerInv
  BY DEF IInv
<1>2. PICK s \in Slot : s = Owner(p) /\ IsMemory(s)
  BY <1>1, OwnedPlace
<1>3. PICK i \in 0 .. Count(s) - 1 : Count(s) - Kept(s) <= i /\ p = Nth(s, i)
  BY <1>1, <1>2, OwnedPlace
<1>4. mob[p].access = rob[s].uop.accesses[i + 1]
  BY <1>1, <1>2, <1>3 DEF OwnerInv
<1>5. PICK u \in Uop : u = rob[s].uop /\ u.op \in Memory
  BY <1>1, <1>2 DEF RobShape, LineShape, IsMemory, Busy
<1>6. PICK a \in Seq([address : Nat, size : Nat]) : a = u.accesses /\ Len(a) \in Nat
  BY <1>5, UopAssumption
<1>7. i + 1 \in 1 .. Len(a)
  BY <1>3, <1>5, <1>6 DEF Count
<1>8. a[i + 1] \in [address : Nat, size : Nat]
  BY <1>7, ElementOfSeq
<1> QED BY <1>4, <1>5, <1>6, <1>8

\* A step that renames no uop leaves the order guarded.
LEMMA QuietGuard ==
  ASSUME IInv, IInv', GuardInv, NEW G, PlacesQuiet(G), AtMostOne(G)
  PROVE  GuardInv'
<1>1. MobShape /\ PlaceWaitInv /\ TableInv /\ MobShape' /\ TableInv'
  BY DEF IInv
<1> DEFINE H == G \cap UsedPlaces
<1>2. PICK U1 : U1 = UsedPlaces'
  OBVIOUS
<1>3. PICK O1 : O1 = OlderPairs'
  OBVIOUS
<1>4. PICK e1 : e1 = mob'
  OBVIOUS
<1>5. U1 = {x \in Place : Used(x)'}
  BY <1>2 DEF UsedPlaces
<1>6. \A x \in Place :
       /\ Used(x)' => Used(x) /\ e1[x].access = mob[x].access
       /\ Used(x)' /\ ~e1[x].processed <=> Used(x) /\ ~mob[x].processed /\ x \notin G
       /\ e1[x].mem_deps_ptr_array = IF x \in G THEN <<>> ELSE mob[x].mem_deps_ptr_array
       /\ x \in G => mob[x].wait_mem_deps_number = 0
  BY <1>4 DEF PlacesQuiet
<1>7. \A x \in Place : Used(x)' <=> e1[x].status # "FREE"
  BY <1>4 DEF Used
<1>8. Done(mob, OlderPairs, UsedPlaces, e1, O1, U1, H)
  <2>1. U1 \subseteq UsedPlaces /\ H \subseteq UsedPlaces /\ AtMostOne(H)
    BY <1>5, <1>6 DEF UsedPlaces, AtMostOne
  <2>2. \A x \in U1 : e1[x].access = mob[x].access
    BY <1>5, <1>6
  <2>3. \A x \in UsedPlaces : x \in U1 /\ Undone(e1, x) <=> Undone(mob, x) /\ x \notin H
    BY <1>5, <1>6, <1>7 DEF UsedPlaces, Undone, Used
  <2>4. \A x \in U1 : x \notin H => e1[x].mem_deps_ptr_array = mob[x].mem_deps_ptr_array
    BY <1>5, <1>6, <2>1 DEF UsedPlaces
  <2>5. \A x, y \in U1 : <<x, y>> \in O1 <=> <<x, y>> \in OlderPairs
    <3> TAKE x, y \in U1
    <3>1. x \in Place /\ y \in Place /\ Used(x)' /\ Used(y)'
      BY <1>5
    <3>2. Older(x, y)' <=> Older(x, y)
      BY <3>1 DEF PlacesQuiet
    <3>3. <<x, y>> \in O1 <=> Older(x, y)'
      BY <1>3, <3>1 DEF OlderPairs
    <3>4. <<x, y>> \in OlderPairs <=> Older(x, y)
      BY <3>1 DEF OlderPairs
    <3> QED BY <3>2, <3>3, <3>4
  <2>6. \A x \in H : \A y \in UsedPlaces : x \notin ToSet(mob[y].mem_deps_ptr_array)
    <3> TAKE x \in H
    <3> TAKE y \in UsedPlaces
    <3>1. x \in Place /\ y \in Place /\ mob[x].wait_mem_deps_number = 0
      BY <1>6 DEF UsedPlaces
    <3> QED BY <1>1, <3>1, PlacePointedAt
  <2>7. IsOrder(OlderPairs, UsedPlaces)
    BY OlderIsOrder
  <2> QED BY <2>1, <2>2, <2>3, <2>4, <2>5, <2>6, <2>7, Zenon DEF Done
<1>9. AllGuarded(e1, O1, U1)
  BY <1>8, DoneGuarded DEF GuardInv
<1>10. NULL \notin Place
  BY NullAssumption
<1>11. ASSUME NEW p \in U1, p[1] \in Remembered
       PROVE  Forgets(mob, UsedPlaces, U1, H, p, Latest(mob, p, load_hash, store_hash),
                      Latest(mob, p, load_hash', store_hash'))
  <2>1. p \in Place /\ Used(p)
    BY <1>5, <1>6
  <2>2. PICK a \in Nat : a = mob[p].access.address
    BY <2>1, UsedAccess
  <2>3. CASE p[1] = "LOAD"
    <3>1. PICK b \in 0 .. LOAD_HASH_SIZE - 1 : b = LoadHash(a)
      BY HashRange
    <3>2. Latest(mob, p, load_hash, store_hash) = load_hash[b] /\ Latest(mob, p, load_hash', store_hash') = load_hash'[b]
          /\ Bucket(mob, p[1], p) = b
      BY <2>2, <2>3, <3>1 DEF Latest, Bucket
    <3>3. CASE load_hash'[b] = load_hash[b]
      <4>1. ASSUME load_hash[b] \in UsedPlaces PROVE load_hash[b] \in U1
        <5>1. PICK t \in Place : t = load_hash[b] /\ t # NULL /\ t = load_hash'[b]
          BY <1>10, <3>3, <4>1 DEF UsedPlaces
        <5>2. Used(t)'
          BY <1>1, <5>1 DEF TableInv, Used
        <5> QED BY <1>5, <5>1, <5>2
      <4> QED BY <3>2, <3>3, <4>1 DEF Forgets
    <3>4. CASE load_hash'[b] = NULL /\ load_hash[b] \in G /\ load_hash[b] # NULL
      <4>1. PICK t \in Place : t = load_hash[b] /\ t # NULL
        BY <1>1, <3>4 DEF MobShape
      <4>2. t[1] = "LOAD" /\ Used(t) /\ ~mob[t].processed /\ LoadHash(mob[t].access.address) = b
        BY <1>1, <4>1 DEF TableInv
      <4>3. t \in H /\ Undone(mob, t) /\ t[1] = p[1] /\ Bucket(mob, p[1], t) = Bucket(mob, p[1], p)
        BY <2>3, <3>2, <3>4, <4>1, <4>2 DEF UsedPlaces, Undone, Used, Bucket
      <4> QED BY <3>2, <4>1, <4>3, Zenon DEF Forgets
    <3>5. load_hash'[b] = load_hash[b] \/ (load_hash'[b] = NULL /\ load_hash[b] \in G)
      BY DEF PlacesQuiet
    <3> QED BY <3>3, <3>4, <3>5
  <2>4. CASE p[1] # "LOAD"
    <3>1. PICK b \in 0 .. STORE_HASH_SIZE - 1 : b = StoreHash(a)
      BY HashRange
    <3>2. Latest(mob, p, load_hash, store_hash) = store_hash[b] /\ Latest(mob, p, load_hash', store_hash') = store_hash'[b]
          /\ Bucket(mob, p[1], p) = b
      BY <2>2, <2>4, <3>1 DEF Latest, Bucket
    <3>3. CASE store_hash'[b] = store_hash[b]
      <4>1. ASSUME store_hash[b] \in UsedPlaces PROVE store_hash[b] \in U1
        <5>1. PICK t \in Place : t = store_hash[b] /\ t # NULL /\ t = store_hash'[b]
          BY <1>10, <3>3, <4>1 DEF UsedPlaces
        <5>2. Used(t)'
          BY <1>1, <5>1 DEF TableInv, Used
        <5> QED BY <1>5, <5>1, <5>2
      <4> QED BY <3>2, <3>3, <4>1 DEF Forgets
    <3>4. CASE store_hash'[b] = NULL /\ store_hash[b] \in G /\ store_hash[b] # NULL
      <4>1. PICK t \in Place : t = store_hash[b] /\ t # NULL
        BY <1>1, <3>4 DEF MobShape
      <4>2. t[1] = "STORE" /\ Used(t) /\ ~mob[t].processed /\ StoreHash(mob[t].access.address) = b
        BY <1>1, <4>1 DEF TableInv
      <4>3. t \in H /\ Undone(mob, t) /\ t[1] = p[1] /\ Bucket(mob, p[1], t) = Bucket(mob, p[1], p)
        BY <1>11, <2>4, <3>2, <3>4, <4>1, <4>2 DEF UsedPlaces, Undone, Used, Bucket, Remembered
      <4> QED BY <3>2, <4>1, <4>3, Zenon DEF Forgets
    <3>5. store_hash'[b] = store_hash[b] \/ (store_hash'[b] = NULL /\ store_hash[b] \in G)
      BY DEF PlacesQuiet
    <3> QED BY <3>3, <3>4, <3>5
  <2> QED BY <2>3, <2>4
<1> HIDE DEF H
<1>12. AllTabled(e1, O1, U1, load_hash', store_hash')
  <2>1. PICK l1, s1 : l1 = load_hash' /\ s1 = store_hash'
    OBVIOUS
  <2>2. \A p \in U1 : p[1] \in Remembered =>
          Forgets(mob, UsedPlaces, U1, H, p, Latest(mob, p, load_hash, store_hash), Latest(mob, p, l1, s1))
    BY <1>11, <2>1
  <2>3. AllTabled(e1, O1, U1, l1, s1)
    BY <1>8, <2>2, DoneTabled DEF GuardInv
  <2> QED BY <2>1, <2>3
<1> QED BY <1>2, <1>3, <1>4, <1>9, <1>12 DEF GuardInv

\* The new place p is ordered: the tables' operations remember it.
OrderStep(m, loads, stores, m1, loads1, stores1, p) ==
  /\ \A x \in Place :
       /\ m1[x].status = m[x].status /\ m1[x].processed = m[x].processed /\ m1[x].access = m[x].access
       /\ m1[x].mem_deps_ptr_array =
            IF x \in {loads[Bucket(m, "LOAD", p)], stores[Bucket(m, "STORE", p)]} /\ ~Full(m[x].mem_deps_ptr_array)
            THEN Append(m[x].mem_deps_ptr_array, p) ELSE m[x].mem_deps_ptr_array
  /\ \A b \in 0 .. LOAD_HASH_SIZE - 1 :
       loads1[b] = IF p[1] = "LOAD" /\ b = Bucket(m, "LOAD", p) THEN p ELSE loads[b]
  /\ \A b \in 0 .. STORE_HASH_SIZE - 1 :
       stores1[b] = IF p[1] = "STORE" /\ b = Bucket(m, "STORE", p) THEN p ELSE stores[b]

LEMMA DependOne ==
  ASSUME NEW m \in [Place -> EntryShape], NEW old \in Place \cup {NULL}, NEW p \in Place, NEW x \in Place
  PROVE  DependOn(m, old, p)[x].mem_deps_ptr_array =
           IF x = old /\ ~Full(m[x].mem_deps_ptr_array)
           THEN Append(m[x].mem_deps_ptr_array, p) ELSE m[x].mem_deps_ptr_array
<1>n. NULL \notin Place
  BY NullAssumption
<1>1. CASE old = NULL \/ Len(m[old].mem_deps_ptr_array) = ROB_SIZE
  <2>1. DependOn(m, old, p) = m
    BY <1>1 DEF DependOn
  <2>2. ~(x = old /\ ~Full(m[x].mem_deps_ptr_array))
    BY <1>1, <1>n DEF Full
  <2> QED BY <2>1, <2>2
<1>2. CASE ~(old = NULL \/ Len(m[old].mem_deps_ptr_array) = ROB_SIZE)
  <2>1. old \in Place /\ ~Full(m[old].mem_deps_ptr_array)
    BY <1>2 DEF Full
  <2>2. PICK g : g = DependOn(m, old, p)
    OBVIOUS
  <2>3. g = [m EXCEPT ![old].mem_deps_ptr_array = Append(@, p), ![p].wait_mem_deps_number = @ + 1]
    BY <1>2, <2>2 DEF DependOn
  <2>4. PICK b : b = Append(m[old].mem_deps_ptr_array, p)
    OBVIOUS
  <2>5. PICK f : f = [m EXCEPT ![old] = [m[old] EXCEPT !.mem_deps_ptr_array = b]]
    OBVIOUS
  <2>6. [m EXCEPT ![old].mem_deps_ptr_array = Append(@, p)] = f
    BY <2>4, <2>5, Zenon
  <2>7. g = [f EXCEPT ![p].wait_mem_deps_number = @ + 1]
    BY <2>3, <2>6, Zenon
  <2>8. PICK w : w = f[p].wait_mem_deps_number + 1
    OBVIOUS
  <2>9. g = [f EXCEPT ![p] = [f[p] EXCEPT !.wait_mem_deps_number = w]]
    BY <2>7, <2>8, Zenon
  <2>10. b \in Seq(Place)
    <3>1. m[old].mem_deps_ptr_array \in Seq(Place)
      BY <2>1, EntryTypes
    <3> QED BY <2>4, <3>1
  <2>11. /\ f \in [Place -> EntryShape]
         /\ \A y \in Place : f[y].mem_deps_ptr_array = IF y = old THEN b ELSE m[y].mem_deps_ptr_array
    <3>1. m[old] \in EntryShape
      BY <2>1
    <3>2. PICK e : e = [m[old] EXCEPT !.mem_deps_ptr_array = b]
      OBVIOUS
    <3>3. e \in EntryShape /\ e.mem_deps_ptr_array = b
      BY <2>10, <3>1, <3>2 DEF EntryShape
    <3>4. f \in [Place -> EntryShape] /\ f[old] = e /\ \A y \in Place : y # old => f[y] = m[y]
      BY <2>1, <2>5, <3>2, <3>3
    <3> QED BY <3>3, <3>4
  <2>12. g[x].mem_deps_ptr_array = f[x].mem_deps_ptr_array
    <3>1. g[x] = IF x = p THEN [f[x] EXCEPT !.wait_mem_deps_number = w] ELSE f[x]
      BY <2>9, <2>11
    <3>2. f[x] \in EntryShape
      BY <2>11
    <3> QED BY <3>1, <3>2 DEF EntryShape
  <2> QED BY <2>1, <2>2, <2>4, <2>11, <2>12
<1> QED BY <1>1, <1>2

\* make_memory_dependences is such a step.
LEMMA DependencesOne ==
  ASSUME NEW filled, NEW new, NEW d, Ordering(d.mob, filled, new), TablesOK(d.load_hash, d.store_hash, filled),
         NEW p \in new, p \in Place, Undone(filled, p), filled[p].access \in [address : Nat, size : Nat],
         NEW e, e = make_memory_dependences(d, p)
  PROVE  OrderStep(d.mob, d.load_hash, d.store_hash, e.mob, e.load_hash, e.store_hash, p)
<1>1. PICK address \in Nat : address = d.mob[p].access.address /\ address = filled[p].access.address
  BY DEF Ordering
<1>2. PICK i \in 0 .. LOAD_HASH_SIZE - 1 : i = LoadHash(address)
  BY HashRange
<1>3. PICK j \in 0 .. STORE_HASH_SIZE - 1 : j = StoreHash(address)
  BY HashRange
<1>4. PICK y : y = d.load_hash[i]
  OBVIOUS
<1>5. PICK z : z = d.store_hash[j]
  OBVIOUS
<1>6. /\ y \in Place \cup {NULL} /\ (y # NULL => Undone(filled, y) /\ y[1] = "LOAD")
      /\ z \in Place \cup {NULL} /\ (z # NULL => Undone(filled, z) /\ z[1] = "STORE")
  BY <1>4, <1>5 DEF TablesOK
<1>7. /\ e.mob = DependOn(DependOn(d.mob, y, p), z, p)
      /\ e.load_hash = IF p[1] = "LOAD" THEN [d.load_hash EXCEPT ![i] = p] ELSE d.load_hash
      /\ e.store_hash = IF p[1] = "STORE" THEN [d.store_hash EXCEPT ![j] = p] ELSE d.store_hash
  BY <1>1, <1>2, <1>3, <1>4, <1>5 DEF make_memory_dependences
<1>8. PICK g : g = DependOn(d.mob, y, p) /\ Ordering(g, filled, new)
  BY <1>6, DependOnKeeps
<1>9. PICK h : h = DependOn(g, z, p) /\ Ordering(h, filled, new)
  BY <1>6, <1>8, DependOnKeeps
<1>10. e.mob = h
  BY <1>7, <1>8, <1>9
<1>11. Bucket(d.mob, "LOAD", p) = i /\ Bucket(d.mob, "STORE", p) = j
  BY <1>1, <1>2, <1>3 DEF Bucket
<1>12. NULL \notin Place
  BY NullAssumption
<1>13. ASSUME NEW x \in Place
       PROVE  h[x].mem_deps_ptr_array =
                IF x \in {y, z} /\ ~Full(d.mob[x].mem_deps_ptr_array)
                THEN Append(d.mob[x].mem_deps_ptr_array, p) ELSE d.mob[x].mem_deps_ptr_array
  <2>1. d.mob \in [Place -> EntryShape] /\ g \in [Place -> EntryShape]
    BY <1>8 DEF Ordering
  <2>2. g[x].mem_deps_ptr_array = IF x = y /\ ~Full(d.mob[x].mem_deps_ptr_array)
                                  THEN Append(d.mob[x].mem_deps_ptr_array, p) ELSE d.mob[x].mem_deps_ptr_array
    <3>1. DependOn(d.mob, y, p)[x].mem_deps_ptr_array =
            IF x = y /\ ~Full(d.mob[x].mem_deps_ptr_array)
            THEN Append(d.mob[x].mem_deps_ptr_array, p) ELSE d.mob[x].mem_deps_ptr_array
      <4>1. PICK m : m = d.mob
        OBVIOUS
      <4>2. m \in [Place -> EntryShape] /\ y \in Place \cup {NULL}
        BY <1>6, <2>1, <4>1
      <4>3. DependOn(m, y, p)[x].mem_deps_ptr_array =
              IF x = y /\ ~Full(m[x].mem_deps_ptr_array)
              THEN Append(m[x].mem_deps_ptr_array, p) ELSE m[x].mem_deps_ptr_array
        BY <4>2, DependOne
      <4> QED BY <4>1, <4>3, Zenon
    <3> QED BY <1>8, <3>1, Zenon
  <2>3. h[x].mem_deps_ptr_array = IF x = z /\ ~Full(g[x].mem_deps_ptr_array)
                                  THEN Append(g[x].mem_deps_ptr_array, p) ELSE g[x].mem_deps_ptr_array
    <3>1. DependOn(g, z, p)[x].mem_deps_ptr_array =
            IF x = z /\ ~Full(g[x].mem_deps_ptr_array)
            THEN Append(g[x].mem_deps_ptr_array, p) ELSE g[x].mem_deps_ptr_array
      <4>1. g \in [Place -> EntryShape] /\ z \in Place \cup {NULL}
        BY <1>6, <2>1
      <4> QED BY <4>1, DependOne
    <3> QED BY <1>9, <3>1, Zenon
  <2>4. ~(x = y /\ x = z)
    BY <1>6, <1>12
  <2> QED BY <2>2, <2>3, <2>4
<1>14. \A x \in Place : h[x].status = d.mob[x].status /\ h[x].processed = d.mob[x].processed /\ h[x].access = d.mob[x].access
  BY <1>9 DEF Ordering
<1>15. \A b \in 0 .. LOAD_HASH_SIZE - 1 :
         e.load_hash[b] = IF p[1] = "LOAD" /\ b = i THEN p ELSE d.load_hash[b]
  <2>1. PICK f \in [0 .. LOAD_HASH_SIZE - 1 -> Place \cup {NULL}] : f = d.load_hash
    BY DEF TablesOK
  <2>2. e.load_hash = IF p[1] = "LOAD" THEN [f EXCEPT ![i] = p] ELSE f
    BY <1>7, <2>1, Zenon
  <2>3. PICK f1 : f1 = e.load_hash
    OBVIOUS
  <2>4. f1 = IF p[1] = "LOAD" THEN [f EXCEPT ![i] = p] ELSE f
    BY <2>2, <2>3, Zenon
  <2>5. \A b \in 0 .. LOAD_HASH_SIZE - 1 : f1[b] = IF p[1] = "LOAD" /\ b = i THEN p ELSE f[b]
    BY <2>4
  <2> QED BY <2>1, <2>3, <2>5, Zenon
<1>16. \A b \in 0 .. STORE_HASH_SIZE - 1 :
         e.store_hash[b] = IF p[1] = "STORE" /\ b = j THEN p ELSE d.store_hash[b]
  <2>1. PICK f \in [0 .. STORE_HASH_SIZE - 1 -> Place \cup {NULL}] : f = d.store_hash
    BY DEF TablesOK
  <2>2. e.store_hash = IF p[1] = "STORE" THEN [f EXCEPT ![j] = p] ELSE f
    BY <1>7, <2>1, Zenon
  <2>3. PICK f1 : f1 = e.store_hash
    OBVIOUS
  <2>4. f1 = IF p[1] = "STORE" THEN [f EXCEPT ![j] = p] ELSE f
    BY <2>2, <2>3, Zenon
  <2>5. \A b \in 0 .. STORE_HASH_SIZE - 1 : f1[b] = IF p[1] = "STORE" /\ b = j THEN p ELSE f[b]
    BY <2>4
  <2> QED BY <2>1, <2>3, <2>5, Zenon
<1> QED BY <1>4, <1>5, <1>10, <1>11, <1>13, <1>14, <1>15, <1>16 DEF OrderStep

\* What the step of a place p relies on: p is the youngest, and the tables
\* name operations that are not done, of their kind and of their bucket.
StepFacts(m, O, U, p, loads, stores) ==
  /\ p \in Place /\ p \notin U /\ U \subseteq Place
  /\ IsOrder(O, U \cup {p}) /\ \A x \in U : <<x, p>> \in O
  /\ \A x \in Place : m[x].mem_deps_ptr_array \in Seq(Place)
  /\ \A x \in U \cup {p} : /\ Bucket(m, "LOAD", x) \in 0 .. LOAD_HASH_SIZE - 1
                           /\ Bucket(m, "STORE", x) \in 0 .. STORE_HASH_SIZE - 1
  /\ \A b \in 0 .. LOAD_HASH_SIZE - 1 : loads[b] \in Place =>
       loads[b][1] = "LOAD" /\ Undone(m, loads[b]) /\ Bucket(m, "LOAD", loads[b]) = b
  /\ \A b \in 0 .. STORE_HASH_SIZE - 1 : stores[b] \in Place =>
       stores[b][1] = "STORE" /\ Undone(m, stores[b]) /\ Bucket(m, "STORE", stores[b]) = b

\* The step takes nothing from who stood, and from who was full.
StepKeeps(m, m1, p, x) ==
  /\ Undone(m1, x) <=> Undone(m, x)
  /\ \A op \in Remembered : Bucket(m1, op, x) = Bucket(m, op, x)
  /\ Full(m[x].mem_deps_ptr_array) => Full(m1[x].mem_deps_ptr_array)
  /\ ToSet(m[x].mem_deps_ptr_array) \subseteq ToSet(m1[x].mem_deps_ptr_array)

LEMMA StepKeepsAll ==
  ASSUME NEW m, NEW O, NEW U, NEW p, NEW loads, NEW stores, NEW m1, NEW loads1, NEW stores1,
         StepFacts(m, O, U, p, loads, stores), OrderStep(m, loads, stores, m1, loads1, stores1, p),
         NEW x \in Place
  PROVE  StepKeeps(m, m1, p, x)
<1>1. m1[x].status = m[x].status /\ m1[x].processed = m[x].processed /\ m1[x].access = m[x].access
  BY DEF OrderStep
<1>2. Undone(m1, x) <=> Undone(m, x)
  BY <1>1 DEF Undone
<1>3. \A op \in Remembered : Bucket(m1, op, x) = Bucket(m, op, x)
  BY <1>1, BucketSame
<1>4. PICK a : a = m[x].mem_deps_ptr_array
  OBVIOUS
<1>5. a \in Seq(Place) /\ p \in Place
  BY <1>4 DEF StepFacts
<1>6. m1[x].mem_deps_ptr_array = IF x \in {loads[Bucket(m, "LOAD", p)], stores[Bucket(m, "STORE", p)]} /\ ~Full(a)
                                 THEN Append(a, p) ELSE a
  BY <1>4, Zenon DEF OrderStep
<1>7. CASE m1[x].mem_deps_ptr_array = a
  BY <1>2, <1>3, <1>4, <1>7 DEF StepKeeps
<1>8. CASE m1[x].mem_deps_ptr_array = Append(a, p) /\ ~Full(a)
  <2>1. ToSet(Append(a, p)) = ToSet(a) \cup {p}
    BY <1>5, AppendSet
  <2> QED BY <1>2, <1>3, <1>4, <1>8, <2>1 DEF StepKeeps
<1> QED BY <1>6, <1>7, <1>8

\* The one the table names remembers p.
LEMMA StepRemembers ==
  ASSUME NEW m, NEW O, NEW U, NEW p, NEW loads, NEW stores, NEW m1, NEW loads1, NEW stores1,
         StepFacts(m, O, U, p, loads, stores), OrderStep(m, loads, stores, m1, loads1, stores1, p),
         NEW y \in Place, y \in {loads[Bucket(m, "LOAD", p)], stores[Bucket(m, "STORE", p)]}
  PROVE  p \in ToSet(m1[y].mem_deps_ptr_array) \/ Full(m1[y].mem_deps_ptr_array)
<1>1. PICK a : a = m[y].mem_deps_ptr_array
  OBVIOUS
<1>2. a \in Seq(Place) /\ p \in Place
  BY <1>1 DEF StepFacts
<1>3. m1[y].mem_deps_ptr_array = IF y \in {loads[Bucket(m, "LOAD", p)], stores[Bucket(m, "STORE", p)]} /\ ~Full(a)
                                 THEN Append(a, p) ELSE a
  BY <1>1, Zenon DEF OrderStep
<1>4. ToSet(Append(a, p)) = ToSet(a) \cup {p}
  BY <1>2, AppendSet
<1> QED BY <1>3, <1>4

\* Who stood, stands.
LEMMA StepStands ==
  ASSUME NEW m, NEW O, NEW U, NEW p, NEW loads, NEW stores, NEW m1, NEW loads1, NEW stores1,
         StepFacts(m, O, U, p, loads, stores), OrderStep(m, loads, stores, m1, loads1, stores1, p),
         NEW x \in U, x[1] \in Remembered, NEW y \in U, Stands(m, O, U, x, y)
  PROVE  /\ Stands(m1, O, U \cup {p}, x, y)
         /\ Full(m[y].mem_deps_ptr_array) => Full(m1[y].mem_deps_ptr_array)
         /\ ToSet(m[y].mem_deps_ptr_array) \subseteq ToSet(m1[y].mem_deps_ptr_array)
<1>1. x \in Place /\ y \in Place
  BY DEF StepFacts
<1>2. StepKeeps(m, m1, p, x)
  BY <1>1, StepKeepsAll
<1>3. StepKeeps(m, m1, p, y)
  BY <1>1, StepKeepsAll
<1> QED BY <1>2, <1>3 DEF StepKeeps, Stands

\* The one that stands for x in the table.
LEMMA TableStands ==
  ASSUME NEW m, NEW O, NEW U, NEW p, NEW loads, NEW stores,
         StepFacts(m, O, U, p, loads, stores),
         NEW x \in U, x[1] \in Remembered,
         Latest(m, x, loads, stores) \in U, NotBefore(O, x, Latest(m, x, loads, stores))
  PROVE  Stands(m, O, U, x, Latest(m, x, loads, stores))
<1>1. CASE x[1] = "LOAD"
  <2>1. PICK b \in 0 .. LOAD_HASH_SIZE - 1 : b = Bucket(m, "LOAD", x)
    BY DEF StepFacts
  <2>2. Latest(m, x, loads, stores) = loads[b]
    BY <1>1, <2>1 DEF Latest
  <2>3. loads[b] \in Place
    BY <2>2 DEF StepFacts
  <2>4. loads[b][1] = "LOAD" /\ Undone(m, loads[b]) /\ Bucket(m, "LOAD", loads[b]) = b
    BY <2>3 DEF StepFacts
  <2> QED BY <1>1, <2>1, <2>2, <2>4 DEF Stands
<1>2. CASE x[1] = "STORE"
  <2>1. PICK b \in 0 .. STORE_HASH_SIZE - 1 : b = Bucket(m, "STORE", x)
    BY DEF StepFacts
  <2>2. Latest(m, x, loads, stores) = stores[b]
    BY <1>2, <2>1 DEF Latest
  <2>3. stores[b] \in Place
    BY <2>2 DEF StepFacts
  <2>4. stores[b][1] = "STORE" /\ Undone(m, stores[b]) /\ Bucket(m, "STORE", stores[b]) = b
    BY <2>3 DEF StepFacts
  <2> QED BY <1>2, <2>1, <2>2, <2>4 DEF Stands
<1> QED BY <1>1, <1>2 DEF Remembered

LEMMA StepGuarded ==
  ASSUME NEW m, NEW O, NEW U, NEW p, NEW loads, NEW stores, NEW m1, NEW loads1, NEW stores1,
         StepFacts(m, O, U, p, loads, stores), OrderStep(m, loads, stores, m1, loads1, stores1, p),
         AllGuarded(m, O, U), AllTabled(m, O, U, loads, stores)
  PROVE  AllGuarded(m1, O, U \cup {p})
<1> SUFFICES ASSUME NEW x \in U \cup {p}, NEW q \in U \cup {p}, Conflict(m1, O, x, q)
             PROVE  \E y \in U \cup {p} : Guards(m1, O, U \cup {p}, x, q, y)
  BY DEF AllGuarded
<1>1. x[1] \in Remembered /\ Undone(m1, x) /\ <<x, q>> \in O /\ Bucket(m1, x[1], x) = Bucket(m1, x[1], q)
  BY DEF Conflict
<1>2. x \in U
  BY <1>1 DEF StepFacts, IsOrder
<1>3. x \in Place /\ q \in Place /\ p \in Place
  BY DEF StepFacts
<1>4. StepKeeps(m, m1, p, x) /\ StepKeeps(m, m1, p, q)
  BY <1>3, StepKeepsAll
<1>5. Undone(m, x) /\ Bucket(m, x[1], x) = Bucket(m, x[1], q)
  BY <1>1, <1>4 DEF StepKeeps
<1>6. CASE q \in U
  <2>1. Conflict(m, O, x, q)
    BY <1>1, <1>5 DEF Conflict
  <2>2. PICK y \in U : Guards(m, O, U, x, q, y)
    BY <1>2, <1>6, <2>1 DEF AllGuarded
  <2>3. Stands(m, O, U, x, y) /\ <<y, q>> \in O /\ (q \in ToSet(m[y].mem_deps_ptr_array) \/ Full(m[y].mem_deps_ptr_array))
    BY <2>2, Zenon DEF Guards
  <2>4. /\ Stands(m1, O, U \cup {p}, x, y)
        /\ Full(m[y].mem_deps_ptr_array) => Full(m1[y].mem_deps_ptr_array)
        /\ ToSet(m[y].mem_deps_ptr_array) \subseteq ToSet(m1[y].mem_deps_ptr_array)
    BY <1>1, <1>2, <2>3, StepStands
  <2> QED BY <2>3, <2>4 DEF Guards
<1>7. CASE q = p
  <2>1. CASE Overfull(m, O, U, x)
    <3>1. PICK y \in U : Stands(m, O, U, x, y) /\ Full(m[y].mem_deps_ptr_array)
      BY <2>1 DEF Overfull
    <3>2. /\ Stands(m1, O, U \cup {p}, x, y)
          /\ Full(m[y].mem_deps_ptr_array) => Full(m1[y].mem_deps_ptr_array)
      BY <1>1, <1>2, <3>1, StepStands
    <3>3. <<y, q>> \in O
      BY <1>7 DEF StepFacts
    <3> QED BY <3>1, <3>2, <3>3 DEF Guards
  <2>2. CASE Latest(m, x, loads, stores) \in U /\ NotBefore(O, x, Latest(m, x, loads, stores))
    <3>1. PICK y : y = Latest(m, x, loads, stores)
      OBVIOUS
    <3>2. Stands(m, O, U, x, y)
      <4>1. Stands(m, O, U, x, Latest(m, x, loads, stores))
        BY <1>1, <1>2, <2>2, TableStands, Zenon
      <4> QED BY <3>1, <4>1, Zenon
    <3>3. y \in U /\ y \in Place
      BY <2>2, <3>1 DEF StepFacts
    <3>4. Stands(m1, O, U \cup {p}, x, y)
      BY <1>1, <1>2, <3>2, <3>3, StepStands
    <3>5. y \in {loads[Bucket(m, "LOAD", p)], stores[Bucket(m, "STORE", p)]}
      BY <1>1, <1>5, <1>7, <3>1 DEF Latest, Remembered
    <3>6. p \in ToSet(m1[y].mem_deps_ptr_array) \/ Full(m1[y].mem_deps_ptr_array)
      BY <3>3, <3>5, StepRemembers
    <3>7. <<y, q>> \in O
      BY <1>7, <3>3 DEF StepFacts
    <3> QED BY <1>7, <3>3, <3>4, <3>6, <3>7 DEF Guards
  <2> QED BY <1>1, <1>2, <1>5, <2>1, <2>2 DEF AllTabled
<1> QED BY <1>6, <1>7

LEMMA StepTabled ==
  ASSUME NEW m, NEW O, NEW U, NEW p, NEW loads, NEW stores, NEW m1, NEW loads1, NEW stores1,
         StepFacts(m, O, U, p, loads, stores), OrderStep(m, loads, stores, m1, loads1, stores1, p),
         AllTabled(m, O, U, loads, stores)
  PROVE  AllTabled(m1, O, U \cup {p}, loads1, stores1)
<1> SUFFICES ASSUME NEW x \in U \cup {p}, x[1] \in Remembered, Undone(m1, x)
             PROVE  \/ /\ Latest(m1, x, loads1, stores1) \in U \cup {p}
                       /\ NotBefore(O, x, Latest(m1, x, loads1, stores1))
                    \/ Overfull(m1, O, U \cup {p}, x)
  BY DEF AllTabled
<1>1. x \in Place /\ p \in Place
  BY DEF StepFacts
<1>2. StepKeeps(m, m1, p, x)
  BY <1>1, StepKeepsAll
<1>3. Undone(m, x) /\ \A op \in Remembered : Bucket(m1, op, x) = Bucket(m, op, x)
  BY <1>2 DEF StepKeeps
<1>4. Latest(m1, x, loads1, stores1) =
        IF x[1] = p[1] /\ Bucket(m, x[1], x) = Bucket(m, x[1], p) THEN p ELSE Latest(m, x, loads, stores)
  <2>1. CASE x[1] = "LOAD"
    <3>1. PICK b \in 0 .. LOAD_HASH_SIZE - 1 : b = Bucket(m, "LOAD", x)
      BY DEF StepFacts
    <3>2. Latest(m1, x, loads1, stores1) = loads1[b] /\ Latest(m, x, loads, stores) = loads[b]
      BY <1>3, <2>1, <3>1 DEF Latest, Remembered
    <3>3. loads1[b] = IF p[1] = "LOAD" /\ b = Bucket(m, "LOAD", p) THEN p ELSE loads[b]
      BY DEF OrderStep
    <3> QED BY <2>1, <3>1, <3>2, <3>3
  <2>2. CASE x[1] = "STORE"
    <3>1. PICK b \in 0 .. STORE_HASH_SIZE - 1 : b = Bucket(m, "STORE", x)
      BY DEF StepFacts
    <3>2. Latest(m1, x, loads1, stores1) = stores1[b] /\ Latest(m, x, loads, stores) = stores[b]
      BY <1>3, <2>2, <3>1 DEF Latest, Remembered
    <3>3. stores1[b] = IF p[1] = "STORE" /\ b = Bucket(m, "STORE", p) THEN p ELSE stores[b]
      BY DEF OrderStep
    <3> QED BY <2>2, <3>1, <3>2, <3>3
  <2> QED BY <2>1, <2>2 DEF Remembered
<1>5. CASE x[1] = p[1] /\ Bucket(m, x[1], x) = Bucket(m, x[1], p)
  <2>1. x = p \/ <<x, p>> \in O
    BY DEF StepFacts
  <2> QED BY <1>4, <1>5, <2>1 DEF NotBefore
<1>6. CASE ~(x[1] = p[1] /\ Bucket(m, x[1], x) = Bucket(m, x[1], p))
  <2>1. x \in U
    BY <1>6
  <2>2. CASE Latest(m, x, loads, stores) \in U /\ NotBefore(O, x, Latest(m, x, loads, stores))
    BY <1>4, <1>6, <2>2
  <2>3. CASE Overfull(m, O, U, x)
    <3>1. PICK y \in U : Stands(m, O, U, x, y) /\ Full(m[y].mem_deps_ptr_array)
      BY <2>3 DEF Overfull
    <3>2. /\ Stands(m1, O, U \cup {p}, x, y)
          /\ Full(m[y].mem_deps_ptr_array) => Full(m1[y].mem_deps_ptr_array)
      BY <2>1, <3>1, StepStands
    <3> QED BY <3>1, <3>2 DEF Overfull
  <2> QED BY <1>3, <2>1, <2>2, <2>3 DEF AllTabled
<1> QED BY <1>5, <1>6

\* The places that rename takes come after those in use, and after each other.
RenameAges(u, O1, U1) ==
  /\ U1 = UsedPlaces \cup ToSet(NewPlaces(u))
  /\ \A k \in 1 .. Len(u.accesses) : NewPlaces(u)[k] \in Place /\ NewPlaces(u)[k] \notin UsedPlaces
  /\ \A x, y \in UsedPlaces : <<x, y>> \in O1 <=> <<x, y>> \in OlderPairs
  /\ \A x \in UsedPlaces : \A k \in 1 .. Len(u.accesses) : <<x, NewPlaces(u)[k]>> \in O1
  /\ \A k, l \in 1 .. Len(u.accesses) : k < l => <<NewPlaces(u)[k], NewPlaces(u)[l]>> \in O1

LEMMA RenamedAges ==
  ASSUME IInv, NEW u \in Uop, u.op \in Memory, rename(u), NEW s, s = robEnd
  PROVE  RenameAges(u, OlderPairs', UsedPlaces')
<1> USE DEF IInv
<1>1. PlacesRenamed(u, s) /\ LinesRenamed(u, s) /\ NewFacts(u, s)
  BY RenameMob, RenamedLines, NewUop
<1>2. \A x \in ToSet(NewPlaces(u)) : x \in Place /\ ~Used(x)
  <2>1. mob_used[u.op] + Len(u.accesses) <= MOB[u.op]
    BY DEF rename
  <2>2. s \in Slot
    BY <1>1 DEF LinesRenamed
  <2> QED BY <2>1, <2>2, FilledIs
<1>3. PICK n \in Nat \ {0} : n = Len(u.accesses)
  BY <1>1 DEF NewFacts
<1>4. PICK q : q = NewPlaces(u)
  OBVIOUS
<1>5. /\ \A k \in 1 .. n : q[k] \in Place /\ q[k] \in ToSet(q)
      /\ \A x \in ToSet(q) : \E k \in 1 .. n : x = q[k]
      /\ \A k \in 1 .. n : Distance(q[k]) = mob_used[u.op] + k - 1
      /\ mob_used[u.op] \in Nat
  BY <1>1, <1>3, <1>4 DEF NewFacts
<1>6. \A k \in 1 .. n : mob'[q[k]].status = "WAIT" /\ mob'[q[k]].rob_ptr = s
  BY <1>1, <1>3, <1>4 DEF PlacesRenamed
<1>7. \A x \in Place : x \notin ToSet(q) => mob'[x].status = mob[x].status /\ mob'[x].rob_ptr = mob[x].rob_ptr
  BY <1>1, <1>4 DEF PlacesRenamed
<1>8. \A x \in Place : Distance(x)' = Distance(x)
  BY <1>1 DEF PlacesRenamed
<1>9. \A x, y \in Place :
        <<x, y>> \in OlderPairs' <=>
          \/ rob'[mob'[x].rob_ptr].uop_number < rob'[mob'[y].rob_ptr].uop_number
          \/ mob'[x].rob_ptr = mob'[y].rob_ptr /\ Distance(x) < Distance(y)
  <2> TAKE x, y \in Place
  <2>1. <<x, y>> \in OlderPairs' <=> Older(x, y)'
    BY DEF OlderPairs
  <2>2. Older(x, y)' <=>
          \/ rob'[mob'[x].rob_ptr].uop_number < rob'[mob'[y].rob_ptr].uop_number
          \/ mob'[x].rob_ptr = mob'[y].rob_ptr /\ Distance(x)' < Distance(y)'
    BY DEF Older, Before
  <2> QED BY <1>8, <2>1, <2>2
<1>10. \A x, y \in Place :
        <<x, y>> \in OlderPairs <=>
          \/ rob[mob[x].rob_ptr].uop_number < rob[mob[y].rob_ptr].uop_number
          \/ mob[x].rob_ptr = mob[y].rob_ptr /\ Distance(x) < Distance(y)
  BY DEF OlderPairs, Older, Before
<1>11. ASSUME NEW x \in UsedPlaces
       PROVE  /\ x \in Place /\ x \notin ToSet(q) /\ mob'[x].rob_ptr = mob[x].rob_ptr
              /\ mob[x].rob_ptr \in Slot /\ mob[x].rob_ptr # s /\ Busy(mob[x].rob_ptr)
              /\ rob'[mob[x].rob_ptr].uop_number = rob[mob[x].rob_ptr].uop_number
  <2>1. x \in Place /\ Used(x)
    BY DEF UsedPlaces
  <2>2. x \notin ToSet(q)
    BY <1>2, <1>4, <2>1
  <2>3. mob[x].rob_ptr \in Slot /\ Busy(mob[x].rob_ptr)
    BY <2>1 DEF PlaceInv, Owner, IsMemory
  <2>4. mob[x].rob_ptr # s
    BY <1>1, <2>3 DEF LinesRenamed
  <2>5. rob'[mob[x].rob_ptr].uop_number = rob[mob[x].rob_ptr].uop_number
    BY <1>1, <2>3, <2>4 DEF LinesRenamed
  <2> QED BY <1>7, <2>1, <2>2, <2>3, <2>4, <2>5
<1>12. UsedPlaces' = UsedPlaces \cup ToSet(q)
  <2>1. UsedPlaces' = {x \in Place : mob'[x].status # "FREE"}
    BY DEF UsedPlaces, Used
  <2>2. UsedPlaces = {x \in Place : mob[x].status # "FREE"}
    BY DEF UsedPlaces, Used
  <2>3. \A x \in ToSet(q) : x \in Place /\ mob'[x].status # "FREE"
    BY <1>5, <1>6
  <2> QED BY <1>7, <2>1, <2>2, <2>3
<1>13. \A k \in 1 .. n : q[k] \in Place /\ q[k] \notin UsedPlaces
  BY <1>5, <1>11
<1>14. \A x, y \in UsedPlaces : <<x, y>> \in OlderPairs' <=> <<x, y>> \in OlderPairs
  <2> TAKE x, y \in UsedPlaces
  <2>1. x \in Place /\ y \in Place
    BY <1>11
  <2>2. mob'[x].rob_ptr = mob[x].rob_ptr /\ mob'[y].rob_ptr = mob[y].rob_ptr
        /\ rob'[mob[x].rob_ptr].uop_number = rob[mob[x].rob_ptr].uop_number
        /\ rob'[mob[y].rob_ptr].uop_number = rob[mob[y].rob_ptr].uop_number
    BY <1>11
  <2>3. <<x, y>> \in OlderPairs' <=>
          \/ rob'[mob'[x].rob_ptr].uop_number < rob'[mob'[y].rob_ptr].uop_number
          \/ mob'[x].rob_ptr = mob'[y].rob_ptr /\ Distance(x) < Distance(y)
    BY <1>9, <2>1, Zenon
  <2>4. <<x, y>> \in OlderPairs <=>
          \/ rob[mob[x].rob_ptr].uop_number < rob[mob[y].rob_ptr].uop_number
          \/ mob[x].rob_ptr = mob[y].rob_ptr /\ Distance(x) < Distance(y)
    BY <1>10, <2>1, Zenon
  <2> QED BY <2>2, <2>3, <2>4
<1>15. \A x \in UsedPlaces : \A k \in 1 .. n : <<x, q[k]>> \in OlderPairs'
  <2> TAKE x \in UsedPlaces
  <2> TAKE k \in 1 .. n
  <2>1. x \in Place /\ q[k] \in Place /\ mob'[q[k]].rob_ptr = s
    BY <1>5, <1>6, <1>11
  <2>2. PICK o : o = mob[x].rob_ptr
    OBVIOUS
  <2>3. o \in Slot /\ Busy(o) /\ mob'[x].rob_ptr = o
    BY <1>11, <2>2
  <2>4. Before(o, s)'
    BY <1>1, <2>3 DEF LinesRenamed
  <2>5. rob'[o].uop_number < rob'[s].uop_number
    BY <2>4 DEF Before
  <2> QED BY <1>9, <2>1, <2>3, <2>5
<1>16. \A k, l \in 1 .. n : k < l => <<q[k], q[l]>> \in OlderPairs'
  <2> TAKE k, l \in 1 .. n
  <2> HAVE k < l
  <2>1. Distance(q[k]) < Distance(q[l])
    BY <1>5
  <2>2. q[k] \in Place /\ q[l] \in Place /\ mob'[q[k]].rob_ptr = s /\ mob'[q[l]].rob_ptr = s
    BY <1>5, <1>6
  <2> QED BY <1>9, <2>1, <2>2
<1> QED BY <1>3, <1>4, <1>12, <1>13, <1>14, <1>15, <1>16 DEF RenameAges

\* The places in use when k of the new ones are ordered.
Upto(u, k) == UsedPlaces \cup {NewPlaces(u)[j] : j \in 1 .. k}

LEMMA ChainStep ==
  ASSUME IInv, NEW u \in Uop, u.op \in Memory, NEW O1, NEW U1, RenameAges(u, O1, U1), IsOrder(O1, U1),
         NEW a, NEW filled, NEW s, OrderChain(a, filled, u, s), NEW k \in 1 .. Len(u.accesses)
  PROVE  /\ StepFacts(a[k - 1].mob, O1, Upto(u, k - 1), NewPlaces(u)[k], a[k - 1].load_hash, a[k - 1].store_hash)
         /\ OrderStep(a[k - 1].mob, a[k - 1].load_hash, a[k - 1].store_hash,
                      a[k].mob, a[k].load_hash, a[k].store_hash, NewPlaces(u)[k])
         /\ Upto(u, k) = Upto(u, k - 1) \cup {NewPlaces(u)[k]}
<1>1. PICK n \in Nat \ {0} : n = Len(u.accesses)
  <2>1. Len(u.accesses) \in 1 .. MOB[u.op]
    BY UopAssumption
  <2> QED BY <2>1, MobSize
<1>2. PICK q : q = NewPlaces(u)
  OBVIOUS
<1>3. k \in 1 .. n /\ k - 1 \in 0 .. n - 1 /\ k - 1 \in 0 .. n
  BY <1>1
<1>4. PICK d : d = a[k - 1]
  OBVIOUS
<1>5. PICK p : p = q[k]
  OBVIOUS
<1>6. Ordering(d.mob, filled, ToSet(q)) /\ TablesOK(d.load_hash, d.store_hash, filled)
  BY <1>1, <1>2, <1>3, <1>4 DEF OrderChain
<1>7. PICK e : e = a[k]
  OBVIOUS
<1>8. e = make_memory_dependences(d, p)
  BY <1>1, <1>2, <1>3, <1>4, <1>5, <1>7 DEF OrderChain
<1>9. /\ \A j \in 1 .. n : q[j] \in Place /\ q[j] \notin UsedPlaces
      /\ \A x \in UsedPlaces : \A j \in 1 .. n : <<x, q[j]>> \in O1
      /\ \A i, j \in 1 .. n : i < j => <<q[i], q[j]>> \in O1
      /\ U1 = UsedPlaces \cup ToSet(q)
  BY <1>1, <1>2 DEF RenameAges
<1>10. /\ DOMAIN q = 1 .. n
       /\ \A j \in 1 .. n : q[j] \in ToSet(q)
  <2>1. DOMAIN q = 1 .. n
    BY <1>1, <1>2 DEF NewPlaces
  <2> QED BY <2>1 DEF ToSet
<1>11. PICK U : U = Upto(u, k - 1)
  OBVIOUS
<1>12. U = UsedPlaces \cup {q[j] : j \in 1 .. k - 1}
  BY <1>2, <1>11 DEF Upto
<1>13. Upto(u, k) = U \cup {p}
  <2>1. Upto(u, k) = UsedPlaces \cup {q[j] : j \in 1 .. k}
    BY <1>2 DEF Upto
  <2>2. {q[j] : j \in 1 .. k} = {q[j] : j \in 1 .. k - 1} \cup {p}
    <3>1. \A j \in 1 .. k : j \in 1 .. k - 1 \/ j = k
      BY <1>3
    <3>2. \A j \in 1 .. k - 1 : j \in 1 .. k
      BY <1>3
    <3>3. k \in 1 .. k
      BY <1>3
    <3> QED BY <1>5, <3>1, <3>2, <3>3
  <2> QED BY <1>12, <2>1, <2>2
<1>14. \A j \in 1 .. k - 1 : j \in 1 .. n /\ j < k
  BY <1>3
<1>15. UsedPlaces \subseteq Place
  BY DEF UsedPlaces
<1>16. p \in Place /\ p \in ToSet(q) /\ U \subseteq Place /\ \A x \in U : <<x, p>> \in O1
  BY <1>3, <1>5, <1>9, <1>10, <1>12, <1>14, <1>15
<1>17. U \cup {p} \subseteq U1
  BY <1>3, <1>5, <1>9, <1>10, <1>12, <1>14
<1>18. IsOrder(O1, U \cup {p})
  BY <1>17 DEF IsOrder
<1>19. p \notin U
  BY <1>16, <1>18 DEF IsOrder
<1>20. ASSUME NEW x \in U1 PROVE x \in Place /\ filled[x].access \in [address : Nat, size : Nat]
  <2>1. CASE x \in UsedPlaces
    <3>1. x \in Place /\ Used(x)
      BY <2>1 DEF UsedPlaces
    <3>2. x \notin ToSet(q)
      BY <1>9, <1>10, <2>1 DEF ToSet
    <3>3. filled[x] = mob[x]
      BY <1>2, <3>1, <3>2 DEF OrderChain, FilledFacts
    <3>4. mob[x].access \in [address : Nat, size : Nat]
      BY <3>1, UsedAccess
    <3> QED BY <3>1, <3>3, <3>4
  <2>2. CASE x \in ToSet(q)
    <3>1. PICK j \in 1 .. n : x = q[j]
      BY <1>10, <2>2 DEF ToSet
    <3>2. filled[x].access = u.accesses[j]
      BY <1>1, <1>2, <3>1 DEF OrderChain, FilledFacts
    <3>3. PICK b \in Seq([address : Nat, size : Nat]) : b = u.accesses
      BY UopAssumption
    <3>4. b[j] \in [address : Nat, size : Nat]
      BY <1>1, <3>3, ElementOfSeq
    <3> QED BY <1>9, <3>1, <3>2, <3>3, <3>4
  <2> QED BY <1>9, <2>1, <2>2
<1>21. Undone(filled, p)
  <2>1. filled[p].status = "WAIT" /\ filled[p].processed = FALSE
    BY <1>1, <1>2, <1>3, <1>5 DEF OrderChain, FilledFacts
  <2> QED BY <2>1 DEF Undone
<1>22. OrderStep(d.mob, d.load_hash, d.store_hash, e.mob, e.load_hash, e.store_hash, p)
  <2>1. filled[p].access \in [address : Nat, size : Nat]
    BY <1>17, <1>20
  <2> QED BY <1>6, <1>8, <1>16, <1>21, <2>1, DependencesOne, Zenon
<1>23. PICK m : m = d.mob
  OBVIOUS
<1>24. \A x \in Place : m[x].mem_deps_ptr_array \in Seq(Place)
  BY <1>6, <1>23, EntryTypes DEF Ordering
<1>25. \A x \in Place : m[x].access = filled[x].access /\ (Undone(m, x) <=> Undone(filled, x))
  BY <1>6, <1>23 DEF Ordering, Undone
<1>26. \A x \in Place : Bucket(m, "LOAD", x) = LoadHash(filled[x].access.address)
                        /\ Bucket(m, "STORE", x) = StoreHash(filled[x].access.address)
  BY <1>25 DEF Bucket
<1>27. \A x \in U \cup {p} : /\ Bucket(m, "LOAD", x) \in 0 .. LOAD_HASH_SIZE - 1
                             /\ Bucket(m, "STORE", x) \in 0 .. STORE_HASH_SIZE - 1
  <2> TAKE x \in U \cup {p}
  <2>1. PICK address \in Nat : address = filled[x].access.address
    BY <1>17, <1>20
  <2>2. LoadHash(address) \in 0 .. LOAD_HASH_SIZE - 1 /\ StoreHash(address) \in 0 .. STORE_HASH_SIZE - 1
    BY HashRange
  <2> QED BY <1>16, <1>26, <2>1, <2>2
<1>n. NULL \notin Place
  BY NullAssumption
<1>28. \A b \in 0 .. LOAD_HASH_SIZE - 1 : d.load_hash[b] \in Place =>
         d.load_hash[b][1] = "LOAD" /\ Undone(m, d.load_hash[b]) /\ Bucket(m, "LOAD", d.load_hash[b]) = b
  <2> TAKE b \in 0 .. LOAD_HASH_SIZE - 1
  <2> HAVE d.load_hash[b] \in Place
  <2>1. PICK x \in Place : x = d.load_hash[b] /\ x # NULL
    BY <1>n
  <2>2. x[1] = "LOAD" /\ Undone(filled, x) /\ LoadHash(filled[x].access.address) = b
    BY <1>6, <2>1 DEF TablesOK
  <2>3. Undone(m, x) /\ Bucket(m, "LOAD", x) = b
    BY <1>25, <1>26, <2>2
  <2> QED BY <2>1, <2>2, <2>3
<1>29. \A b \in 0 .. STORE_HASH_SIZE - 1 : d.store_hash[b] \in Place =>
         d.store_hash[b][1] = "STORE" /\ Undone(m, d.store_hash[b]) /\ Bucket(m, "STORE", d.store_hash[b]) = b
  <2> TAKE b \in 0 .. STORE_HASH_SIZE - 1
  <2> HAVE d.store_hash[b] \in Place
  <2>1. PICK x \in Place : x = d.store_hash[b] /\ x # NULL
    BY <1>n
  <2>2. x[1] = "STORE" /\ Undone(filled, x) /\ StoreHash(filled[x].access.address) = b
    BY <1>6, <2>1 DEF TablesOK
  <2>3. Undone(m, x) /\ Bucket(m, "STORE", x) = b
    BY <1>25, <1>26, <2>2
  <2> QED BY <2>1, <2>2, <2>3
<1>30. StepFacts(m, O1, U, p, d.load_hash, d.store_hash)
  BY <1>16, <1>18, <1>19, <1>24, <1>27, <1>28, <1>29, Zenon DEF StepFacts
<1> QED BY <1>2, <1>4, <1>5, <1>7, <1>11, <1>13, <1>22, <1>23, <1>30, Zenon

\* The guard, of the places in use, when the lines and the places of a new uop
\* are filled and none of them is ordered.
LEMMA ChainStarts ==
  ASSUME IInv, GuardInv, NEW u \in Uop, u.op \in Memory, NEW O1, NEW U1, RenameAges(u, O1, U1),
         NEW filled, NEW s, FilledFacts(filled, s, u)
  PROVE  /\ AllGuarded(filled, O1, UsedPlaces)
         /\ AllTabled(filled, O1, UsedPlaces, load_hash, store_hash)
<1>1. DOMAIN NewPlaces(u) = 1 .. Len(u.accesses)
  <2>1. Len(u.accesses) \in 1 .. MOB[u.op]
    BY UopAssumption
  <2> QED BY <2>1, MobSize DEF NewPlaces
<1>2. ASSUME NEW x \in UsedPlaces PROVE filled[x] = mob[x]
  <2>1. x \in Place /\ x \notin ToSet(NewPlaces(u))
    BY <1>1 DEF UsedPlaces, RenameAges, ToSet
  <2> QED BY <2>1 DEF FilledFacts
<1>3. PICK m : m = mob
  OBVIOUS
<1>4. Done(m, OlderPairs, UsedPlaces, filled, O1, UsedPlaces, {})
  <2>1. IsOrder(OlderPairs, UsedPlaces)
    BY OlderIsOrder
  <2>2. \A x, y \in UsedPlaces : <<x, y>> \in O1 <=> <<x, y>> \in OlderPairs
    BY DEF RenameAges
  <2>3. \A x \in UsedPlaces : /\ filled[x].access = m[x].access
                              /\ filled[x].mem_deps_ptr_array = m[x].mem_deps_ptr_array
                              /\ Undone(filled, x) <=> Undone(m, x)
    BY <1>2, <1>3 DEF Undone
  <2>4. AtMostOne({})
    BY DEF AtMostOne
  <2> QED BY <2>1, <2>2, <2>3, <2>4 DEF Done
<1>5. AllGuarded(filled, O1, UsedPlaces)
  BY <1>3, <1>4, DoneGuarded DEF GuardInv
<1>6. PICK loads, stores : loads = load_hash /\ stores = store_hash
  OBVIOUS
<1>7. \A p \in UsedPlaces : p[1] \in Remembered =>
        Forgets(m, UsedPlaces, UsedPlaces, {}, p, Latest(m, p, loads, stores), Latest(m, p, loads, stores))
  BY DEF Forgets
<1>8. AllGuarded(m, OlderPairs, UsedPlaces) /\ AllTabled(m, OlderPairs, UsedPlaces, loads, stores)
  BY <1>3, <1>6 DEF GuardInv
<1>9. AllTabled(filled, O1, UsedPlaces, loads, stores)
  BY <1>4, <1>7, <1>8, DoneTabled
<1> QED BY <1>5, <1>6, <1>9

\* Renaming a memory uop leaves the order guarded.
LEMMA RenameGuard ==
  ASSUME IInv, GuardInv, NEW u \in Uop, u.op \in Memory, rename(u), IsOrder(OlderPairs, UsedPlaces)'
  PROVE  GuardInv'
<1>1. PICK s : s = robEnd
  OBVIOUS
<1>2. PICK a, filled : OrderChain(a, filled, u, s)
  BY <1>1, OrderChainOfRename
<1>3. PICK O1, U1 : O1 = OlderPairs' /\ U1 = UsedPlaces'
  OBVIOUS
<1>4. RenameAges(u, O1, U1) /\ IsOrder(O1, U1)
  BY <1>1, <1>3, RenamedAges
<1>5. PICK n \in Nat \ {0} : n = Len(u.accesses)
  <2>1. Len(u.accesses) \in 1 .. MOB[u.op]
    BY UopAssumption
  <2> QED BY <2>1, MobSize
<1> DEFINE Good(k) == /\ AllGuarded(a[k].mob, O1, Upto(u, k))
                      /\ AllTabled(a[k].mob, O1, Upto(u, k), a[k].load_hash, a[k].store_hash)
           Wrong == {k \in 0 .. n : ~Good(k)}
<1>6. Good(0)
  <2>1. Upto(u, 0) = UsedPlaces
    <3>1. 1 .. 0 = {}
      OBVIOUS
    <3> QED BY <3>1 DEF Upto
  <2>2. FilledFacts(filled, s, u) /\ a[0] = order(filled)
    BY <1>2 DEF OrderChain
  <2>3. a[0].mob = filled /\ a[0].load_hash = load_hash /\ a[0].store_hash = store_hash
    BY <2>2 DEF order
  <2>4. /\ AllGuarded(filled, O1, UsedPlaces)
        /\ AllTabled(filled, O1, UsedPlaces, load_hash, store_hash)
    BY <1>4, <2>2, ChainStarts
  <2> QED BY <2>1, <2>3, <2>4
<1>7. ASSUME NEW k \in 1 .. n, Good(k - 1) PROVE Good(k)
  <2>1. /\ StepFacts(a[k - 1].mob, O1, Upto(u, k - 1), NewPlaces(u)[k], a[k - 1].load_hash, a[k - 1].store_hash)
        /\ OrderStep(a[k - 1].mob, a[k - 1].load_hash, a[k - 1].store_hash,
                     a[k].mob, a[k].load_hash, a[k].store_hash, NewPlaces(u)[k])
        /\ Upto(u, k) = Upto(u, k - 1) \cup {NewPlaces(u)[k]}
    BY <1>2, <1>4, <1>5, ChainStep
  <2>2. PICK m, loads, stores : m = a[k - 1].mob /\ loads = a[k - 1].load_hash /\ stores = a[k - 1].store_hash
    OBVIOUS
  <2>3. PICK m1, loads1, stores1 : m1 = a[k].mob /\ loads1 = a[k].load_hash /\ stores1 = a[k].store_hash
    OBVIOUS
  <2>4. PICK U, p : U = Upto(u, k - 1) /\ p = NewPlaces(u)[k]
    OBVIOUS
  <2>5. StepFacts(m, O1, U, p, loads, stores) /\ OrderStep(m, loads, stores, m1, loads1, stores1, p)
    BY <2>1, <2>2, <2>3, <2>4, Zenon
  <2>6. AllGuarded(m, O1, U) /\ AllTabled(m, O1, U, loads, stores)
    BY <1>7, <2>2, <2>4
  <2>7. AllGuarded(m1, O1, U \cup {p})
    BY <2>5, <2>6, StepGuarded
  <2>8. AllTabled(m1, O1, U \cup {p}, loads1, stores1)
    BY <2>5, <2>6, StepTabled
  <2> QED BY <2>1, <2>3, <2>4, <2>7, <2>8
<1> HIDE DEF Good
<1>8. Wrong = {}
  <2> SUFFICES ASSUME Wrong # {} PROVE FALSE
    OBVIOUS
  <2>1. Wrong \in SUBSET Nat
    OBVIOUS
  <2>2. PICK m \in Wrong : \A k \in Wrong : m <= k
    BY <2>1, LeastNumber
  <2>3. m \in 0 .. n /\ m # 0 /\ ~Good(m)
    BY <1>6, <2>2
  <2>4. m \in 1 .. n /\ m - 1 \in 0 .. n /\ m - 1 \notin Wrong
    BY <2>2, <2>3
  <2> QED BY <1>7, <2>3, <2>4
<1>9. Good(n)
  <2>1. n \in 0 .. n
    OBVIOUS
  <2> QED BY <1>8, <2>1
<1>10. mob' = a[n].mob /\ load_hash' = a[n].load_hash /\ store_hash' = a[n].store_hash
  BY <1>2, <1>5 DEF OrderChain
<1>11. Upto(u, n) = U1
  <2>1. DOMAIN NewPlaces(u) = 1 .. n
    BY <1>5 DEF NewPlaces
  <2> QED BY <1>4, <2>1 DEF Upto, RenameAges, ToSet
<1>12. AllGuarded(mob', O1, U1) /\ AllTabled(mob', O1, U1, load_hash', store_hash')
  BY <1>9, <1>10, <1>11 DEF Good
<1> QED BY <1>3, <1>12 DEF GuardInv

\* Nor does renaming another uop.
LEMMA RenameAluGuard ==
  ASSUME IInv, GuardInv, NEW u \in Uop, u.op \notin Memory, rename(u)
  PROVE  GuardInv'
<1>1. PICK s : s = robEnd
  OBVIOUS
<1>2. LinesRenamed(u, s)
  BY <1>1, RenamedLines
<1>3. mob' = mob /\ mob_used' = mob_used /\ load_hash' = load_hash /\ store_hash' = store_hash
  BY DEF rename
<1>4. PICK m, loads, stores : m = mob /\ loads = load_hash /\ stores = store_hash
  OBVIOUS
<1>5. PICK O1, U1 : O1 = OlderPairs' /\ U1 = UsedPlaces'
  OBVIOUS
<1>6. U1 = UsedPlaces
  BY <1>3, <1>5 DEF UsedPlaces, Used
<1>7. \A x, y \in Place :
        <<x, y>> \in O1 <=>
          \/ rob'[mob'[x].rob_ptr].uop_number < rob'[mob'[y].rob_ptr].uop_number
          \/ mob'[x].rob_ptr = mob'[y].rob_ptr /\ Distance(x)' < Distance(y)'
  BY <1>5 DEF OlderPairs, Older, Before
<1>8. \A x, y \in Place :
        <<x, y>> \in OlderPairs <=>
          \/ rob[mob[x].rob_ptr].uop_number < rob[mob[y].rob_ptr].uop_number
          \/ mob[x].rob_ptr = mob[y].rob_ptr /\ Distance(x) < Distance(y)
  BY DEF OlderPairs, Older, Before
<1>9. \A x \in Place : Distance(x)' = Distance(x)
  BY <1>2 DEF LinesRenamed, Distance
<1>10. ASSUME NEW x \in UsedPlaces
       PROVE  x \in Place /\ mob'[x].rob_ptr = mob[x].rob_ptr
              /\ rob'[mob[x].rob_ptr].uop_number = rob[mob[x].rob_ptr].uop_number
  <2>1. x \in Place /\ Used(x)
    BY DEF UsedPlaces
  <2>2. mob[x].rob_ptr \in Slot /\ Busy(mob[x].rob_ptr)
    BY <2>1 DEF IInv, PlaceInv, Owner, IsMemory
  <2>3. mob[x].rob_ptr # s
    BY <1>2, <2>2 DEF LinesRenamed
  <2>4. rob'[mob[x].rob_ptr].uop_number = rob[mob[x].rob_ptr].uop_number
    BY <1>2, <2>2, <2>3 DEF LinesRenamed
  <2> QED BY <1>3, <2>1, <2>4
<1>11. \A x, y \in UsedPlaces : <<x, y>> \in O1 <=> <<x, y>> \in OlderPairs
  <2> TAKE x, y \in UsedPlaces
  <2>1. x \in Place /\ y \in Place
    BY <1>10
  <2>2. mob'[x].rob_ptr = mob[x].rob_ptr /\ mob'[y].rob_ptr = mob[y].rob_ptr
        /\ rob'[mob[x].rob_ptr].uop_number = rob[mob[x].rob_ptr].uop_number
        /\ rob'[mob[y].rob_ptr].uop_number = rob[mob[y].rob_ptr].uop_number
    BY <1>10
  <2>3. <<x, y>> \in O1 <=>
          \/ rob'[mob'[x].rob_ptr].uop_number < rob'[mob'[y].rob_ptr].uop_number
          \/ mob'[x].rob_ptr = mob'[y].rob_ptr /\ Distance(x)' < Distance(y)'
    BY <1>7, <2>1, Zenon
  <2>4. <<x, y>> \in OlderPairs <=>
          \/ rob[mob[x].rob_ptr].uop_number < rob[mob[y].rob_ptr].uop_number
          \/ mob[x].rob_ptr = mob[y].rob_ptr /\ Distance(x) < Distance(y)
    BY <1>8, <2>1, Zenon
  <2>5. Distance(x)' = Distance(x) /\ Distance(y)' = Distance(y)
    BY <1>9, <2>1
  <2> QED BY <2>2, <2>3, <2>4, <2>5
<1>12. Done(m, OlderPairs, UsedPlaces, m, O1, U1, {})
  <2>1. IsOrder(OlderPairs, UsedPlaces)
    BY OlderIsOrder
  <2>2. AtMostOne({})
    BY DEF AtMostOne
  <2> QED BY <1>6, <1>11, <2>1, <2>2 DEF Done
<1>13. AllGuarded(m, OlderPairs, UsedPlaces) /\ AllTabled(m, OlderPairs, UsedPlaces, loads, stores)
  BY <1>4 DEF GuardInv
<1>14. AllGuarded(m, O1, U1)
  BY <1>12, <1>13, DoneGuarded
<1>15. \A p \in U1 : p[1] \in Remembered =>
         Forgets(m, UsedPlaces, U1, {}, p, Latest(m, p, loads, stores), Latest(m, p, loads, stores))
  BY <1>6 DEF Forgets
<1>16. AllTabled(m, O1, U1, loads, stores)
  BY <1>12, <1>13, <1>15, DoneTabled
<1> QED BY <1>3, <1>4, <1>5, <1>14, <1>16 DEF GuardInv

LEMMA InitialGuard == Init => GuardInv
<1> SUFFICES ASSUME Init PROVE GuardInv
  OBVIOUS
<1>1. UsedPlaces = {}
  BY DEF Init, CleanEntry, UsedPlaces, Used
<1> QED BY <1>1 DEF GuardInv, AllGuarded, AllTabled

\* The order is guarded in every behaviour.
LEMMA AlwaysGuard == Spec => [](IInv /\ GuardInv)
<1>1. IInv => IsOrder(OlderPairs, UsedPlaces)
  BY OlderIsOrder
<1>2. IInv /\ GuardInv /\ IInv' /\ IsOrder(OlderPairs, UsedPlaces)' /\ [Next]_vars => GuardInv'
  <2> SUFFICES ASSUME IInv, GuardInv, IInv', IsOrder(OlderPairs, UsedPlaces)', [Next]_vars PROVE GuardInv'
    OBVIOUS
  <2>1. ASSUME NEW u \in Uop, rename(u) PROVE GuardInv'
    BY <2>1, RenameGuard, RenameAluGuard
  <2>2. ASSUME ~\E u \in Uop : rename(u) PROVE GuardInv'
    BY <2>2, NextQuiet, QuietGuard
  <2> QED BY <2>1, <2>2
<1>3. IInv /\ [Next]_vars => IInv'
  BY NextKeeps
<1> QED BY <1>1, <1>2, <1>3, InitialInv, InitialGuard, PTL DEF Spec

\* Memory operations go in the order of their conflicts, unless an operation
\* between the two, or the older itself, has forgotten a dependent.
MemoryOrderUnlessFull ==
  \A p, q \in UsedPlaces :
    Conflict(mob, OlderPairs, p, q) /\ mob[q].sent
    => \E y \in UsedPlaces : /\ Stands(mob, OlderPairs, UsedPlaces, p, y) /\ Older(y, q)
                             /\ Full(mob[y].mem_deps_ptr_array)

LEMMA MemoryOrderGuarded == IInv /\ GuardInv => MemoryOrderUnlessFull
<1> SUFFICES ASSUME IInv, GuardInv, NEW p \in UsedPlaces, NEW q \in UsedPlaces,
                    Conflict(mob, OlderPairs, p, q), mob[q].sent
             PROVE  \E y \in UsedPlaces : /\ Stands(mob, OlderPairs, UsedPlaces, p, y) /\ Older(y, q)
                                          /\ Full(mob[y].mem_deps_ptr_array)
  BY Zenon DEF MemoryOrderUnlessFull
<1>1. MobShape /\ PlaceWaitInv /\ EntryInv
  BY DEF IInv
<1>2. AllGuarded(mob, OlderPairs, UsedPlaces)
  BY DEF GuardInv
<1>3. PICK y \in UsedPlaces : Guards(mob, OlderPairs, UsedPlaces, p, q, y)
  BY <1>2, Zenon DEF AllGuarded
<1>4. /\ Stands(mob, OlderPairs, UsedPlaces, p, y) /\ <<y, q>> \in OlderPairs
      /\ q \in ToSet(mob[y].mem_deps_ptr_array) \/ Full(mob[y].mem_deps_ptr_array)
  BY <1>3, Zenon DEF Guards
<1>5. q \in Place /\ y \in Place /\ Used(q)
  BY DEF UsedPlaces
<1>6. mob[q].wait_mem_deps_number = 0
  BY <1>1, <1>5 DEF EntryInv, EntryOK
<1>7. q \notin ToSet(mob[y].mem_deps_ptr_array)
  BY <1>1, <1>5, <1>6, PlacePointedAt
<1>8. Older(y, q)
  BY <1>4 DEF OlderPairs
<1> QED BY <1>4, <1>7, <1>8, Zenon

\* An operation is sent before an older one it conflicts with only if one that
\* was to hold it back had no place left to remember it.
THEOREM MemoryOrderUnlessFullHold == Spec => []MemoryOrderUnlessFull
BY AlwaysGuard, MemoryOrderGuarded, PTL

\* Places remember a place once, and never themselves.
MemDistinctInv ==
  \A x \in Place : Distinct(mob[x].mem_deps_ptr_array) /\ x \notin ToSet(mob[x].mem_deps_ptr_array)

LEMMA InitialMemDistinct == Init => MemDistinctInv
BY DEF Init, CleanEntry, MemDistinctInv, Distinct, ToSet

LEMMA QuietMemDistinct ==
  ASSUME MemDistinctInv, NEW G, PlacesQuiet(G)
  PROVE  MemDistinctInv'
<1>1. \A x \in Place : mob'[x].mem_deps_ptr_array \in {<<>>, mob[x].mem_deps_ptr_array}
  BY DEF PlacesQuiet
<1> QED BY <1>1 DEF MemDistinctInv, Distinct, ToSet

\* One step of the order.
LEMMA StepDistinct ==
  ASSUME NEW m, NEW loads, NEW stores, NEW m1, NEW loads1, NEW stores1, NEW p \in Place,
         OrderStep(m, loads, stores, m1, loads1, stores1, p), NEW x \in Place,
         m[x].mem_deps_ptr_array \in Seq(Place), Distinct(m[x].mem_deps_ptr_array),
         p \notin ToSet(m[x].mem_deps_ptr_array)
  PROVE  /\ Distinct(m1[x].mem_deps_ptr_array)
         /\ ToSet(m1[x].mem_deps_ptr_array) \subseteq ToSet(m[x].mem_deps_ptr_array) \cup {p}
<1>1. PICK a : a = m[x].mem_deps_ptr_array
  OBVIOUS
<1>2. a \in Seq(Place) /\ Distinct(a) /\ p \notin ToSet(a)
  BY <1>1
<1>3. m1[x].mem_deps_ptr_array \in {a, Append(a, p)}
  BY <1>1 DEF OrderStep
<1>4. Distinct(Append(a, p)) /\ ToSet(Append(a, p)) = ToSet(a) \cup {p}
  BY <1>2, DistinctAppend, AppendSet
<1> QED BY <1>1, <1>2, <1>3, <1>4

\* The tables name members of U only.
Names(U, loads, stores) ==
  /\ \A b \in 0 .. LOAD_HASH_SIZE - 1 : loads[b] \in U \cup {NULL}
  /\ \A b \in 0 .. STORE_HASH_SIZE - 1 : stores[b] \in U \cup {NULL}

LEMMA StepNames ==
  ASSUME NEW m, NEW O, NEW U, NEW p, NEW loads, NEW stores, NEW m1, NEW loads1, NEW stores1,
         StepFacts(m, O, U, p, loads, stores), OrderStep(m, loads, stores, m1, loads1, stores1, p),
         Names(U, loads, stores)
  PROVE  /\ Names(U \cup {p}, loads1, stores1)
         /\ m1[p].mem_deps_ptr_array = m[p].mem_deps_ptr_array
<1>1. p \in Place /\ p \notin U
  BY DEF StepFacts
<1>2. PICK i \in 0 .. LOAD_HASH_SIZE - 1 : i = Bucket(m, "LOAD", p)
  BY DEF StepFacts
<1>3. PICK j \in 0 .. STORE_HASH_SIZE - 1 : j = Bucket(m, "STORE", p)
  BY DEF StepFacts
<1>4. p # NULL
  BY <1>1, NullAssumption
<1>5. p \notin {loads[i], stores[j]}
  BY <1>1, <1>4 DEF Names
<1>6. m1[p].mem_deps_ptr_array = m[p].mem_deps_ptr_array
  BY <1>1, <1>2, <1>3, <1>5 DEF OrderStep
<1>7. \A b \in 0 .. LOAD_HASH_SIZE - 1 : loads1[b] \in U \cup {p} \cup {NULL}
  BY DEF OrderStep, Names
<1>8. \A b \in 0 .. STORE_HASH_SIZE - 1 : stores1[b] \in U \cup {p} \cup {NULL}
  BY DEF OrderStep, Names
<1> QED BY <1>6, <1>7, <1>8 DEF Names

LEMMA RenameMemDistinct ==
  ASSUME IInv, MemDistinctInv, NEW u \in Uop, u.op \in Memory, rename(u), IsOrder(OlderPairs, UsedPlaces)'
  PROVE  MemDistinctInv'
<1>1. PICK s : s = robEnd
  OBVIOUS
<1>2. PICK a, filled : OrderChain(a, filled, u, s)
  BY <1>1, OrderChainOfRename
<1>3. PICK O1, U1 : O1 = OlderPairs' /\ U1 = UsedPlaces'
  OBVIOUS
<1>4. RenameAges(u, O1, U1) /\ IsOrder(O1, U1)
  BY <1>1, <1>3, RenamedAges
<1>5. PICK n \in Nat \ {0} : n = Len(u.accesses)
  <2>1. Len(u.accesses) \in 1 .. MOB[u.op]
    BY UopAssumption
  <2> QED BY <2>1, MobSize
<1>6. PICK q : q = NewPlaces(u)
  OBVIOUS
<1>7. DOMAIN q = 1 .. n
  BY <1>5, <1>6 DEF NewPlaces
<1>8. /\ \A k \in 1 .. n : q[k] \in Place /\ q[k] \notin UsedPlaces
      /\ \A k, l \in 1 .. n : k < l => <<q[k], q[l]>> \in O1
      /\ U1 = UsedPlaces \cup ToSet(q)
  BY <1>4, <1>5, <1>6 DEF RenameAges
<1>9. \A k, l \in 1 .. n : k < l => q[k] # q[l]
  <2> TAKE k, l \in 1 .. n
  <2> HAVE k < l
  <2>1. q[l] \in U1 /\ <<q[k], q[l]>> \in O1
    BY <1>7, <1>8 DEF ToSet
  <2> QED BY <1>4, <2>1 DEF IsOrder
<1>10. FilledFacts(filled, s, u) /\ a[0] = order(filled)
  BY <1>2 DEF OrderChain
<1>11. MobShape /\ PlaceWaitInv /\ EntryInv /\ TableInv
  BY DEF IInv
<1>12. \A x \in Place : filled[x].mem_deps_ptr_array \in {<<>>, mob[x].mem_deps_ptr_array}
  <2> TAKE x \in Place
  <2>1. CASE x \in ToSet(q)
    <3>1. PICK k \in 1 .. n : x = q[k]
      BY <1>7, <2>1 DEF ToSet
    <3> QED BY <1>5, <1>6, <1>10, <3>1 DEF FilledFacts
  <2>2. CASE x \notin ToSet(q)
    BY <1>6, <1>10, <2>2 DEF FilledFacts
  <2> QED BY <2>1, <2>2
<1>13. ASSUME NEW k \in 1 .. n, NEW x \in Place PROVE q[k] \notin ToSet(filled[x].mem_deps_ptr_array)
  <2>1. q[k] \in Place /\ ~Used(q[k])
    BY <1>8 DEF UsedPlaces
  <2>2. mob[q[k]].wait_mem_deps_number = 0
    BY <1>11, <2>1 DEF EntryInv, EntryOK
  <2>3. q[k] \notin ToSet(mob[x].mem_deps_ptr_array)
    BY <1>11, <2>1, <2>2, PlacePointedAt
  <2> QED BY <1>12, <2>3 DEF ToSet
<1> DEFINE New(k) == {q[j] : j \in 1 .. k}
           Good(k) == /\ \A x \in Place : /\ Distinct(a[k].mob[x].mem_deps_ptr_array)
                                          /\ x \notin ToSet(a[k].mob[x].mem_deps_ptr_array)
                                          /\ ToSet(a[k].mob[x].mem_deps_ptr_array)
                                               \subseteq ToSet(filled[x].mem_deps_ptr_array) \cup New(k)
                      /\ Names(Upto(u, k), a[k].load_hash, a[k].store_hash)
           Wrong == {k \in 0 .. n : ~Good(k)}
<1>14. Good(0)
  <2>1. Upto(u, 0) = UsedPlaces
    <3>1. 1 .. 0 = {}
      OBVIOUS
    <3> QED BY <3>1 DEF Upto
  <2>2. a[0].mob = filled /\ a[0].load_hash = load_hash /\ a[0].store_hash = store_hash
    BY <1>10 DEF order
  <2>3. Names(UsedPlaces, load_hash, store_hash)
    BY <1>11 DEF TableInv, MobShape, Names, UsedPlaces
  <2>4. \A x \in Place : Distinct(filled[x].mem_deps_ptr_array) /\ x \notin ToSet(filled[x].mem_deps_ptr_array)
    BY <1>12 DEF MemDistinctInv, Distinct, ToSet
  <2> QED BY <2>1, <2>2, <2>3, <2>4
<1>15. ASSUME NEW k \in 1 .. n, Good(k - 1) PROVE Good(k)
  <2>1. /\ StepFacts(a[k - 1].mob, O1, Upto(u, k - 1), q[k], a[k - 1].load_hash, a[k - 1].store_hash)
        /\ OrderStep(a[k - 1].mob, a[k - 1].load_hash, a[k - 1].store_hash,
                     a[k].mob, a[k].load_hash, a[k].store_hash, q[k])
        /\ Upto(u, k) = Upto(u, k - 1) \cup {q[k]}
    BY <1>2, <1>4, <1>5, <1>6, ChainStep
  <2>2. PICK m, loads, stores : m = a[k - 1].mob /\ loads = a[k - 1].load_hash /\ stores = a[k - 1].store_hash
    OBVIOUS
  <2>3. PICK m1, loads1, stores1 : m1 = a[k].mob /\ loads1 = a[k].load_hash /\ stores1 = a[k].store_hash
    OBVIOUS
  <2>4. PICK U, p : U = Upto(u, k - 1) /\ p = q[k]
    OBVIOUS
  <2>5. StepFacts(m, O1, U, p, loads, stores) /\ OrderStep(m, loads, stores, m1, loads1, stores1, p)
    BY <2>1, <2>2, <2>3, <2>4, Zenon
  <2>6. /\ \A x \in Place : /\ Distinct(m[x].mem_deps_ptr_array)
                            /\ x \notin ToSet(m[x].mem_deps_ptr_array)
                            /\ ToSet(m[x].mem_deps_ptr_array)
                                 \subseteq ToSet(filled[x].mem_deps_ptr_array) \cup New(k - 1)
        /\ Names(U, loads, stores)
    BY <1>15, <2>2, <2>4
  <2>7. Names(U \cup {p}, loads1, stores1) /\ m1[p].mem_deps_ptr_array = m[p].mem_deps_ptr_array
    BY <2>5, <2>6, StepNames
  <2>8. p \in Place /\ p \notin New(k - 1) /\ New(k - 1) \cup {p} \subseteq New(k)
    <3>1. \A j \in 1 .. k - 1 : j \in 1 .. n /\ j \in 1 .. k /\ j < k
      OBVIOUS
    <3>2. k \in 1 .. k
      OBVIOUS
    <3> QED BY <1>8, <1>9, <2>4, <3>1, <3>2
  <2> HIDE DEF New
  <2>9. ASSUME NEW x \in Place
        PROVE  /\ Distinct(m1[x].mem_deps_ptr_array)
               /\ x \notin ToSet(m1[x].mem_deps_ptr_array)
               /\ ToSet(m1[x].mem_deps_ptr_array) \subseteq ToSet(filled[x].mem_deps_ptr_array) \cup New(k)
    <3>1. p \notin ToSet(m[x].mem_deps_ptr_array)
      BY <1>13, <2>4, <2>6, <2>8
    <3>2. m[x].mem_deps_ptr_array \in Seq(Place)
      BY <2>5 DEF StepFacts
    <3>3. /\ Distinct(m1[x].mem_deps_ptr_array)
          /\ ToSet(m1[x].mem_deps_ptr_array) \subseteq ToSet(m[x].mem_deps_ptr_array) \cup {p}
      BY <2>5, <2>6, <2>8, <3>1, <3>2, StepDistinct
    <3> QED BY <2>6, <2>7, <2>8, <3>3
  <2>10. Names(Upto(u, k), a[k].load_hash, a[k].store_hash)
    BY <2>1, <2>3, <2>4, <2>7, Zenon
  <2> QED BY <2>3, <2>9, <2>10
<1> HIDE DEF Good
<1>16. Wrong = {}
  <2> SUFFICES ASSUME Wrong # {} PROVE FALSE
    OBVIOUS
  <2>1. Wrong \in SUBSET Nat
    OBVIOUS
  <2>2. PICK m \in Wrong : \A k \in Wrong : m <= k
    BY <2>1, LeastNumber
  <2>3. m \in 0 .. n /\ m # 0 /\ ~Good(m)
    BY <1>14, <2>2
  <2>4. m \in 1 .. n /\ m - 1 \in 0 .. n /\ m - 1 \notin Wrong
    BY <2>2, <2>3
  <2> QED BY <1>15, <2>3, <2>4
<1>17. Good(n)
  <2>1. n \in 0 .. n
    OBVIOUS
  <2> QED BY <1>16, <2>1
<1>18. mob' = a[n].mob
  BY <1>2, <1>5 DEF OrderChain
<1> QED BY <1>17, <1>18 DEF Good, MemDistinctInv

LEMMA AlwaysMemDistinct == Spec => [](IInv /\ MemDistinctInv)
<1>1. IInv => IsOrder(OlderPairs, UsedPlaces)
  BY OlderIsOrder
<1>2. IInv /\ MemDistinctInv /\ IInv' /\ IsOrder(OlderPairs, UsedPlaces)' /\ [Next]_vars => MemDistinctInv'
  <2> SUFFICES ASSUME IInv, MemDistinctInv, IInv', IsOrder(OlderPairs, UsedPlaces)', [Next]_vars
               PROVE  MemDistinctInv'
    OBVIOUS
  <2>1. ASSUME NEW u \in Uop, rename(u), u.op \in Memory PROVE MemDistinctInv'
    BY <2>1, RenameMemDistinct
  <2>2. ASSUME NEW u \in Uop, rename(u), u.op \notin Memory PROVE MemDistinctInv'
    <3>1. mob' = mob
      BY <2>2 DEF rename
    <3> QED BY <3>1 DEF MemDistinctInv
  <2>3. ASSUME ~\E u \in Uop : rename(u) PROVE MemDistinctInv'
    BY <2>3, NextQuiet, QuietMemDistinct
  <2> QED BY <2>1, <2>2, <2>3
<1>3. IInv /\ [Next]_vars => IInv'
  BY NextKeeps
<1> QED BY <1>1, <1>2, <1>3, InitialInv, InitialMemDistinct, PTL DEF Spec

\* The reorder buffer, whose size bounds the dependents of a place, has at
\* least as many lines as the memory order buffers together.  So it is in the
\* configurations of the repository: 64 + 36 + 36 of 168, 72 + 56 + 36 of 224.
PlacesFit == Cardinality(Place) <= ROB_SIZE

LEMMA MemoryOrderFits ==
  ASSUME PlacesFit
  PROVE  IInv /\ GuardInv /\ MemDistinctInv => MemoryOrder
<1> SUFFICES ASSUME IInv, GuardInv, MemDistinctInv PROVE MemoryOrder
  OBVIOUS
<1>1. MemoryOrderUnlessFull
  BY MemoryOrderGuarded
<1>2. MobShape
  BY DEF IInv
<1>3. ASSUME NEW y \in Place PROVE ~Full(mob[y].mem_deps_ptr_array)
  <2>1. mob[y].mem_deps_ptr_array \in Seq(Place)
    BY <1>2, MemDepsType
  <2>2. Len(mob[y].mem_deps_ptr_array) < Cardinality(Place)
    BY <2>1, PlaceFinite, DistinctLength DEF MemDistinctInv
  <2>3. Cardinality(Place) \in Nat /\ ROB_SIZE \in Nat /\ Len(mob[y].mem_deps_ptr_array) \in Nat
    BY <2>1, PlaceFinite, FS_CardinalityType, RobSize
  <2> QED BY <2>2, <2>3 DEF Full, PlacesFit
<1>4. ASSUME NEW p \in UsedPlaces, NEW q \in UsedPlaces, mob[q].sent
      PROVE  ~Conflict(mob, OlderPairs, p, q)
  <2> SUFFICES ASSUME Conflict(mob, OlderPairs, p, q) PROVE FALSE
    OBVIOUS
  <2>1. PICK y \in UsedPlaces : Full(mob[y].mem_deps_ptr_array)
    BY <1>1, <1>4, Zenon DEF MemoryOrderUnlessFull
  <2> QED BY <1>3, <2>1 DEF UsedPlaces
<1>5. ASSUME NEW p \in Place, NEW q \in Place, p[1] \in {"LOAD", "STORE"}, mob[p].status # "FREE",
             mob[q].status # "FREE", mob[q].sent, Older(p, q), ~mob[p].processed
      PROVE  IF p[1] = "LOAD"
             THEN LoadHash(mob[p].access.address) # LoadHash(mob[q].access.address)
             ELSE StoreHash(mob[p].access.address) # StoreHash(mob[q].access.address)
  <2>1. p \in UsedPlaces /\ q \in UsedPlaces /\ <<p, q>> \in OlderPairs
    BY <1>5 DEF UsedPlaces, Used, OlderPairs
  <2>2. Undone(mob, p) /\ p[1] \in Remembered
    BY <1>5 DEF Undone, Remembered
  <2>3. Bucket(mob, p[1], p) # Bucket(mob, p[1], q)
    BY <1>4, <1>5, <2>1, <2>2 DEF Conflict
  <2> QED BY <1>5, <2>3 DEF Bucket
<1> QED BY <1>5 DEF MemoryOrder

\* An operation does not reach the cache before an older one it was ordered
\* after (make_memory_dependences, solve_memory_dependences, mob_read).
THEOREM MemoryOrdered ==
  ASSUME PlacesFit
  PROVE  Spec => []MemoryOrder
<1>1. IInv /\ GuardInv /\ MemDistinctInv => MemoryOrder
  BY MemoryOrderFits
<1> QED BY <1>1, AlwaysGuard, AlwaysMemDistinct, PTL
=============================================================================
