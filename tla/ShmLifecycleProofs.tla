------------------------- MODULE ShmLifecycleProofs --------------------------
(***************************************************************************)
(* For any number of programs, segments, starts, kills and SIGINTs: the    *)
(* global data of a segment is constructed once and nobody's data cleared, *)
(* all programs in service share a segment until one is stopped, and only  *)
(* a program that was killed finds its own data initialised.               *)
(***************************************************************************)
EXTENDS ShmLifecycle, FiniteSetTheorems, TLAPS

(* The invariant *)

TypeOK ==
    /\ DOMAIN segments = SegmentIds
    /\ DOMAIN attached = Programs /\ DOMAIN pc = Programs /\ DOMAIN shm_id = Programs
    /\ \A s \in SegmentIds : segments[s].state \in {"none", "keyed", "removed", "gone"}
    /\ \A p \in Programs : pc[p] \in Labels
    /\ faults.kill \in Nat /\ faults.sigint \in Nat

\* Where a program is attached, and where its segment is under construction.
Inside == {"check_initialized", "exchange", "construct", "publish", "wait", "claim", "serving"}

Constructing(p) == pc[p] \in {"construct", "publish"}

AttachedOK ==
    \A p \in Programs :
        /\ pc[p] \in Inside <=> attached[p] # 0
        /\ pc[p] \in Inside =>
              attached[p] \in SegmentIds /\ shm_id[p] = attached[p] /\ Exists(attached[p])

SizesOK ==
    /\ \A s \in SegmentIds : ~segments[s].right_size => s = 1 \/ segments[s].state = "none"
    /\ \A s, t \in Keyed : s = t
    /\ \A p \in Programs :
          /\ pc[p] \in {"stat", "remove", "attach", "remove_own"} => shm_id[p] \in SegmentIds
          /\ pc[p] \in {"stat", "remove", "attach"} => segments[shm_id[p]].state # "none"
          /\ pc[p] = "remove" => ~segments[shm_id[p]].right_size
          /\ pc[p] \in {"attach"} \cup Inside => segments[shm_id[p]].right_size
          /\ pc[p] \in {"find_again", "create"} => \A s \in Keyed : segments[s].right_size

NobodyStopped ==
    faults.sigint = 0 =>
        /\ \A s \in SegmentIds : segments[s].right_size => segments[s].state = "keyed"
        /\ \A p \in Programs : pc[p] # "remove_own"

OneConstructor ==
    /\ \A s \in SegmentIds : segments[s].shm_is_initialized => segments[s].shm_is_initializing
    /\ \A p \in Programs :
          Constructing(p) => Mine(p).shm_is_initializing /\ ~Mine(p).shm_is_initialized
    /\ \A p, q \in Programs :
          Constructing(p) /\ Constructing(q) /\ attached[p] = attached[q] => p = q
    /\ \A p \in Programs : pc[p] \in {"claim", "serving"} => Mine(p).shm_is_initialized
    /\ \A p \in Programs : At(p, "serving") => p \in Mine(p).initialized

\* The segment in which p's data is initialised is p's while it serves, and p never meets it again.
Behind(p, s) ==
    /\ segments[s].state # "keyed"
    /\ attached[p] # s
    /\ ~(pc[p] \in {"stat", "remove", "attach"} /\ shm_id[p] = s)

NobodyKilled ==
    faults.kill = 0 =>
        \A p \in Programs, s \in SegmentIds :
            p \in segments[s].initialized =>
                \/ At(p, "serving") /\ attached[p] = s
                \/ At(p, "remove_own") /\ shm_id[p] = s
                \/ Behind(p, s)

Inv == TypeOK /\ AttachedOK /\ SizesOK /\ NobodyStopped /\ OneConstructor /\ NobodyKilled

-----------------------------------------------------------------------------
(* Segments *)

LEMMA NattchFacts ==
    ASSUME NEW s \in SegmentIds
    PROVE  /\ nattch(s) = 0 => \A p \in Programs : attached[p] # s
           /\ nattch(s) = 1 => \A p, q \in Programs : attached[p] = s /\ attached[q] = s => p = q
<1> DEFINE users == {p \in Programs : attached[p] = s}
<1>1. IsFiniteSet(users)
  BY LifecycleAssumption, FS_Subset
<1>2. Cardinality(users) \in Nat /\ (Cardinality(users) = 0 <=> users = {})
  BY <1>1, FS_CardinalityType, FS_EmptySet
<1>3. nattch(s) = Cardinality(users) \/ nattch(s) = Cardinality(users) + 1
  BY <1>2 DEF nattch
<1>4. Cardinality(users) = 1 => \E p : users = {p}
  BY <1>1, FS_Singleton
<1>5. nattch(s) = 0 => users = {}
  BY <1>2, <1>3
<1>6. nattch(s) = 1 => users = {} \/ \E p : users = {p}
  BY <1>2, <1>3, <1>4
<1>7. \A p \in Programs : attached[p] = s => p \in users
  OBVIOUS
<1> HIDE DEF users
<1> QED BY <1>5, <1>6, <1>7

\* A segment that is removed keeps what is in it.
SameData(segs) ==
    /\ DOMAIN segs = SegmentIds
    /\ \A t \in SegmentIds :
          /\ segs[t].right_size = segments[t].right_size
          /\ segs[t].shm_is_initializing = segments[t].shm_is_initializing
          /\ segs[t].shm_is_initialized = segments[t].shm_is_initialized
          /\ segs[t].initialized = segments[t].initialized

LEMMA RemovedFacts ==
    ASSUME TypeOK, NEW s \in SegmentIds
    PROVE  /\ SameData(Removed(s))
           /\ \A t \in SegmentIds \ {s} : Removed(s)[t].state = segments[t].state
           /\ Removed(s)[s].state \in {"gone", "removed"}
           /\ (\E p \in Programs : attached[p] = s) => Removed(s)[s].state = "removed"
BY NattchFacts DEF TypeOK, SameData, Removed

\* A segment goes only as the last program attached to it leaves.
LEMMA DetachedFacts ==
    ASSUME TypeOK, AttachedOK, NEW p \in Programs
    PROVE  /\ SameData(Detached(p))
           /\ \A t \in SegmentIds :
                 \/ Detached(p)[t].state = segments[t].state
                 \/ /\ segments[t].state = "removed" /\ Detached(p)[t].state = "gone"
                    /\ \A q \in Programs : attached[q] = t => q = p
BY NattchFacts DEF TypeOK, AttachedOK, SameData, Detached
-----------------------------------------------------------------------------
(* Steps outside a segment *)

\* s becomes, or remains, what p has found.
ChoosesSegment(p, s) ==
    /\ DOMAIN shm_id' = Programs /\ shm_id'[p] = s
    /\ \A q \in Programs \ {p} : shm_id'[q] = shm_id[q]

\* A program looks for a segment, and changes nothing but its own state.
LEMMA Outside ==
    ASSUME Inv, NEW p \in Programs, NEW l \in Labels \ (Inside \cup {"remove_own"}),
           pc[p] \notin Inside \cup {"remove_own"}, pc' = [pc EXCEPT ![p] = l],
           UNCHANGED <<segments, attached, faults>>,
           NEW s, ChoosesSegment(p, s),
           l \in {"stat", "remove", "attach"} =>
               /\ s \in SegmentIds /\ segments[s].state # "none"
               /\ segments[s].state = "keyed"
                  \/ (s = shm_id[p] /\ pc[p] \in {"stat", "remove", "attach"}),
           l = "remove" => ~segments[s].right_size,
           l = "attach" => segments[s].right_size,
           l \in {"find_again", "create"} => \A t \in Keyed : segments[t].right_size
    PROVE  Inv'
<1>1. /\ pc'[p] = l /\ shm_id'[p] = s /\ DOMAIN pc' = Programs /\ DOMAIN shm_id' = Programs
      /\ \A q \in Programs \ {p} : pc'[q] = pc[q] /\ shm_id'[q] = shm_id[q]
      /\ Keyed' = Keyed
  BY DEF Inv, TypeOK, Keyed, ChoosesSegment
<1>2. TypeOK' /\ AttachedOK' /\ NobodyStopped'
  BY <1>1 DEF Inv, TypeOK, AttachedOK, NobodyStopped, Exists
<1>3. SizesOK'
  BY <1>1 DEF Inv, SizesOK, Inside
<1>4. OneConstructor'
  BY <1>1 DEF Inv, OneConstructor, Constructing, Mine, At, Inside
<1>5. NobodyKilled'
  BY <1>1 DEF Inv, NobodyKilled, Behind, At, Inside
<1> QED BY <1>2, <1>3, <1>4, <1>5 DEF Inv

Looking == {"find", "stat", "remove", "find_again", "create", "attach", "not_attached"}

LEMMA LookingIsOutside ==
    /\ Looking \subseteq Labels \ (Inside \cup {"remove_own"})
    /\ "down" \notin Inside \cup {"remove_own"}
BY DEF Looking, Labels, Inside

LEMMA RetryStep ==
    ASSUME Inv, NEW p \in Programs, Retry(p), UNCHANGED faults, pc[p] \notin Inside \cup {"remove_own"}
    PROVE  Inv'
<1>1. PICK l \in {"find", "not_attached"} : pc' = [pc EXCEPT ![p] = l]
  BY DEF Retry, Goto
<1>2. ChoosesSegment(p, shm_id[p]) /\ UNCHANGED <<segments, attached>>
  BY DEF Retry, ChoosesSegment, Inv, TypeOK
<1> QED BY <1>1, <1>2, LookingIsOutside, Outside DEF Looking

LEMMA StartStep == ASSUME Inv, NEW p \in Programs, Start(p) PROVE Inv'
<1>1. ChoosesSegment(p, shm_id[p]) /\ pc' = [pc EXCEPT ![p] = "find"]
      /\ UNCHANGED <<segments, attached, faults>> /\ pc[p] = "down"
  BY DEF Start, At, Goto, ChoosesSegment, Inv, TypeOK
<1> QED BY <1>1, LookingIsOutside, Outside DEF Looking

LEMMA FindStep == ASSUME Inv, NEW p \in Programs, Find(p) PROVE Inv'
<1>1. UNCHANGED <<segments, attached, faults>> /\ pc[p] = "find"
  BY DEF Find, At, Flags
<1>2. CASE Keyed = {} /\ Goto(p, "create") /\ UNCHANGED shm_id
  <2>1. ChoosesSegment(p, shm_id[p]) /\ pc' = [pc EXCEPT ![p] = "create"]
        /\ \A t \in Keyed : segments[t].right_size
    BY <1>2 DEF Goto, ChoosesSegment, Inv, TypeOK
  <2> QED BY <1>1, <1>2, <2>1, LookingIsOutside, Outside DEF Looking
<1>3. ASSUME NEW s \in Keyed, shm_id' = [shm_id EXCEPT ![p] = s], Goto(p, "stat") PROVE Inv'
  <2>1. ChoosesSegment(p, s) /\ s \in SegmentIds /\ segments[s].state = "keyed" /\ pc' = [pc EXCEPT ![p] = "stat"]
    BY <1>3 DEF Keyed, Goto, ChoosesSegment, Inv, TypeOK
  <2> QED BY <1>1, <1>3, <2>1, LookingIsOutside, Outside DEF Looking
<1> QED BY <1>2, <1>3 DEF Find

LEMMA StatStep == ASSUME Inv, NEW p \in Programs, Stat(p) PROVE Inv'
<1> DEFINE s == shm_id[p]
<1>1. UNCHANGED faults /\ pc[p] = "stat" /\ s \in SegmentIds /\ segments[s].state # "none"
  BY DEF Stat, At, Flags, Inv, SizesOK
<1>2. CASE Retry(p)
  BY <1>1, <1>2, LookingIsOutside, RetryStep DEF Looking
<1>3. CASE ~Retry(p)
  <2>1. PICK l \in {"attach", "remove"} :
           pc' = [pc EXCEPT ![p] = l] /\ (l = "attach" <=> segments[s].right_size)
    BY <1>3 DEF Stat, Goto
  <2>2. ChoosesSegment(p, s) /\ UNCHANGED <<segments, attached>>
    BY <1>3 DEF Stat, ChoosesSegment, Inv, TypeOK
  <2> HIDE DEF s
  <2>3. s = shm_id[p]
    BY DEF s
  <2> QED BY <1>1, <2>1, <2>2, <2>3, LookingIsOutside, Outside DEF Looking
<1> QED BY <1>2, <1>3

LEMMA FindAgainStep == ASSUME Inv, NEW p \in Programs, FindAgain(p) PROVE Inv'
<1>1. UNCHANGED <<segments, attached, faults>> /\ pc[p] = "find_again"
      /\ \A t \in Keyed : segments[t].right_size
  BY DEF FindAgain, At, Flags, Inv, SizesOK
<1>2. CASE Keyed = {} /\ Goto(p, "create") /\ UNCHANGED shm_id
  <2>1. ChoosesSegment(p, shm_id[p]) /\ pc' = [pc EXCEPT ![p] = "create"]
        /\ \A t \in Keyed : segments[t].right_size
    BY <1>2 DEF Goto, ChoosesSegment, Inv, TypeOK
  <2> QED BY <1>1, <1>2, <2>1, LookingIsOutside, Outside DEF Looking
<1>3. ASSUME NEW s \in Keyed, shm_id' = [shm_id EXCEPT ![p] = s], Goto(p, "attach") PROVE Inv'
  <2>1. ChoosesSegment(p, s) /\ s \in SegmentIds /\ segments[s].state = "keyed" /\ pc' = [pc EXCEPT ![p] = "attach"]
    BY <1>3 DEF Keyed, Goto, ChoosesSegment, Inv, TypeOK
  <2> QED BY <1>1, <1>3, <2>1, LookingIsOutside, Outside DEF Looking
<1> QED BY <1>2, <1>3 DEF FindAgain

LEMMA RemoveStep == ASSUME Inv, NEW p \in Programs, Remove(p) PROVE Inv'
<1> DEFINE s == shm_id[p]
<1>1. UNCHANGED faults /\ pc[p] = "remove" /\ s \in SegmentIds
      /\ segments[s].state # "none" /\ ~segments[s].right_size
  BY DEF Remove, At, Flags, Inv, SizesOK
<1>2. CASE Retry(p)
  BY <1>1, <1>2, LookingIsOutside, RetryStep DEF Looking
<1>3. CASE ~Retry(p)
  <2>1. /\ segments' = Removed(s) /\ pc' = [pc EXCEPT ![p] = "find_again"]
        /\ UNCHANGED <<attached, shm_id>>
    BY <1>3 DEF Remove, Goto
  <2> HIDE DEF s
  <2>2. /\ SameData(segments') /\ segments'[s].state \in {"gone", "removed"}
        /\ \A t \in SegmentIds \ {s} : segments'[t].state = segments[t].state
    BY <1>1, <2>1, RemovedFacts DEF Inv
  <2>3. \A q \in Programs : attached[q] # s
    BY <1>1 DEF Inv, AttachedOK, SizesOK
  <2>4. /\ pc'[p] = "find_again" /\ \A q \in Programs \ {p} : pc'[q] = pc[q]
        /\ DOMAIN pc' = Programs /\ "find_again" \in Labels
    BY <2>1 DEF Inv, TypeOK, Labels
  <2>5. TypeOK'
    BY <1>1, <2>1, <2>2, <2>4 DEF Inv, TypeOK, SameData
  <2>6. AttachedOK'
    BY <1>1, <2>1, <2>2, <2>3, <2>4 DEF Inv, AttachedOK, Exists, Inside
  <2>7. /\ \A t \in Keyed' : t \in Keyed /\ t # s
        /\ \A t \in Keyed' : segments'[t].right_size
        /\ \A t \in SegmentIds : segments'[t].state = "none" <=> segments[t].state = "none"
    BY <1>1, <2>2 DEF Inv, SizesOK, SameData, Keyed
  <2>8. SizesOK'
    <3>1. /\ \A t \in SegmentIds : ~segments'[t].right_size => t = 1 \/ segments'[t].state = "none"
          /\ \A t, u \in Keyed' : t = u
      BY <2>2, <2>7 DEF Inv, SizesOK, SameData
    <3>2. \A q \in Programs :
             /\ pc'[q] \in {"stat", "remove", "attach", "remove_own"} => shm_id[q] \in SegmentIds
             /\ pc'[q] \in {"stat", "remove", "attach"} => segments'[shm_id[q]].state # "none"
             /\ pc'[q] = "remove" => ~segments'[shm_id[q]].right_size
      BY <2>2, <2>4, <2>7 DEF Inv, SizesOK, SameData
    <3>3. \A q \in Programs : pc'[q] \in {"attach"} \cup Inside => segments'[shm_id[q]].right_size
      BY <2>2, <2>4 DEF Inv, SizesOK, AttachedOK, SameData, Inside
    <3> QED BY <2>1, <2>7, <3>1, <3>2, <3>3 DEF SizesOK
  <2>9. NobodyStopped'
    BY <1>1, <2>1, <2>2, <2>4 DEF Inv, NobodyStopped, SameData
  <2>10. OneConstructor'
    BY <2>1, <2>2, <2>4 DEF Inv, OneConstructor, AttachedOK, SameData, Constructing, Mine, At, Inside
  <2>11. NobodyKilled'
    BY <1>1, <2>1, <2>2, <2>4 DEF Inv, NobodyKilled, SameData, Behind, At
  <2> QED BY <2>5, <2>6, <2>8, <2>9, <2>10, <2>11 DEF Inv
<1> QED BY <1>2, <1>3

LEMMA CreateStep == ASSUME Inv, NEW p \in Programs, Create(p) PROVE Inv'
<1>1. UNCHANGED <<attached, faults>> /\ pc[p] = "create" /\ pc' = [pc EXCEPT ![p] = "attach"]
      /\ \A t \in Keyed : segments[t].right_size
  BY DEF Create, At, Goto, Flags, Inv, SizesOK
<1>2. ASSUME NEW s \in Keyed, shm_id' = [shm_id EXCEPT ![p] = s], UNCHANGED segments PROVE Inv'
  <2>1. ChoosesSegment(p, s) /\ s \in SegmentIds /\ segments[s].state = "keyed"
    BY <1>2 DEF Keyed, ChoosesSegment, Inv, TypeOK
  <2> QED BY <1>1, <1>2, <2>1, LookingIsOutside, Outside DEF Looking
<1>3. ASSUME NEW s \in SegmentIds, Keyed = {}, segments[s].state = "none",
             segments' = [segments EXCEPT ![s] = NewSegment], shm_id' = [shm_id EXCEPT ![p] = s]
      PROVE  Inv'
  <2>1. /\ DOMAIN segments' = SegmentIds
        /\ segments'[s] = [state |-> "keyed", right_size |-> TRUE, shm_is_initializing |-> FALSE,
                           shm_is_initialized |-> FALSE, initialized |-> {}]
        /\ \A t \in SegmentIds \ {s} : segments'[t] = segments[t]
    BY <1>3 DEF NewSegment, NoSegment, Inv, TypeOK
  <2>2. /\ pc'[p] = "attach" /\ shm_id'[p] = s /\ DOMAIN pc' = Programs /\ DOMAIN shm_id' = Programs
        /\ \A q \in Programs \ {p} : pc'[q] = pc[q] /\ shm_id'[q] = shm_id[q]
        /\ "attach" \in Labels
    BY <1>1, <1>3 DEF Inv, TypeOK, Labels
  <2>3. \A q \in Programs : attached[q] # s /\ (pc[q] \in Inside => attached[q] \in SegmentIds)
    <3>1. s # 0
      BY DEF SegmentIds
    <3> QED BY <1>3, <3>1 DEF Inv, AttachedOK, Exists
  <2>4. TypeOK'
    BY <1>1, <2>1, <2>2 DEF Inv, TypeOK
  <2>5. AttachedOK'
    BY <1>1, <2>1, <2>2, <2>3 DEF Inv, AttachedOK, Exists, Inside
  <2>6. SizesOK'
    <3>1. Keyed' = {s}
      BY <1>3, <2>1 DEF Keyed
    <3>2. \A t \in SegmentIds : ~segments'[t].right_size => t = 1 \/ segments'[t].state = "none"
      BY <2>1 DEF Inv, SizesOK
    <3> QED BY <1>1, <1>3, <2>1, <2>2, <2>3, <3>1, <3>2 DEF Inv, SizesOK, AttachedOK, Inside
  <2>7. NobodyStopped'
    BY <1>1, <2>1, <2>2 DEF Inv, NobodyStopped
  <2>8. OneConstructor'
    BY <1>1, <2>1, <2>2, <2>3 DEF Inv, OneConstructor, Constructing, Mine, At, Inside
  <2>9. NobodyKilled'
    BY <1>1, <1>3, <2>1, <2>2, <2>3 DEF Inv, NobodyKilled, Behind, At, Inside, SizesOK
  <2> QED BY <2>4, <2>5, <2>6, <2>7, <2>8, <2>9 DEF Inv
<1> QED BY <1>2, <1>3 DEF Create

LEMMA AttachStep == ASSUME Inv, NEW p \in Programs, Attach(p) PROVE Inv'
<1> DEFINE s == shm_id[p]
<1>1. UNCHANGED faults /\ pc[p] = "attach" /\ s \in SegmentIds /\ segments[s].right_size
  BY DEF Attach, At, Flags, Inv, SizesOK
<1>2. CASE Retry(p)
  BY <1>1, <1>2, LookingIsOutside, RetryStep DEF Looking
<1>3. CASE ~Retry(p)
  <2>1. /\ Exists(s) /\ attached' = [attached EXCEPT ![p] = s]
        /\ pc' = [pc EXCEPT ![p] = "check_initialized"] /\ UNCHANGED <<segments, shm_id>>
    BY <1>3 DEF Attach, Goto
  <2>2. s = shm_id[p]
    OBVIOUS
  <2> HIDE DEF s
  <2>3. /\ pc'[p] = "check_initialized" /\ attached'[p] = s
        /\ DOMAIN pc' = Programs /\ DOMAIN attached' = Programs
        /\ \A q \in Programs \ {p} : pc'[q] = pc[q] /\ attached'[q] = attached[q]
        /\ "check_initialized" \in Labels /\ s # 0
    BY <1>1, <2>1 DEF Inv, TypeOK, Labels, SegmentIds
  <2>4. TypeOK'
    BY <1>1, <2>1, <2>3 DEF Inv, TypeOK
  <2>5. AttachedOK'
    BY <1>1, <2>1, <2>2, <2>3 DEF Inv, AttachedOK, Exists, Inside
  <2>6. SizesOK'
    BY <1>1, <2>1, <2>2, <2>3 DEF Inv, SizesOK, Inside, Keyed
  <2>7. NobodyStopped'
    BY <1>1, <2>1, <2>3 DEF Inv, NobodyStopped
  <2>8. OneConstructor'
    BY <1>1, <2>1, <2>3 DEF Inv, OneConstructor, Constructing, Mine, At
  <2>9. NobodyKilled'
    BY <1>1, <2>1, <2>2, <2>3 DEF Inv, NobodyKilled, Behind, At
  <2> QED BY <2>4, <2>5, <2>6, <2>7, <2>8, <2>9 DEF Inv
<1> QED BY <1>2, <1>3

\* A program detaches its segment, as it ends or to remove it next.
LEMMA Leaves ==
    ASSUME Inv, NEW p \in Programs, NEW l \in {"down", "remove_own"},
           pc' = [pc EXCEPT ![p] = l], segments' = Detached(p),
           attached' = [attached EXCEPT ![p] = 0], UNCHANGED shm_id,
           faults'.kill \in Nat, faults'.sigint \in Nat,
           faults'.sigint = 0 => faults.sigint = 0 /\ l = "down",
           l = "remove_own" => pc[p] = "serving",
           faults'.kill = 0 =>
               faults.kill = 0 /\ (l = "remove_own" \/ pc[p] \notin {"serving", "remove_own"})
    PROVE  Inv'
<1>1. /\ pc'[p] = l /\ attached'[p] = 0 /\ DOMAIN pc' = Programs /\ DOMAIN attached' = Programs
      /\ \A q \in Programs \ {p} : pc'[q] = pc[q] /\ attached'[q] = attached[q]
      /\ l \in Labels /\ l \notin Inside
  BY DEF Inv, TypeOK, Labels, Inside
<1>2. /\ SameData(segments')
      /\ \A t \in SegmentIds :
            \/ segments'[t].state = segments[t].state
            \/ /\ segments[t].state = "removed" /\ segments'[t].state = "gone"
               /\ \A q \in Programs : attached[q] = t => q = p
  BY DetachedFacts DEF Inv
<1>3. Keyed' = Keyed
  BY <1>2 DEF Keyed
<1>4. TypeOK'
  BY <1>1, <1>2 DEF Inv, TypeOK, SameData
<1>5. AttachedOK'
  BY <1>1, <1>2 DEF Inv, AttachedOK, Exists
<1>6. SizesOK'
  <2>1. \A q \in Programs : pc'[q] \in Inside \cup {"attach", "stat", "remove", "find_again", "create"} => q # p
    BY <1>1
  <2>2. l = "remove_own" => shm_id[p] \in SegmentIds
    BY DEF Inv, AttachedOK, Inside
  <2>3. \A t \in SegmentIds : segments'[t].state = "none" <=> segments[t].state = "none"
    BY <1>2
  <2> QED BY <1>1, <1>2, <1>3, <2>1, <2>2, <2>3 DEF Inv, SizesOK, SameData, AttachedOK, Keyed
<1>7. NobodyStopped'
  BY <1>1, <1>2 DEF Inv, NobodyStopped, SameData
<1>8. OneConstructor'
  BY <1>1, <1>2 DEF Inv, OneConstructor, AttachedOK, SameData, Constructing, Mine, At, Inside
<1>9. NobodyKilled'
  <2>1. pc[p] = "serving" => shm_id[p] = attached[p]
    BY DEF Inv, AttachedOK, Inside
  <2> SUFFICES ASSUME faults'.kill = 0, NEW q \in Programs, NEW s \in SegmentIds, q \in segments'[s].initialized
               PROVE  \/ At(q, "serving")' /\ attached'[q] = s
                      \/ At(q, "remove_own")' /\ shm_id[q] = s
                      \/ Behind(q, s)'
    BY DEF NobodyKilled
  <2>2. \/ pc[q] = "serving" /\ attached[q] = s
        \/ pc[q] = "remove_own" /\ shm_id[q] = s
        \/ Behind(q, s)
    BY <1>2 DEF Inv, NobodyKilled, SameData, At
  <2>3. Behind(q, s) => Behind(q, s)'
    <3>1. s # 0 /\ l \notin {"stat", "remove", "attach"}
      BY DEF SegmentIds
    <3>2. segments[s].state # "keyed" => segments'[s].state # "keyed"
      BY <1>2
    <3> QED BY <1>1, <3>1, <3>2 DEF Behind
  <2>4. CASE q = p
    BY <1>1, <2>1, <2>2, <2>3, <2>4 DEF At
  <2>5. CASE q # p
    BY <1>1, <2>2, <2>3, <2>5 DEF At
  <2> QED BY <2>4, <2>5
<1> QED BY <1>4, <1>5, <1>6, <1>7, <1>8, <1>9 DEF Inv

LEMMA RemoveOwnStep == ASSUME Inv, NEW p \in Programs, RemoveOwn(p) PROVE Inv'
<1> DEFINE s == shm_id[p]
<1>1. /\ pc[p] = "remove_own" /\ pc' = [pc EXCEPT ![p] = "down"] /\ UNCHANGED <<attached, shm_id, faults>>
      /\ segments' = IF Exists(s) THEN Removed(s) ELSE segments
      /\ s \in SegmentIds /\ s = shm_id[p]
  BY DEF RemoveOwn, At, Goto, InSegment, Flags, Inv, SizesOK
<1> HIDE DEF s
<1>2. /\ pc'[p] = "down" /\ DOMAIN pc' = Programs /\ "down" \in Labels
      /\ \A q \in Programs \ {p} : pc'[q] = pc[q]
  BY <1>1 DEF Inv, TypeOK, Labels
<1>3. /\ SameData(segments')
      /\ \A t \in SegmentIds \ {s} : segments'[t].state = segments[t].state
      /\ (\E q \in Programs : attached[q] = s) /\ Exists(s) => segments'[s].state = "removed"
      /\ segments'[s].state # "keyed"
      /\ segments'[s].state = "none" <=> segments[s].state = "none"
      /\ segments'[s].state \in {"none", "removed", "gone"}
  <2>1. CASE Exists(s)
    BY <1>1, <2>1, RemovedFacts DEF Inv, Exists
  <2>2. CASE ~Exists(s)
    BY <1>1, <2>2 DEF Inv, TypeOK, SameData, Exists
  <2> QED BY <2>1, <2>2
<1>4. TypeOK'
  BY <1>1, <1>2, <1>3 DEF Inv, TypeOK, SameData
<1>5. AttachedOK'
  BY <1>1, <1>2, <1>3 DEF Inv, AttachedOK, Exists, Inside
<1>6. SizesOK'
  <2>1. \A t \in Keyed' : t \in Keyed
    BY <1>1, <1>3 DEF Keyed
  <2>2. \A t \in SegmentIds : segments'[t].state = "none" <=> segments[t].state = "none"
    BY <1>3
  <2>3. /\ \A t \in SegmentIds : ~segments'[t].right_size => t = 1 \/ segments'[t].state = "none"
        /\ \A t, u \in Keyed' : t = u
    BY <1>3, <2>1, <2>2 DEF Inv, SizesOK, SameData
  <2>4. \A q \in Programs :
           /\ pc'[q] \in {"stat", "remove", "attach", "remove_own"} => shm_id[q] \in SegmentIds
           /\ pc'[q] \in {"stat", "remove", "attach"} => segments'[shm_id[q]].state # "none"
           /\ pc'[q] = "remove" => ~segments'[shm_id[q]].right_size
           /\ pc'[q] \in {"find_again", "create"} => \A t \in Keyed' : segments'[t].right_size
    BY <1>2, <1>3, <2>1, <2>2 DEF Inv, SizesOK, SameData, Keyed
  <2>5. \A q \in Programs : pc'[q] \in {"attach"} \cup Inside => segments'[shm_id[q]].right_size
    BY <1>2, <1>3 DEF Inv, SizesOK, AttachedOK, SameData, Inside
  <2> QED BY <1>1, <2>3, <2>4, <2>5 DEF SizesOK
<1>7. NobodyStopped'
  BY <1>1 DEF Inv, NobodyStopped
<1>8. OneConstructor'
  BY <1>1, <1>2, <1>3 DEF Inv, OneConstructor, AttachedOK, SameData, Constructing, Mine, At, Inside
<1>9. NobodyKilled'
  <2> SUFFICES ASSUME faults.kill = 0, NEW q \in Programs, NEW t \in SegmentIds, q \in segments'[t].initialized
               PROVE  \/ At(q, "serving")' /\ attached[q] = t
                      \/ At(q, "remove_own")' /\ shm_id[q] = t
                      \/ Behind(q, t)'
    BY <1>1 DEF NobodyKilled
  <2>1. \/ pc[q] = "serving" /\ attached[q] = t
        \/ pc[q] = "remove_own" /\ shm_id[q] = t
        \/ Behind(q, t)
    BY <1>3 DEF Inv, NobodyKilled, SameData, At
  <2>2. Behind(q, t) => Behind(q, t)'
    BY <1>1, <1>2, <1>3 DEF Behind
  <2>3. CASE q = p /\ ~Behind(q, t)
    <3>1. t = s /\ attached[p] # s
      BY <1>1, <2>1, <2>3 DEF Inv, AttachedOK, Inside, SegmentIds
    <3> QED BY <1>1, <1>2, <1>3, <2>3, <3>1 DEF Behind
  <2>4. CASE q # p
    BY <1>1, <1>2, <2>1, <2>2, <2>4 DEF At
  <2> QED BY <2>2, <2>3, <2>4
<1> QED BY <1>4, <1>5, <1>6, <1>7, <1>8, <1>9 DEF Inv

-----------------------------------------------------------------------------
(* Steps in a segment *)

\* What p does to the control data of its segment concerns only the constructor.
LEMMA Within ==
    ASSUME Inv, NEW p \in Programs, NEW l \in Inside, pc[p] \in Inside \ {"serving"},
           pc' = [pc EXCEPT ![p] = l], UNCHANGED <<attached, shm_id, faults>>,
           DOMAIN segments' = SegmentIds,
           \A t \in SegmentIds :
               /\ segments'[t].state = segments[t].state
               /\ segments'[t].right_size = segments[t].right_size
               /\ segments'[t].initialized \subseteq segments[t].initialized \cup {p},
           \A t \in SegmentIds : p \in segments'[t].initialized =>
               p \in segments[t].initialized \/ (l = "serving" /\ t = attached[p]),
           OneConstructor'
    PROVE  Inv'
<1>1. /\ pc'[p] = l /\ DOMAIN pc' = Programs /\ l \in Labels
      /\ \A q \in Programs \ {p} : pc'[q] = pc[q]
      /\ Keyed' = Keyed
  BY DEF Inv, TypeOK, Keyed, Labels, Inside
<1>2. TypeOK' /\ AttachedOK' /\ NobodyStopped'
  BY <1>1 DEF Inv, TypeOK, AttachedOK, NobodyStopped, Exists, Inside
<1>3. SizesOK'
  BY <1>1 DEF Inv, SizesOK, AttachedOK, Inside, Keyed
<1>4. NobodyKilled'
  <2> SUFFICES ASSUME faults.kill = 0, NEW q \in Programs, NEW t \in SegmentIds, q \in segments'[t].initialized
               PROVE  \/ At(q, "serving")' /\ attached[q] = t
                      \/ At(q, "remove_own")' /\ shm_id[q] = t
                      \/ Behind(q, t)'
    BY DEF NobodyKilled
  <2>1. Behind(q, t) => Behind(q, t)'
    BY <1>1 DEF Behind, Inside
  <2>2. CASE q \in segments[t].initialized
    BY <1>1, <2>1, <2>2 DEF Inv, NobodyKilled, At, Inside
  <2>3. CASE q \notin segments[t].initialized
    BY <1>1, <2>3 DEF At
  <2> QED BY <2>2, <2>3
<1> QED BY <1>2, <1>3, <1>4 DEF Inv

\* What a step does to the segment of the program that takes it.
Changes(p, initializing, initialized, data) ==
    /\ DOMAIN segments' = SegmentIds
    /\ \A t \in SegmentIds \ {attached[p]} : segments'[t] = segments[t]
    /\ LET new == segments'[attached[p]]
       IN  /\ new.state = Mine(p).state /\ new.right_size = Mine(p).right_size
           /\ new.shm_is_initializing = initializing /\ new.shm_is_initialized = initialized
           /\ new.initialized = data

LEMMA WithinStep ==
    ASSUME Inv, NEW p \in Programs,
           \/ CheckInitialized(p) \/ ExchangeInitializing(p) \/ Construct(p) \/ Publish(p) \/ Wait(p)
    PROVE  Inv'
<1>1. /\ UNCHANGED <<attached, shm_id, faults>>
      /\ pc[p] \in Inside \ {"serving", "claim"} /\ attached[p] \in SegmentIds
      /\ DOMAIN segments = SegmentIds /\ DOMAIN pc = Programs
  BY DEF CheckInitialized, ExchangeInitializing, Construct, Publish, Wait, At, InSegment, Flags, Inside,
         Inv, AttachedOK, TypeOK
<1>2. PICK l \in Inside \ {"serving"} : pc' = [pc EXCEPT ![p] = l]
  BY DEF CheckInitialized, ExchangeInitializing, Construct, Publish, Wait, Goto, Inside
<1>3. ASSUME NEW initializing, NEW initialized, NEW data, Changes(p, initializing, initialized, data),
             data \subseteq Mine(p).initialized, OneConstructor'
      PROVE  Inv'
  <2>1. \A t \in SegmentIds :
            /\ segments'[t].state = segments[t].state
            /\ segments'[t].right_size = segments[t].right_size
            /\ segments'[t].initialized \subseteq segments[t].initialized
    BY <1>3 DEF Changes, Mine
  <2> QED BY <1>1, <1>2, <1>3, <2>1, Within DEF Changes
<1>4. /\ pc'[p] = l /\ \A q \in Programs \ {p} : pc'[q] = pc[q]
      /\ \A q \in Programs : pc[q] \in Inside => attached[q] \in SegmentIds
  BY <1>1, <1>2 DEF Inv, AttachedOK
<1>5. ASSUME CheckInitialized(p) \/ Wait(p) PROVE Inv'
  <2>1. Changes(p, Mine(p).shm_is_initializing, Mine(p).shm_is_initialized, Mine(p).initialized)
    BY <1>1, <1>5 DEF CheckInitialized, Wait, Changes, Mine
  <2>2. l = "claim" => Mine(p).shm_is_initialized
    BY <1>4, <1>5 DEF CheckInitialized, Wait, Goto, Inv, TypeOK
  <2>3. OneConstructor'
    BY <1>1, <1>4, <1>5, <2>2
       DEF CheckInitialized, Wait, Goto, Inv, OneConstructor, Constructing, Mine, At, Inside
  <2> QED BY <1>3, <2>1, <2>3
<1>6. ASSUME ExchangeInitializing(p) PROVE Inv'
  <2>1. Changes(p, TRUE, Mine(p).shm_is_initialized, Mine(p).initialized)
    BY <1>1, <1>6 DEF ExchangeInitializing, Changes, Mine
  <2>2. l \in {"wait", "construct"} /\ (l = "construct" => ~Mine(p).shm_is_initializing)
    BY <1>1, <1>4, <1>6 DEF ExchangeInitializing, Goto
  <2>3. OneConstructor'
    BY <1>1, <1>4, <2>1, <2>2 DEF Changes, Inv, OneConstructor, Constructing, Mine, At, Inside
  <2> QED BY <1>3, <2>1, <2>3
<1>7. ASSUME Construct(p) PROVE Inv'
  <2>1. Changes(p, Mine(p).shm_is_initializing, Mine(p).shm_is_initialized, {})
    BY <1>1, <1>7 DEF Construct, Changes, Mine
  <2>2. pc[p] = "construct" /\ l = "publish"
    BY <1>1, <1>4, <1>7 DEF Construct, Goto, At
  <2>3. OneConstructor'
    BY <1>1, <1>4, <2>1, <2>2 DEF Changes, Inv, OneConstructor, Constructing, Mine, At, Inside
  <2> QED BY <1>3, <2>1, <2>3
<1>8. ASSUME Publish(p) PROVE Inv'
  <2>1. Changes(p, Mine(p).shm_is_initializing, TRUE, Mine(p).initialized)
    BY <1>1, <1>8 DEF Publish, Changes, Mine
  <2>2. pc[p] = "publish" /\ l = "claim"
    BY <1>1, <1>4, <1>8 DEF Publish, Goto, At
  <2>3. OneConstructor'
    BY <1>1, <1>4, <2>1, <2>2 DEF Changes, Inv, OneConstructor, Constructing, Mine, At, Inside
  <2> QED BY <1>3, <2>1, <2>3
<1> QED BY <1>5, <1>6, <1>7, <1>8

LEMMA ClaimStep == ASSUME Inv, NEW p \in Programs, Claim(p) PROVE Inv'
<1>1. pc[p] = "claim" /\ UNCHANGED <<shm_id, faults>> /\ faults.kill \in Nat /\ faults.sigint \in Nat
      /\ attached[p] \in SegmentIds /\ DOMAIN segments = SegmentIds /\ DOMAIN pc = Programs
  BY DEF Claim, At, Flags, Inv, TypeOK, AttachedOK, Inside
<1>2. CASE Exit(p)
  <2>1. pc' = [pc EXCEPT ![p] = "down"] /\ segments' = Detached(p) /\ attached' = [attached EXCEPT ![p] = 0]
    BY <1>2 DEF Exit, Goto
  <2> QED BY <1>1, <2>1, Leaves
<1>3. CASE ~Exit(p)
  <2>1. /\ segments' = [segments EXCEPT ![attached[p]].initialized = @ \cup {p},
                                        ![attached[p]].shm_is_initialized = TRUE]
        /\ pc' = [pc EXCEPT ![p] = "serving"] /\ UNCHANGED attached
    BY <1>3 DEF Claim, Goto
  <2>2. Changes(p, Mine(p).shm_is_initializing, TRUE, Mine(p).initialized \cup {p})
    BY <1>1, <2>1 DEF Changes, Mine
  <2>3. /\ pc'[p] = "serving" /\ \A q \in Programs \ {p} : pc'[q] = pc[q]
        /\ \A q \in Programs : pc[q] \in Inside => attached[q] \in SegmentIds
    BY <1>1, <2>1 DEF Inv, AttachedOK
  <2>4. OneConstructor'
    <3>1. Mine(p).shm_is_initialized = TRUE /\ attached' = attached
      BY <1>1, <2>1 DEF Inv, OneConstructor, TypeOK, Mine
    <3>2. /\ \A t \in SegmentIds :
                /\ segments'[t].shm_is_initializing = segments[t].shm_is_initializing
                /\ segments'[t].shm_is_initialized = segments[t].shm_is_initialized
                /\ segments[t].initialized \subseteq segments'[t].initialized
          /\ p \in segments'[attached[p]].initialized
      BY <1>1, <2>2, <3>1 DEF Changes, Mine
    <3>3. \A q \in Programs :
             /\ Constructing(q)' => Constructing(q) /\ attached[q] \in SegmentIds
             /\ pc'[q] \in {"claim", "serving"} => pc[q] \in {"claim", "serving"} /\ attached[q] \in SegmentIds
             /\ pc'[q] = "serving" => pc[q] = "serving" \/ q = p
      BY <1>1, <2>3 DEF Constructing, Inside
    <3> QED BY <3>1, <3>2, <3>3 DEF Inv, OneConstructor, Mine, At
  <2>5. /\ \A t \in SegmentIds :
              /\ segments'[t].state = segments[t].state
              /\ segments'[t].right_size = segments[t].right_size
              /\ segments'[t].initialized \subseteq segments[t].initialized \cup {p}
        /\ \A t \in SegmentIds : p \in segments'[t].initialized =>
               p \in segments[t].initialized \/ t = attached[p]
    BY <2>2 DEF Changes, Mine
  <2>6. "serving" \in Inside /\ pc[p] \in Inside \ {"serving"} /\ DOMAIN segments' = SegmentIds
    BY <1>1, <2>2 DEF Inside, Changes
  <2> QED BY <1>1, <2>1, <2>4, <2>5, <2>6, Within
<1> QED BY <1>2, <1>3

-----------------------------------------------------------------------------
(* All steps *)

LEMMA Initially == Init => Inv
<1> SUFFICES ASSUME Init PROVE Inv
  OBVIOUS
<1>1. 1 \in SegmentIds /\ \A s \in SegmentIds : s # 0
  BY LifecycleAssumption DEF SegmentIds
<1>2. /\ DOMAIN segments = SegmentIds
      /\ \A s \in SegmentIds :
            /\ segments[s].state = "none" \/ (s = 1 /\ segments[s].state = "keyed")
            /\ ~segments[s].right_size /\ ~segments[s].shm_is_initialized /\ segments[s].initialized = {}
  BY DEF Init, NoSegment
<1>3. /\ \A p \in Programs : pc[p] = "down" /\ attached[p] = 0
      /\ DOMAIN pc = Programs /\ DOMAIN attached = Programs /\ DOMAIN shm_id = Programs
      /\ faults.kill = 0 /\ faults.sigint = 0
  BY DEF Init
<1>4. TypeOK /\ AttachedOK /\ NobodyStopped /\ OneConstructor /\ NobodyKilled
  BY <1>2, <1>3 DEF TypeOK, AttachedOK, NobodyStopped, OneConstructor, NobodyKilled, Constructing, At,
                    Labels, Inside
<1>5. SizesOK
  BY <1>2, <1>3 DEF SizesOK, Keyed, Inside
<1> QED BY <1>4, <1>5 DEF Inv

LEMMA Step == Inv /\ [Next]_vars => Inv'
<1> SUFFICES ASSUME Inv, [Next]_vars PROVE Inv'
  OBVIOUS
<1>1. faults.kill \in Nat /\ faults.sigint \in Nat
  BY DEF Inv, TypeOK
<1>2. ASSUME NEW p \in Programs, NotAttached(p) PROVE Inv'
  <2>1. /\ pc[p] = "not_attached" /\ pc' = [pc EXCEPT ![p] = "down"] /\ segments' = Detached(p)
        /\ attached' = [attached EXCEPT ![p] = 0] /\ UNCHANGED <<shm_id, faults>>
    BY <1>2 DEF NotAttached, At, Exit, Goto, Flags
  <2> QED BY <1>1, <2>1, Leaves
<1>3. ASSUME NEW p \in Programs, TimeOut(p) PROVE Inv'
  <2>1. /\ pc[p] = "wait" /\ pc' = [pc EXCEPT ![p] = "down"] /\ segments' = Detached(p)
        /\ attached' = [attached EXCEPT ![p] = 0] /\ UNCHANGED shm_id
        /\ faults'.kill = faults.kill /\ faults'.sigint = faults.sigint
    BY <1>3 DEF TimeOut, At, Exit, Goto
  <2> QED BY <1>1, <2>1, Leaves
<1>4. ASSUME NEW p \in Programs, Kill(p) PROVE Inv'
  <2>1. /\ pc' = [pc EXCEPT ![p] = "down"] /\ segments' = Detached(p)
        /\ attached' = [attached EXCEPT ![p] = 0] /\ UNCHANGED shm_id
        /\ faults'.kill = faults.kill + 1 /\ faults'.sigint = faults.sigint
    BY <1>4 DEF Kill, Exit, Goto
  <2>2. faults'.kill \in Nat /\ faults'.kill # 0 /\ faults'.sigint \in Nat
    BY <1>1, <2>1
  <2> QED BY <2>1, <2>2, Leaves
<1>5. ASSUME NEW p \in Programs, Stop(p) PROVE Inv'
  <2>1. /\ pc[p] = "serving" /\ pc' = [pc EXCEPT ![p] = "remove_own"] /\ segments' = Detached(p)
        /\ attached' = [attached EXCEPT ![p] = 0] /\ UNCHANGED shm_id
        /\ faults'.kill = faults.kill /\ faults'.sigint = faults.sigint + 1
    BY <1>5 DEF Stop, At, Goto
  <2>2. faults'.kill \in Nat /\ faults'.sigint \in Nat /\ faults'.sigint # 0
    BY <1>1, <2>1
  <2> QED BY <2>1, <2>2, Leaves
<1>6. CASE UNCHANGED <<segments, attached, pc, shm_id, faults>>
  BY <1>6 DEF Inv, TypeOK, AttachedOK, SizesOK, NobodyStopped, OneConstructor, NobodyKilled, Behind,
              Constructing, Mine, At, Keyed, Exists
<1>7. OldProgramEnds \/ Settled \/ UNCHANGED vars => UNCHANGED <<segments, attached, pc, shm_id, faults>>
  BY DEF OldProgramEnds, Settled, vars
<1> QED BY <1>2, <1>3, <1>4, <1>5, <1>6, <1>7, StartStep, FindStep, StatStep, RemoveStep, FindAgainStep,
           CreateStep, AttachStep, WithinStep, ClaimStep, RemoveOwnStep
        DEF Next, Initialize

LEMMA Invariance == Spec => []Inv
BY Initially, Step, PTL DEF Spec

\* However many servers start, stop and are killed at whatever step: what a
\* program in service has put into its segment is never cleared by another that
\* constructs the global data late, because shm_is_initializing is exchanged.
THEOREM DataIsKept == Spec => []NobodyIsCleared
<1>1. Inv => NobodyIsCleared
  BY DEF Inv, OneConstructor, NobodyIsCleared, At
<1> QED BY <1>1, Invariance, PTL

\* Nobody works in a segment of another size or in one that is gone; and as long
\* as no server was stopped by SIGINT, all in service use one segment.
THEOREM SegmentIsShared == Spec => []OneSegmentUntilStop
<1>1. Inv => OneSegmentUntilStop
  <2> SUFFICES ASSUME Inv PROVE OneSegmentUntilStop
    OBVIOUS
  <2>1. \A p \in Programs : attached[p] # 0 => Mine(p).right_size /\ Exists(attached[p])
    BY DEF Inv, AttachedOK, SizesOK, Mine
  <2>2. \A p \in Programs : faults.sigint = 0 /\ At(p, "serving") => attached[p] \in Keyed
    BY DEF Inv, AttachedOK, SizesOK, NobodyStopped, Keyed, At, Inside
  <2>3. \A s, t \in Keyed : s = t
    BY DEF Inv, SizesOK
  <2> QED BY <2>1, <2>2, <2>3 DEF OneSegmentUntilStop
<1> QED BY <1>1, Invariance, PTL

\* "already initialized" (shared_memory_manager.cpp:118) is said only to a program
\* that comes back after a kill.
THEOREM FlagOutlivesOnlyKills == Spec => []InitializedOnlyAfterKill
<1>1. Inv => InitializedOnlyAfterKill
  BY DEF Inv, AttachedOK, NobodyKilled, Behind, InitializedOnlyAfterKill, Mine, At, Inside
<1> QED BY <1>1, Invariance, PTL
=============================================================================
