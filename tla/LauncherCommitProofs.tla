------------------------- MODULE LauncherCommitProofs -------------------------
(***************************************************************************)
(* Proofs about LauncherCommit.tla for any snapshots, faults and           *)
(* surroundings. The first sections say of the commit's script, which is a *)
(* sequence computed from the target, what the steps that follow need; the *)
(* next what one step of the program or of its surroundings does; the last *)
(* that the invariant survives it.                                         *)
(***************************************************************************)
EXTENDS LauncherCommit, SequenceTheorems, TLAPS

-----------------------------------------------------------------------------
(* Sequences of steps. *)

Ops   == {"unmask", "disable", "prepared", "activity", "check", "enable", "final", "gate", "settle",
          "compare", "observe", "mask", "halt", "identify", "audit", "conclude", "requiesce",
          "authenticate", "verify", "probe", "emergency", "raise"}
Steps == [op : Ops, unit : Units, on : BOOLEAN, state : UnitFileStates]

LEMMA Concat ==
  ASSUME NEW s \in Seq(Steps), NEW r \in Seq(Steps)
  PROVE  /\ s \o r \in Seq(Steps) /\ Len(s \o r) = Len(s) + Len(r)
         /\ Len(s) \in Nat /\ Len(r) \in Nat
         /\ \A i \in 1 .. Len(s) : (s \o r)[i] = s[i] /\ s[i] \in Steps /\ i \in 1 .. Len(s \o r)
         /\ \A i \in 1 .. Len(r) : /\ (s \o r)[Len(s) + i] = r[i] /\ r[i] \in Steps
                                    /\ Len(s) + i \in 1 .. Len(s \o r)
         /\ \A i \in 1 .. Len(s \o r) :
              \/ i \in 1 .. Len(s) /\ (s \o r)[i] = s[i]
              \/ /\ i \notin 1 .. Len(s) /\ i - Len(s) \in 1 .. Len(r)
                 /\ (s \o r)[i] = r[i - Len(s)]
OBVIOUS

LEMMA Single ==
  ASSUME NEW op \in Ops, NEW u \in Units, NEW on \in BOOLEAN, NEW state \in UnitFileStates,
         NEW s, s = Step(op, u, on, state)
  PROVE  /\ s \in Seq(Steps) /\ Len(s) = 1 /\ s[1].op = op /\ s[1].unit = u /\ s[1].on = on
         /\ s[1].state = state
<1>1. [op |-> op, unit |-> u, on |-> on, state |-> state] \in Steps BY DEF Steps
<1>2. s = <<[op |-> op, unit |-> u, on |-> on, state |-> state]>> BY DEF Step
<1> QED BY <1>1, <1>2

(* Every step is in S. *)
Within(s, S) == s \in Seq(Steps) /\ \A i \in 1 .. Len(s) : s[i] \in S

LEMMA WithinConcat ==
  ASSUME NEW S, NEW s, NEW r, Within(s, S), Within(r, S) PROVE Within(s \o r, S)
<1>1. s \in Seq(Steps) /\ r \in Seq(Steps) BY DEF Within
<1>2. s \o r \in Seq(Steps) BY <1>1, Concat
<1>3. ASSUME NEW i \in 1 .. Len(s \o r) PROVE (s \o r)[i] \in S
  BY <1>1, Concat DEF Within
<1> QED BY <1>2, <1>3 DEF Within

LEMMA WithinWhen ==
  ASSUME NEW S, NEW s, NEW b \in BOOLEAN, b => Within(s, S) PROVE Within(When(b, s), S)
<1>1. CASE b BY <1>1 DEF When
<1>2. CASE ~ b BY <1>2 DEF When, Within
<1> QED BY <1>1, <1>2

(* Steps on one unit, of some kinds. *)
Of(u, O) == {x \in Steps : x.unit = u /\ x.op \in O}

(* An unmasked unit is to be prepared, and is disabled at once when that is called for. *)
Opens(s, t) ==
  \A i \in 1 .. Len(s) :
    s[i].op = "unmask" =>
      /\ Prepared(t, s[i].unit) # "masked"
      /\ Prepared(t, s[i].unit) = "disabled" =>
           i + 1 \in 1 .. Len(s) /\ s[i + 1].op = "disable" /\ s[i + 1].unit = s[i].unit

(* An NVIDIA service is enabled only after it was checked running. *)
Proves(s) ==
  \A i \in 1 .. Len(s) :
    s[i].op = "enable" /\ s[i].unit \in Nvidia =>
      \E j \in 1 .. Len(s) : /\ j < i /\ s[j].op = "check" /\ s[j].on
                             /\ s[j].unit = s[i].unit

LEMMA OpensConcat ==
  ASSUME NEW t, NEW s \in Seq(Steps), NEW r \in Seq(Steps), Opens(s, t), Opens(r, t)
  PROVE  Opens(s \o r, t)
<1> DEFINE c == s \o r
<1> SUFFICES ASSUME NEW i \in 1 .. Len(c), c[i].op = "unmask"
             PROVE  /\ Prepared(t, c[i].unit) # "masked"
                    /\ Prepared(t, c[i].unit) = "disabled" =>
                         i + 1 \in 1 .. Len(c) /\ c[i + 1].op = "disable" /\ c[i + 1].unit = c[i].unit
  BY DEF Opens
<1> HIDE DEF c
<1>1. CASE i \in 1 .. Len(s) /\ c[i] = s[i]
  <2>1. /\ Prepared(t, s[i].unit) # "masked"
        /\ Prepared(t, s[i].unit) = "disabled" =>
             i + 1 \in 1 .. Len(s) /\ s[i + 1].op = "disable" /\ s[i + 1].unit = s[i].unit
    BY <1>1 DEF Opens
  <2>2. i + 1 \in 1 .. Len(s) => c[i + 1] = s[i + 1] /\ i + 1 \in 1 .. Len(c) BY Concat DEF c
  <2> QED BY <1>1, <2>1, <2>2
<1>2. CASE i - Len(s) \in 1 .. Len(r) /\ c[i] = r[i - Len(s)]
  <2> DEFINE k == i - Len(s)
  <2>1. /\ Prepared(t, r[k].unit) # "masked"
        /\ Prepared(t, r[k].unit) = "disabled" =>
             k + 1 \in 1 .. Len(r) /\ r[k + 1].op = "disable" /\ r[k + 1].unit = r[k].unit
    BY <1>2 DEF Opens
  <2>2. k + 1 \in 1 .. Len(r) => c[Len(s) + (k + 1)] = r[k + 1] /\ Len(s) + (k + 1) \in 1 .. Len(c)
    BY Concat DEF c
  <2>3. Len(s) + (k + 1) = i + 1 BY Concat
  <2> QED BY <1>2, <2>1, <2>2, <2>3
<1> QED BY <1>1, <1>2, Concat DEF c

LEMMA ProvesConcat ==
  ASSUME NEW s \in Seq(Steps), NEW r \in Seq(Steps), Proves(s), Proves(r)
  PROVE  Proves(s \o r)
<1> DEFINE c == s \o r
<1> SUFFICES ASSUME NEW i \in 1 .. Len(c), c[i].op = "enable", c[i].unit \in Nvidia
             PROVE  \E j \in 1 .. Len(c) : /\ j < i /\ c[j].op = "check" /\ c[j].on
                                           /\ c[j].unit = c[i].unit
  BY DEF Proves
<1> HIDE DEF c
<1>1. CASE i \in 1 .. Len(s) /\ c[i] = s[i]
  <2>1. PICK j \in 1 .. Len(s) : j < i /\ s[j].op = "check" /\ s[j].on /\ s[j].unit = s[i].unit
    BY <1>1 DEF Proves
  <2>2. c[j] = s[j] /\ j \in 1 .. Len(c) BY Concat DEF c
  <2> QED BY <1>1, <2>1, <2>2
<1>2. CASE i - Len(s) \in 1 .. Len(r) /\ c[i] = r[i - Len(s)]
  <2> DEFINE k == i - Len(s)
  <2>1. PICK j \in 1 .. Len(r) : j < k /\ r[j].op = "check" /\ r[j].on /\ r[j].unit = r[k].unit
    BY <1>2 DEF Proves
  <2>2. c[Len(s) + j] = r[j] /\ Len(s) + j \in 1 .. Len(c) BY Concat DEF c
  <2>3. Len(s) + j < i BY <2>1, Concat
  <2> QED BY <1>2, <2>1, <2>2, <2>3
<1> QED BY <1>1, <1>2, Concat DEF c

(* A sequence without such steps has both properties. *)
LEMMA Idle ==
  ASSUME NEW t, NEW u, NEW O, NEW s, Within(s, Of(u, O))
  PROVE  /\ "unmask" \notin O => Opens(s, t)
         /\ "enable" \notin O \/ u \notin Nvidia => Proves(s)
BY DEF Within, Of, Opens, Proves

LEMMA WithinMore ==
  ASSUME NEW s, NEW S, NEW R, Within(s, S), S \subseteq R PROVE Within(s, R)
BY DEF Within

-----------------------------------------------------------------------------
(* The parts of the commit. *)

LEMMA TargetFacts ==
  ASSUME NEW t \in Targets, NEW u \in Units
  PROVE  /\ t[u].active \in BOOLEAN /\ t[u].state \in UnitFileStates
         /\ PreparedState(t[u].state) \in UnitFileStates /\ Prepared(t, u) \in UnitFileStates
<1>1. t \in [Units -> Target] BY TargetsAssumption
<1>2. t[u] \in Target BY <1>1
<1>3. t[u].active \in BOOLEAN /\ t[u].state \in UnitFileStates BY <1>2 DEF Target
<1> QED BY <1>3 DEF Prepared, PreparedState, UnitFileStates

LEMMA OffFacts ==
  ASSUME NEW op \in Ops, NEW u \in Units, NEW state \in UnitFileStates
  PROVE  LET s == Step(op, u, FALSE, state)
         IN  /\ s \in Seq(Steps) /\ Len(s) = 1 /\ s[1].op = op /\ s[1].unit = u
             /\ Within(s, Of(u, {op}))
<1>1. PICK x \in Steps : x = [op |-> op, unit |-> u, on |-> FALSE, state |-> state] BY DEF Steps
<1>2. x.op = op /\ x.unit = u BY <1>1
<1>3. PICK s : s = <<x>> OBVIOUS
<1>4. s \in Seq(Steps) /\ Len(s) = 1 /\ s[1] = x BY <1>3
<1>5. Within(s, Of(u, {op})) BY <1>2, <1>4 DEF Within, Of
<1>6. s = Step(op, u, FALSE, state) BY <1>1, <1>3 DEF Step
<1> QED BY <1>2, <1>4, <1>5, <1>6

LEMMA DoFacts ==
  ASSUME NEW op \in Ops, NEW u \in Units
  PROVE  /\ Do(op, u) \in Seq(Steps) /\ Len(Do(op, u)) = 1 /\ Do(op, u)[1].op = op
         /\ Do(op, u)[1].unit = u /\ Within(Do(op, u), Of(u, {op}))
BY OffFacts DEF Do, UnitFileStates

LEMMA SetFacts ==
  ASSUME NEW u \in Units, NEW on \in BOOLEAN, NEW state \in UnitFileStates
  PROVE  /\ Set(u, on, state) \in Seq(Steps) /\ Len(Set(u, on, state)) = 2
         /\ Within(Set(u, on, state), Of(u, {"activity", "check"}))
         /\ Set(u, on, state)[2].op = "check" /\ Set(u, on, state)[2].on = on
         /\ Set(u, on, state)[2].unit = u
<1> DEFINE a == Step("activity", u, on, state)
           c == Step("check", u, on, state)
<1>1. /\ a \in Seq(Steps) /\ Len(a) = 1 /\ a[1].op = "activity" /\ a[1].unit = u
      /\ c \in Seq(Steps) /\ Len(c) = 1 /\ c[1].op = "check" /\ c[1].unit = u /\ c[1].on = on
  BY Single DEF Ops
<1>2. Within(a, Of(u, {"activity", "check"})) /\ Within(c, Of(u, {"activity", "check"}))
  BY <1>1 DEF Within, Of
<1> HIDE DEF a, c
<1>3. Set(u, on, state) = a \o c BY DEF Set, a, c
<1>4. (a \o c)[Len(a) + 1] = c[1] /\ Len(a \o c) = 2 BY <1>1, Concat
<1> QED BY <1>1, <1>2, <1>3, <1>4, WithinConcat, Concat

PrepareOps == {"unmask", "disable", "prepared"}

LEMMA PrepareFacts ==
  ASSUME NEW t \in Targets, NEW u \in Units
  PROVE  Within(Prepare(t, u), Of(u, PrepareOps)) /\ Opens(Prepare(t, u), t)
<1> DEFINE state == Prepared(t, u)
           a == When(state # "masked", Do("unmask", u))
           b == When(state = "disabled", Do("disable", u))
           c == Step("prepared", u, FALSE, state)
<1>1. state \in UnitFileStates BY TargetFacts
<1>2. /\ c \in Seq(Steps) /\ Len(c) = 1 /\ c[1].op = "prepared" /\ c[1].unit = u
      /\ Within(c, Of(u, {"prepared"}))
  BY <1>1, OffFacts DEF Ops
<1>3. Within(c, Of(u, PrepareOps))
  <2> HIDE DEF c
  <2> QED BY <1>2 DEF Within, Of, PrepareOps
<1>4. Within(Do("unmask", u), Of(u, PrepareOps)) /\ Within(Do("disable", u), Of(u, PrepareOps))
  BY DoFacts DEF Ops, Within, Of, PrepareOps
<1>5. Within(a, Of(u, PrepareOps)) /\ Within(b, Of(u, PrepareOps)) BY <1>4, WithinWhen
<1>6. Prepare(t, u) = (a \o b) \o c BY DEF Prepare
<1>7. Opens(a \o b, t)
  <2>1. CASE state = "disabled"
    <3>1. a = Do("unmask", u) /\ b = Do("disable", u) BY <2>1 DEF When
    <3>2. /\ a \in Seq(Steps) /\ Len(a) = 1 /\ a[1].op = "unmask" /\ a[1].unit = u
          /\ b \in Seq(Steps) /\ Len(b) = 1 /\ b[1].op = "disable" /\ b[1].unit = u
      BY <3>1, DoFacts DEF Ops
    <3> HIDE DEF a, b
    <3>3. /\ Len(a \o b) = 2 /\ (a \o b)[1] = a[1] /\ (a \o b)[Len(a) + 1] = b[1] BY <3>2, Concat
    <3> QED BY <2>1, <3>2, <3>3 DEF Opens
  <2>2. CASE state # "disabled"
    <3>1. b = <<>> BY <2>2 DEF When
    <3>2. a \o b = a BY <1>5, <3>1 DEF Within
    <3>3. Opens(a, t)
      <4>1. CASE state = "masked" BY <4>1 DEF When, Opens
      <4>2. CASE state # "masked"
        <5>1. a = Do("unmask", u) BY <4>2 DEF When
        <5>2. Len(a) = 1 /\ a[1].unit = u BY <5>1, DoFacts DEF Ops
        <5> HIDE DEF a
        <5> QED BY <2>2, <4>2, <5>2 DEF Opens
      <4> QED BY <4>1, <4>2
    <3> QED BY <3>2, <3>3
  <2> QED BY <2>1, <2>2
<1> HIDE DEF a, b, c
<1>8. Opens(c, t) BY <1>2 DEF Opens
<1>9. a \o b \in Seq(Steps) BY <1>5, Concat DEF Within
<1>10. Within(a \o b, Of(u, PrepareOps)) BY <1>5, WithinConcat
<1> QED BY <1>2, <1>3, <1>6, <1>7, <1>8, <1>9, <1>10, WithinConcat, OpensConcat

(* The last step of a sequence. *)
EndsIn(s, op) == Len(s) \in Nat \ {0} /\ s[Len(s)].op = op

LEMMA EndsConcat ==
  ASSUME NEW op, NEW s \in Seq(Steps), NEW r \in Seq(Steps), EndsIn(r, op)
  PROVE  EndsIn(s \o r, op)
<1>1. Len(s \o r) = Len(s) + Len(r) /\ Len(s) \in Nat /\ Len(r) \in Nat \ {0}
  BY Concat DEF EndsIn
<1>2. (s \o r)[Len(s) + Len(r)] = r[Len(r)] BY <1>1, Concat
<1> QED BY <1>1, <1>2 DEF EndsIn

FinalOps == {"enable", "final"}

LEMMA FinalizeFacts ==
  ASSUME NEW t \in Targets, NEW u \in Units
  PROVE  /\ Within(Finalize(t, u), Of(u, FinalOps)) /\ EndsIn(Finalize(t, u), "final")
         /\ t[u].state # "enabled" => Within(Finalize(t, u), Of(u, {"final"}))
<1> DEFINE a == Step("enable", u, FALSE, Prepared(t, u))
           c == Do("final", u)
           b == When(t[u].state = "enabled", a)
<1>1. Within(a, Of(u, {"enable"})) BY TargetFacts, OffFacts DEF Ops
<1>2. Within(a, Of(u, FinalOps))
  <2> HIDE DEF a
  <2> QED BY <1>1 DEF Within, Of, FinalOps
<1>3. /\ c \in Seq(Steps) /\ Len(c) = 1 /\ c[1].op = "final" /\ c[1].unit = u
      /\ Within(c, Of(u, {"final"}))
  BY DoFacts DEF Ops
<1>4. Within(c, Of(u, FinalOps)) BY <1>3 DEF Within, Of, FinalOps
<1>5. Within(b, Of(u, FinalOps)) BY <1>2, WithinWhen
<1>6. t[u].state # "enabled" => Within(b, Of(u, {"final"})) BY WithinWhen
<1>7. Finalize(t, u) = b \o c BY DEF Finalize
<1> HIDE DEF a, b, c
<1>8. b \in Seq(Steps) /\ EndsIn(c, "final") BY <1>3, <1>5 DEF Within, EndsIn
<1> QED BY <1>3, <1>4, <1>5, <1>6, <1>7, <1>8, WithinConcat, EndsConcat

StagedOps == PrepareOps \cup {"activity", "check"} \cup FinalOps

LEMMA StagedFacts ==
  ASSUME NEW t \in Targets, NEW u \in Nvidia
  PROVE  /\ Within(Staged(t, u), Of(u, StagedOps)) /\ EndsIn(Staged(t, u), "final")
         /\ Opens(Staged(t, u), t) /\ Proves(Staged(t, u))
<1> DEFINE p == Prepare(t, u)
           a == Set(u, TRUE, Prepared(t, u))
           b == When(NeedsActivationProof(t, u), a)
           c == Set(u, t[u].active, Prepared(t, u))
           d == Finalize(t, u)
           S == Of(u, StagedOps)
<1>1. u \in Units BY DEF Units, Trusted
<1>2. Prepared(t, u) \in UnitFileStates /\ t[u].active \in BOOLEAN BY <1>1, TargetFacts
<1>3. Within(p, S) /\ Opens(p, t)
  <2>1. Within(p, Of(u, PrepareOps)) /\ Opens(p, t) BY <1>1, PrepareFacts
  <2> HIDE DEF p
  <2> QED BY <2>1, WithinMore DEF Of, StagedOps
<1>4. /\ Within(a, Of(u, {"activity", "check"})) /\ Len(a) = 2 /\ a[2].op = "check" /\ a[2].on
      /\ a[2].unit = u /\ a \in Seq(Steps)
  <2>1. PICK on \in BOOLEAN : on = TRUE OBVIOUS
  <2>2. a = Set(u, on, Prepared(t, u)) BY <2>1
  <2> HIDE DEF a
  <2>3. /\ Within(a, Of(u, {"activity", "check"})) /\ Len(a) = 2 /\ a[2].op = "check"
        /\ a[2].unit = u /\ a \in Seq(Steps) /\ a[2].on = on
    BY <1>1, <1>2, <2>2, SetFacts
  <2>4. a[2].on BY <2>1, <2>3, Zenon
  <2> QED BY <2>3, <2>4
<1>5. /\ Within(c, Of(u, {"activity", "check"})) /\ Len(c) = 2 /\ c[2].op = "check"
      /\ c[2].on = t[u].active /\ c[2].unit = u /\ c \in Seq(Steps)
  BY <1>1, <1>2, SetFacts
<1>6. /\ Within(d, Of(u, FinalOps)) /\ EndsIn(d, "final")
      /\ t[u].state # "enabled" => Within(d, Of(u, {"final"}))
  BY <1>1, FinalizeFacts
<1>7. NeedsActivationProof(t, u) \in BOOLEAN BY DEF NeedsActivationProof
<1>8. Within(b, Of(u, {"activity", "check"})) BY <1>4, <1>7, WithinWhen
<1>9. Staged(t, u) = ((p \o b) \o c) \o d BY DEF Staged
<1>10. t[u].state = "enabled" => t[u].active \/ b = a BY DEF NeedsActivationProof, When
<1> HIDE DEF p, a, b, c, d
<1>11. /\ p \in Seq(Steps) /\ b \in Seq(Steps) /\ c \in Seq(Steps) /\ d \in Seq(Steps)
  BY <1>3, <1>5, <1>6, <1>8 DEF Within
<1>12. /\ Within(b, S) /\ Within(c, S) /\ Within(d, S)
  BY <1>5, <1>6, <1>8 DEF Within, Of, StagedOps
<1>13. Opens(b, t) /\ Opens(c, t) /\ Opens(d, t)
  BY <1>5, <1>6, <1>8, Idle DEF FinalOps
<1> DEFINE pb == p \o b
           pbc == pb \o c
<1>14. pb \in Seq(Steps) /\ Within(pb, S) /\ Opens(pb, t)
  BY <1>3, <1>11, <1>12, <1>13, Concat, WithinConcat, OpensConcat
<1> HIDE DEF pb, S
<1>15. pbc \in Seq(Steps) /\ Within(pbc, S) /\ Opens(pbc, t)
  BY <1>11, <1>12, <1>13, <1>14, Concat, WithinConcat, OpensConcat
<1> HIDE DEF pbc
<1>16. Within(pbc \o d, S) /\ Opens(pbc \o d, t) /\ EndsIn(pbc \o d, "final")
  BY <1>6, <1>11, <1>12, <1>13, <1>15, WithinConcat, OpensConcat, EndsConcat
<1>17. \A i \in 1 .. Len(pbc) : pbc[i].op # "enable"
  <2>1. Within(pbc, Of(u, StagedOps \ {"enable"}))
    <3>1. /\ Within(p, Of(u, StagedOps \ {"enable"})) /\ Within(b, Of(u, StagedOps \ {"enable"}))
          /\ Within(c, Of(u, StagedOps \ {"enable"}))
      <4>1. Within(p, Of(u, PrepareOps)) BY <1>1, PrepareFacts DEF p
      <4>2. /\ Of(u, PrepareOps) \subseteq Of(u, StagedOps \ {"enable"})
            /\ Of(u, {"activity", "check"}) \subseteq Of(u, StagedOps \ {"enable"})
        BY DEF Of, StagedOps, PrepareOps
      <4> QED BY <4>1, <4>2, <1>5, <1>8, WithinMore
    <3>2. Within(pb, Of(u, StagedOps \ {"enable"})) BY <3>1, WithinConcat DEF pb
    <3> QED BY <3>1, <3>2, WithinConcat DEF pbc
  <2> QED BY <2>1 DEF Within, Of
<1>18. Proves(pbc \o d)
  <2>1. CASE t[u].state # "enabled"
    <3>1. \A i \in 1 .. Len(d) : d[i].op # "enable" BY <1>6, <2>1 DEF Within, Of
    <3>2. \A i \in 1 .. Len(pbc \o d) : (pbc \o d)[i].op # "enable"
      BY <1>11, <1>15, <1>17, <3>1, Concat
    <3> QED BY <3>2 DEF Proves
  <2>2. CASE t[u].state = "enabled"
    <3>1. \E j \in 1 .. Len(pbc) : pbc[j].op = "check" /\ pbc[j].on /\ pbc[j].unit = u
      <4>1. CASE t[u].active
        <5>1. 2 \in 1 .. Len(c) BY <1>5
        <5>2. pbc[Len(pb) + 2] = c[2] /\ Len(pb) + 2 \in 1 .. Len(pbc)
          BY <1>11, <1>14, <5>1, Concat DEF pbc
        <5> QED BY <1>5, <4>1, <5>2
      <4>2. CASE b = a
        <5>1. Len(b) = 2 BY <1>4, <4>2
        <5>2. pb[Len(p) + 2] = b[2] /\ Len(p) + 2 \in 1 .. Len(pb)
          <6>1. 2 \in 1 .. Len(b) BY <5>1
          <6> QED BY <1>11, <6>1, Concat DEF pb
        <5>3. pbc[Len(p) + 2] = pb[Len(p) + 2] /\ Len(p) + 2 \in 1 .. Len(pbc)
          BY <1>11, <1>14, <5>2, Concat DEF pbc
        <5> QED BY <1>4, <4>2, <5>2, <5>3
      <4> QED BY <1>10, <2>2, <4>1, <4>2
    <3>2. PICK j \in 1 .. Len(pbc) : pbc[j].op = "check" /\ pbc[j].on /\ pbc[j].unit = u BY <3>1
    <3>3. (pbc \o d)[j] = pbc[j] /\ j \in 1 .. Len(pbc \o d) BY <1>11, <1>15, Concat
    <3>4. ASSUME NEW i \in 1 .. Len(pbc \o d), (pbc \o d)[i].op = "enable"
          PROVE  j < i /\ (pbc \o d)[i].unit = u
      <4>1. (pbc \o d)[i].unit = u BY <1>16 DEF Within, Of, S
      <4>2. i \notin 1 .. Len(pbc) BY <1>11, <1>15, <1>17, <3>4, Concat
      <4>3. Len(pbc) \in Nat /\ i \in Nat \ {0} BY <1>15
      <4> QED BY <4>1, <4>2, <4>3
    <3> QED BY <3>2, <3>3, <3>4 DEF Proves
  <2> QED BY <2>1, <2>2
<1> QED BY <1>9, <1>16, <1>18 DEF pb, pbc, S

DockerUnits == {Docker, Socket}
InDocker(O) == {x \in Steps : x.unit \in DockerUnits /\ x.op \in O}

(* A step after which the running daemon may be another than the gated one. *)
Rebinds(x) == x.unit = Docker /\ x.op \in {"activity", "observe"}
Gates(s)   == \E i \in 1 .. Len(s) : s[i].op = "gate"
Calm(s)    == \A i, j \in 1 .. Len(s) : s[j].op = "gate" /\ j < i => ~ Rebinds(s[i])

LEMMA CalmConcat ==
  ASSUME NEW s \in Seq(Steps), NEW r \in Seq(Steps), Calm(s), Calm(r),
         ~ Gates(s) \/ \A i \in 1 .. Len(r) : ~ Rebinds(r[i])
  PROVE  Calm(s \o r)
<1> DEFINE c == s \o r
<1> SUFFICES ASSUME NEW i \in 1 .. Len(c), NEW j \in 1 .. Len(c), c[j].op = "gate", j < i
             PROVE  ~ Rebinds(c[i])
  BY DEF Calm
<1> HIDE DEF c
<1>1. Len(s) \in Nat BY Concat
<1>2. CASE i \in 1 .. Len(s)
  <2>1. j \in 1 .. Len(s) BY <1>1, <1>2
  <2>2. c[i] = s[i] /\ c[j] = s[j] BY <1>2, <2>1, Concat DEF c
  <2> QED BY <1>2, <2>1, <2>2 DEF Calm
<1>3. CASE i \notin 1 .. Len(s)
  <2>1. i - Len(s) \in 1 .. Len(r) /\ c[i] = r[i - Len(s)] BY <1>3, Concat DEF c
  <2>2. CASE j \in 1 .. Len(s)
    <3>1. c[j] = s[j] BY <2>2, Concat DEF c
    <3>2. Gates(s) BY <2>2, <3>1 DEF Gates
    <3> QED BY <2>1, <3>2
  <2>3. CASE j \notin 1 .. Len(s)
    <3>1. j - Len(s) \in 1 .. Len(r) /\ c[j] = r[j - Len(s)] BY <2>3, Concat DEF c
    <3>2. j - Len(s) < i - Len(s) BY <1>1
    <3> QED BY <2>1, <3>1, <3>2 DEF Calm
  <2> QED BY <2>2, <2>3
<1> QED BY <1>2, <1>3

LEMMA GatesConcat ==
  ASSUME NEW s \in Seq(Steps), NEW r \in Seq(Steps)
  PROVE  Gates(s \o r) <=> Gates(s) \/ Gates(r)
<1>1. ASSUME Gates(s) PROVE Gates(s \o r) BY <1>1, Concat DEF Gates
<1>2. ASSUME Gates(r) PROVE Gates(s \o r)
  <2>1. PICK i \in 1 .. Len(r) : r[i].op = "gate" BY <1>2 DEF Gates
  <2>2. (s \o r)[Len(s) + i] = r[i] /\ Len(s) + i \in 1 .. Len(s \o r) BY Concat
  <2> QED BY <2>1, <2>2 DEF Gates
<1>3. ASSUME Gates(s \o r) PROVE Gates(s) \/ Gates(r) BY <1>3, Concat, SMTT(20) DEF Gates
<1> QED BY <1>1, <1>2, <1>3

(* What a sequence is spared when its steps are none of the kinds concerned. *)
LEMMA Quiet ==
  ASSUME NEW t, NEW s, NEW S, Within(s, S)
  PROVE  /\ (\A x \in S : x.op # "unmask") => Opens(s, t)
         /\ (\A x \in S : x.op = "enable" => x.unit \notin Nvidia) => Proves(s)
         /\ (\A x \in S : x.op # "gate") => ~ Gates(s) /\ Calm(s)
         /\ (\A x \in S : ~ Rebinds(x)) => Calm(s) /\ \A i \in 1 .. Len(s) : ~ Rebinds(s[i])
BY DEF Within, Opens, Proves, Gates, Calm

(* The socket's own steps. *)
Settles(s) ==
  \A i \in 1 .. Len(s) :
    s[i].op = "settle" =>
      /\ s[i].unit = Socket
      /\ i + 1 \in 1 .. Len(s) /\ s[i + 1].unit = Socket /\ s[i + 1].op \in {"activity", "check"}
      /\ i + 2 \in 1 .. Len(s) /\ s[i + 2].unit = Socket /\ s[i + 2].op \in {"activity", "check"}
      /\ i + 3 \in 1 .. Len(s) /\ s[i + 3].op = "compare"

LEMMA SettlesConcat ==
  ASSUME NEW s \in Seq(Steps), NEW r \in Seq(Steps), Settles(s), Settles(r)
  PROVE  Settles(s \o r)
<1> DEFINE c == s \o r
<1> SUFFICES ASSUME NEW i \in 1 .. Len(c), c[i].op = "settle"
             PROVE  /\ c[i].unit = Socket
                    /\ i + 1 \in 1 .. Len(c) /\ c[i + 1].unit = Socket
                    /\ c[i + 1].op \in {"activity", "check"}
                    /\ i + 2 \in 1 .. Len(c) /\ c[i + 2].unit = Socket
                    /\ c[i + 2].op \in {"activity", "check"}
                    /\ i + 3 \in 1 .. Len(c) /\ c[i + 3].op = "compare"
  BY DEF Settles
<1> HIDE DEF c
<1>1. Len(s) \in Nat BY Concat
<1>2. CASE i \in 1 .. Len(s) /\ c[i] = s[i]
  <2>3. i \in 1 .. Len(s) /\ s[i].op = "settle" BY <1>2
  <2>1. /\ s[i].unit = Socket
        /\ i + 1 \in 1 .. Len(s) /\ s[i + 1].unit = Socket /\ s[i + 1].op \in {"activity", "check"}
        /\ i + 2 \in 1 .. Len(s) /\ s[i + 2].unit = Socket /\ s[i + 2].op \in {"activity", "check"}
        /\ i + 3 \in 1 .. Len(s) /\ s[i + 3].op = "compare"
    BY <2>3 DEF Settles
  <2>2. \A k \in 1 .. Len(s) : c[k] = s[k] /\ k \in 1 .. Len(c) BY Concat DEF c
  <2> QED BY <1>2, <2>1, <2>2
<1>3. CASE i - Len(s) \in 1 .. Len(r) /\ c[i] = r[i - Len(s)]
  <2> DEFINE k == i - Len(s)
  <2>7. k \in 1 .. Len(r) /\ r[k].op = "settle" BY <1>3
  <2>1. /\ r[k].unit = Socket
        /\ k + 1 \in 1 .. Len(r) /\ r[k + 1].unit = Socket /\ r[k + 1].op \in {"activity", "check"}
        /\ k + 2 \in 1 .. Len(r) /\ r[k + 2].unit = Socket /\ r[k + 2].op \in {"activity", "check"}
        /\ k + 3 \in 1 .. Len(r) /\ r[k + 3].op = "compare"
    BY <2>7 DEF Settles
  <2>2. \A n \in 1 .. Len(r) : c[Len(s) + n] = r[n] /\ Len(s) + n \in 1 .. Len(c) BY Concat DEF c
  <2>3. Len(s) + (k + 1) = i + 1 /\ Len(s) + (k + 2) = i + 2 /\ Len(s) + (k + 3) = i + 3 BY <1>1
  <2>4. c[i + 1] = r[k + 1] /\ i + 1 \in 1 .. Len(c) BY <2>1, <2>2, <2>3
  <2>5. c[i + 2] = r[k + 2] /\ i + 2 \in 1 .. Len(c) BY <2>1, <2>2, <2>3
  <2>6. c[i + 3] = r[k + 3] /\ i + 3 \in 1 .. Len(c) BY <2>1, <2>2, <2>3
  <2> QED BY <1>3, <2>1, <2>4, <2>5, <2>6
<1> QED BY <1>2, <1>3, Concat, SMTT(20) DEF c

ActivityOps == {"unmask", "disable", "prepared", "activity", "check", "gate", "settle", "compare"}

(* Before the gate, and after it. *)
Leading(t) ==
  Prepare(t, Socket) \o Prepare(t, Docker)
  \o When(ProveSocket(t), Set(Socket, TRUE, Prepared(t, Socket)))
  \o Set(Docker, ProveDocker(t), Prepared(t, Docker))
Gating(t)   == When(ProveDocker(t), Do("gate", Docker))
Stopping(t) == When(~t[Docker].active /\ ProveDocker(t), Set(Docker, FALSE, Prepared(t, Docker)))

LEMMA LeadingFacts ==
  ASSUME NEW t \in Targets
  PROVE  Within(Leading(t), InDocker(PrepareOps \cup {"activity", "check"})) /\ Opens(Leading(t), t)
<1> DEFINE S == InDocker(PrepareOps \cup {"activity", "check"})
           a == Prepare(t, Socket)
           b == Prepare(t, Docker)
           o == Set(Socket, TRUE, Prepared(t, Socket))
           c == When(ProveSocket(t), o)
           d == Set(Docker, ProveDocker(t), Prepared(t, Docker))
<1>1. Docker \in Units /\ Socket \in Units BY DEF Units, Trusted
<1>2. /\ Within(a, Of(Socket, PrepareOps)) /\ Opens(a, t)
      /\ Within(b, Of(Docker, PrepareOps)) /\ Opens(b, t)
  BY <1>1, PrepareFacts
<1>3. Prepared(t, Socket) \in UnitFileStates /\ Prepared(t, Docker) \in UnitFileStates
  BY <1>1, TargetFacts
<1>4. ProveSocket(t) \in BOOLEAN /\ ProveDocker(t) \in BOOLEAN BY DEF ProveSocket, ProveDocker
<1>5. Within(o, Of(Socket, {"activity", "check"}))
  <2>1. PICK on \in BOOLEAN : on = TRUE OBVIOUS
  <2>2. o = Set(Socket, on, Prepared(t, Socket)) BY <2>1
  <2> HIDE DEF o
  <2> QED BY <1>1, <1>3, <2>2, SetFacts
<1>6. Within(d, Of(Docker, {"activity", "check"}))
  <2>1. PICK on \in BOOLEAN : on = ProveDocker(t) BY <1>4
  <2>2. d = Set(Docker, on, Prepared(t, Docker)) BY <2>1
  <2> HIDE DEF d
  <2> QED BY <1>1, <1>3, <2>2, SetFacts
<1>7. Within(c, Of(Socket, {"activity", "check"})) BY <1>4, <1>5, WithinWhen
<1>8. Leading(t) = ((a \o b) \o c) \o d BY DEF Leading
<1> HIDE DEF a, b, c, d
<1>9. Within(a, S) /\ Within(b, S) /\ Within(c, S) /\ Within(d, S)
  <2>1. /\ Of(Socket, PrepareOps) \subseteq S /\ Of(Docker, PrepareOps) \subseteq S
        /\ Of(Socket, {"activity", "check"}) \subseteq S
        /\ Of(Docker, {"activity", "check"}) \subseteq S
    BY DEF Of, InDocker, DockerUnits
  <2> HIDE DEF S
  <2> QED BY <1>2, <1>6, <1>7, <2>1, WithinMore
<1>10. Opens(c, t) /\ Opens(d, t) BY <1>6, <1>7, Idle
<1> HIDE DEF S
<1>11. a \in Seq(Steps) /\ b \in Seq(Steps) /\ c \in Seq(Steps) /\ d \in Seq(Steps)
  BY <1>9 DEF Within
<1>12. Within(a \o b, S) /\ Opens(a \o b, t) /\ a \o b \in Seq(Steps)
  BY <1>2, <1>9, <1>11, WithinConcat, OpensConcat, Concat
<1>13. Within((a \o b) \o c, S) /\ Opens((a \o b) \o c, t) /\ (a \o b) \o c \in Seq(Steps)
  BY <1>9, <1>10, <1>11, <1>12, WithinConcat, OpensConcat, Concat
<1> QED BY <1>8, <1>9, <1>10, <1>11, <1>13, WithinConcat, OpensConcat DEF S

LEMMA ActivityFacts ==
  ASSUME NEW t \in Targets
  PROVE  LET s == DockerActivity(t)
         IN  /\ Within(s, InDocker(ActivityOps)) /\ Opens(s, t) /\ Settles(s)
             /\ ProveDocker(t) => Gates(s)
             /\ t[Docker].active => Calm(s)
<1> DEFINE S == InDocker(ActivityOps)
           a == Leading(t)
           b == Gating(t)
           c == Stopping(t)
           d == Do("settle", Socket)
           e == Set(Socket, t[Socket].active, PreparedState(t[Socket].state))
           f == Do("compare", Docker)
<1>1. Docker \in Units /\ Socket \in Units BY DEF Units, Trusted
<1>2. Within(a, InDocker(PrepareOps \cup {"activity", "check"})) /\ Opens(a, t) BY LeadingFacts
<1>3. ProveDocker(t) \in BOOLEAN /\ (~t[Docker].active /\ ProveDocker(t)) \in BOOLEAN
  BY DEF ProveDocker
<1>4. Within(b, Of(Docker, {"gate"})) /\ (ProveDocker(t) => Gates(b))
  <2>1. /\ Within(Do("gate", Docker), Of(Docker, {"gate"})) /\ Len(Do("gate", Docker)) = 1
        /\ Do("gate", Docker)[1].op = "gate"
    BY <1>1, DoFacts DEF Ops
  <2>2. Within(b, Of(Docker, {"gate"})) BY <1>3, <2>1, WithinWhen DEF Gating
  <2>3. ProveDocker(t) => b = Do("gate", Docker) BY DEF Gating, When
  <2> QED BY <2>1, <2>2, <2>3 DEF Gates
<1>5. /\ Within(c, Of(Docker, {"activity", "check"}))
      /\ t[Docker].active => c = <<>>
  <2>1. Within(Set(Docker, FALSE, Prepared(t, Docker)), Of(Docker, {"activity", "check"}))
    <3>1. PICK on \in BOOLEAN : on = FALSE OBVIOUS
    <3>2. PICK x : x = Set(Docker, on, Prepared(t, Docker)) OBVIOUS
    <3>3. Within(x, Of(Docker, {"activity", "check"})) BY <1>1, <3>2, TargetFacts, SetFacts
    <3> QED BY <3>1, <3>2, <3>3
  <2>2. Within(c, Of(Docker, {"activity", "check"})) BY <1>3, <2>1, WithinWhen DEF Stopping
  <2>3. t[Docker].active => c = <<>> BY DEF Stopping, When
  <2> QED BY <2>2, <2>3
<1>6. /\ d \in Seq(Steps) /\ Len(d) = 1 /\ d[1].op = "settle" /\ d[1].unit = Socket
      /\ Within(d, Of(Socket, {"settle"}))
      /\ f \in Seq(Steps) /\ Len(f) = 1 /\ f[1].op = "compare"
      /\ Within(f, Of(Docker, {"compare"}))
  BY <1>1, DoFacts DEF Ops
<1>7. Within(e, Of(Socket, {"activity", "check"})) /\ Len(e) = 2
  BY <1>1, TargetFacts, SetFacts
<1>8. DockerActivity(t) = ((((a \o b) \o c) \o d) \o e) \o f
  <2> DEFINE p == Prepare(t, Socket)
             q == Prepare(t, Docker)
             r == When(ProveSocket(t), Set(Socket, TRUE, Prepared(t, Socket)))
             v == Set(Docker, ProveDocker(t), Prepared(t, Docker))
  <2>1. DockerActivity(t) = ((((((((p \o q) \o r) \o v) \o b) \o c) \o d) \o e) \o f)
    BY DEF DockerActivity, Gating, Stopping
  <2>2. a = (((p \o q) \o r) \o v) BY DEF Leading
  <2> QED BY <2>1, <2>2
<1> HIDE DEF a, b, c, d, e, f
<1>9. /\ Within(a, S) /\ Within(b, S) /\ Within(c, S) /\ Within(d, S) /\ Within(e, S) /\ Within(f, S)
  <2>1. /\ Of(Docker, {"gate"}) \subseteq S /\ Of(Docker, {"activity", "check"}) \subseteq S
        /\ Of(Socket, {"activity", "check"}) \subseteq S /\ Of(Socket, {"settle"}) \subseteq S
        /\ Of(Docker, {"compare"}) \subseteq S
        /\ InDocker(PrepareOps \cup {"activity", "check"}) \subseteq S
    BY DEF Of, InDocker, DockerUnits, ActivityOps, PrepareOps
  <2> HIDE DEF S
  <2> QED BY <1>2, <1>4, <1>5, <1>6, <1>7, <2>1, WithinMore
<1>10. /\ Opens(b, t) /\ Opens(c, t) /\ Opens(d, t) /\ Opens(e, t) /\ Opens(f, t)
  BY <1>4, <1>5, <1>6, <1>7, Idle
<1>11. /\ a \in Seq(Steps) /\ b \in Seq(Steps) /\ c \in Seq(Steps) /\ d \in Seq(Steps)
       /\ e \in Seq(Steps) /\ f \in Seq(Steps)
  BY <1>9 DEF Within
<1>12. \A s \in {a, b, c, e, f} : \A i \in 1 .. Len(s) : s[i].op # "settle"
  BY <1>2, <1>4, <1>5, <1>6, <1>7 DEF Within, Of, InDocker, PrepareOps
<1> HIDE DEF S
<1> DEFINE x == (a \o b) \o c
           y == x \o d
           z == y \o e
<1>13. a \o b \in Seq(Steps) /\ Within(a \o b, S) /\ Opens(a \o b, t)
  BY <1>2, <1>9, <1>10, <1>11, WithinConcat, OpensConcat, Concat
<1>14. x \in Seq(Steps) /\ Within(x, S) /\ Opens(x, t)
  BY <1>9, <1>10, <1>11, <1>13, WithinConcat, OpensConcat, Concat
<1>15. \A i \in 1 .. Len(x) : x[i].op # "settle"
  <2>1. \A i \in 1 .. Len(a \o b) : (a \o b)[i].op # "settle" BY <1>11, <1>12, Concat
  <2> QED BY <1>11, <1>12, <1>13, <2>1, Concat
<1>16. ProveDocker(t) => Gates(x) BY <1>4, <1>11, <1>13, GatesConcat
<1>17. t[Docker].active => Calm(x)
  <2>1. ~ Gates(a) /\ Calm(a)
    <3>1. \A k \in InDocker(PrepareOps \cup {"activity", "check"}) : k.op # "gate"
      BY DEF InDocker, PrepareOps
    <3> QED BY <1>2, <3>1, Quiet
  <2>2. Calm(b) /\ \A i \in 1 .. Len(b) : ~ Rebinds(b[i])
    <3>1. \A k \in Of(Docker, {"gate"}) : ~ Rebinds(k) BY DEF Of, Rebinds
    <3> QED BY <1>4, <3>1, Quiet
  <2>3. Calm(a \o b) BY <1>11, <2>1, <2>2, CalmConcat
  <2>4. t[Docker].active => x = a \o b BY <1>5, <1>13
  <2> QED BY <2>3, <2>4
<1> HIDE DEF x
<1>18. y \in Seq(Steps) /\ Within(y, S) /\ Opens(y, t)
  BY <1>6, <1>9, <1>10, <1>11, <1>14, WithinConcat, OpensConcat, Concat
<1>19. /\ \A i \in 1 .. Len(x) : y[i] = x[i]
       /\ y[Len(x) + 1] = d[1] /\ Len(x) \in Nat /\ Len(y) = Len(x) + 1
  <2>1. 1 \in 1 .. Len(d) BY <1>6
  <2>2. \A i \in 1 .. Len(d) : (x \o d)[Len(x) + i] = d[i] BY <1>11, <1>14, Concat
  <2>3. \A i \in 1 .. Len(x) : (x \o d)[i] = x[i] BY <1>11, <1>14, Concat
  <2>4. Len(x \o d) = Len(x) + Len(d) /\ Len(x) \in Nat BY <1>11, <1>14, Concat
  <2> QED BY <1>6, <2>1, <2>2, <2>3, <2>4
<1> HIDE DEF y
<1>20. z \in Seq(Steps) /\ Within(z, S) /\ Opens(z, t)
  BY <1>7, <1>9, <1>10, <1>11, <1>18, WithinConcat, OpensConcat, Concat
<1>21. /\ \A i \in 1 .. Len(y) : z[i] = y[i]
       /\ z[Len(y) + 1] = e[1] /\ z[Len(y) + 2] = e[2] /\ Len(z) = Len(y) + 2
  <2>1. 1 \in 1 .. Len(e) /\ 2 \in 1 .. Len(e) BY <1>7
  <2>2. \A i \in 1 .. Len(e) : (y \o e)[Len(y) + i] = e[i] BY <1>11, <1>18, Concat
  <2>3. \A i \in 1 .. Len(y) : (y \o e)[i] = y[i] BY <1>11, <1>18, Concat
  <2>4. Len(y \o e) = Len(y) + Len(e) BY <1>11, <1>18, Concat
  <2> QED BY <1>7, <2>1, <2>2, <2>3, <2>4
<1> HIDE DEF z
<1>22. z \o f \in Seq(Steps) /\ Within(z \o f, S) /\ Opens(z \o f, t)
  BY <1>6, <1>9, <1>10, <1>11, <1>20, WithinConcat, OpensConcat, Concat
<1>23. /\ \A i \in 1 .. Len(z) : (z \o f)[i] = z[i]
       /\ (z \o f)[Len(z) + 1] = f[1] /\ Len(z \o f) = Len(z) + 1
  <2>1. 1 \in 1 .. Len(f) BY <1>6
  <2>2. \A i \in 1 .. Len(f) : (z \o f)[Len(z) + i] = f[i] BY <1>11, <1>20, Concat
  <2>3. \A i \in 1 .. Len(z) : (z \o f)[i] = z[i] BY <1>11, <1>20, Concat
  <2>4. Len(z \o f) = Len(z) + Len(f) BY <1>11, <1>20, Concat
  <2> QED BY <1>6, <2>1, <2>2, <2>3, <2>4
<1>24. DockerActivity(t) = z \o f BY <1>8 DEF x, y, z
<1>25. Gates(x) => Gates(z \o f)
  BY <1>11, <1>14, <1>18, <1>20, GatesConcat DEF y, z
<1>26. Calm(x) => Calm(z \o f)
  <2>1. /\ \A i \in 1 .. Len(d) : ~ Rebinds(d[i])
        /\ \A i \in 1 .. Len(e) : ~ Rebinds(e[i])
        /\ \A i \in 1 .. Len(f) : ~ Rebinds(f[i])
    BY <1>6, <1>7 DEF Within, Of, Rebinds, Socket, Docker
  <2>2. Calm(d) /\ Calm(e) /\ Calm(f) BY <2>1 DEF Calm
  <2>3. Calm(x) => Calm(y) BY <1>11, <1>14, <2>1, <2>2, CalmConcat DEF y
  <2>4. Calm(y) => Calm(z) BY <1>11, <1>18, <2>1, <2>2, CalmConcat DEF z
  <2>5. Calm(z) => Calm(z \o f) BY <1>11, <1>20, <2>1, <2>2, CalmConcat
  <2> QED BY <2>3, <2>4, <2>5
<1>27. Settles(z \o f)
  <2> DEFINE g == z \o f
             n == Len(x)
  <2>1. n \in Nat /\ Len(g) = n + 4 BY <1>19, <1>21, <1>23
  <2>2. \A i \in 1 .. n : g[i] = x[i]
    <3>1. ASSUME NEW i \in 1 .. n PROVE i \in 1 .. Len(y) /\ i \in 1 .. Len(z)
      BY <1>19, <1>21
    <3> QED BY <1>19, <1>21, <1>23, <3>1
  <2>3. g[n + 1] = d[1]
    <3>1. n + 1 \in 1 .. Len(y) /\ n + 1 \in 1 .. Len(z) BY <1>19, <1>21
    <3> QED BY <1>19, <1>21, <1>23, <3>1
  <2>4. g[n + 2] = e[1] /\ g[n + 3] = e[2]
    <3>1. /\ n + 2 \in 1 .. Len(z) /\ n + 3 \in 1 .. Len(z)
          /\ n + 2 = Len(y) + 1 /\ n + 3 = Len(y) + 2
      BY <1>19, <1>21
    <3> QED BY <1>21, <1>23, <3>1
  <2>5. g[n + 4] = f[1]
    <3>1. n + 4 = Len(z) + 1 BY <1>19, <1>21
    <3> QED BY <1>23, <3>1
  <2>6. /\ e[1].unit = Socket /\ e[1].op \in {"activity", "check"}
        /\ e[2].unit = Socket /\ e[2].op \in {"activity", "check"}
    <3>1. 1 \in 1 .. Len(e) /\ 2 \in 1 .. Len(e) BY <1>7
    <3> QED BY <1>7, <3>1 DEF Within, Of
  <2>7. f[1].op = "compare" /\ d[1].unit = Socket BY <1>6
  <2>8. g[n + 2].op # "settle" /\ g[n + 3].op # "settle" /\ g[n + 4].op # "settle"
    BY <2>4, <2>5, <2>6, <2>7
  <2> HIDE DEF g, n
  <2>9. ASSUME NEW i \in 1 .. Len(g), g[i].op = "settle" PROVE i = n + 1
    <3>1. i \notin 1 .. n BY <1>15, <2>2, <2>9 DEF n
    <3>2. i \in {n + 1, n + 2, n + 3, n + 4} BY <2>1, <3>1
    <3> QED BY <2>8, <2>9, <3>2
  <2>10. /\ g[n + 1].unit = Socket
         /\ n + 2 \in 1 .. Len(g) /\ g[n + 2].unit = Socket /\ g[n + 2].op \in {"activity", "check"}
         /\ n + 3 \in 1 .. Len(g) /\ g[n + 3].unit = Socket /\ g[n + 3].op \in {"activity", "check"}
         /\ n + 4 \in 1 .. Len(g) /\ g[n + 4].op = "compare"
    BY <2>1, <2>3, <2>4, <2>5, <2>6, <2>7
  <2>11. (n + 1) + 1 = n + 2 /\ (n + 1) + 2 = n + 3 /\ (n + 1) + 3 = n + 4 BY <2>1
  <2>12. Settles(g) BY <2>9, <2>10, <2>11 DEF Settles
  <2> QED BY <2>12 DEF g
<1> QED BY <1>16, <1>17, <1>22, <1>24, <1>25, <1>26, <1>27 DEF S

EnablementOps == {"enable", "final", "observe", "mask", "halt"}

LEMMA EnablementFacts ==
  ASSUME NEW t \in Targets
  PROVE  LET s == DockerEnablement(t)
         IN  /\ Within(s, InDocker(EnablementOps))
             /\ \A i \in 1 .. Len(s) : ~ Rebinds(s[i]) /\ (s[i].op = "enable" => ProveDocker(t))
<1> DEFINE T == {x \in InDocker(EnablementOps) :
                   ~ Rebinds(x) /\ (x.op = "enable" => ProveDocker(t))}
           q == Quarantine(Socket)
           n == Do("final", Socket)
           f == Finalize(t, Socket)
           r == IF TemporarySocket(t) THEN q \o n ELSE f
<1>1. Docker \in Units /\ Socket \in Units BY DEF Units, Trusted
<1>2. t[Docker].state = "enabled" => ProveDocker(t) BY DEF ProveDocker, NeedsActivationProof
<1>3. t[Socket].state = "enabled" => ProveDocker(t)
  BY DEF ProveDocker, ProveSocket, NeedsActivationProof
<1>4. Within(Finalize(t, Docker), T)
  <2>1. CASE t[Docker].state = "enabled"
    <3>1. Of(Docker, FinalOps) \subseteq T
      BY <1>2, <2>1 DEF Of, FinalOps, InDocker, DockerUnits, EnablementOps, Rebinds
    <3> HIDE DEF T
    <3> QED BY <1>1, <3>1, FinalizeFacts, WithinMore
  <2>2. CASE t[Docker].state # "enabled"
    <3>1. Of(Docker, {"final"}) \subseteq T
      BY DEF Of, InDocker, DockerUnits, EnablementOps, Rebinds
    <3> HIDE DEF T
    <3> QED BY <1>1, <2>2, <3>1, FinalizeFacts, WithinMore
  <2> QED BY <2>1, <2>2
<1>5. Within(f, T)
  <2>1. CASE t[Socket].state = "enabled"
    <3>1. Of(Socket, FinalOps) \subseteq T
      BY <1>3, <2>1 DEF Of, FinalOps, InDocker, DockerUnits, EnablementOps, Rebinds
    <3> HIDE DEF T
    <3> QED BY <1>1, <3>1, FinalizeFacts, WithinMore
  <2>2. CASE t[Socket].state # "enabled"
    <3>1. Of(Socket, {"final"}) \subseteq T
      BY DEF Of, InDocker, DockerUnits, EnablementOps, Rebinds
    <3> HIDE DEF T
    <3> QED BY <1>1, <2>2, <3>1, FinalizeFacts, WithinMore
  <2> QED BY <2>1, <2>2
<1>6. Within(q, T) /\ Within(n, T)
  <2>1. /\ Within(Do("observe", Socket), Of(Socket, {"observe"}))
        /\ Within(Do("mask", Socket), Of(Socket, {"mask"}))
        /\ Within(Do("halt", Socket), Of(Socket, {"halt"}))
        /\ Within(Do("final", Socket), Of(Socket, {"final"}))
    BY <1>1, DoFacts DEF Ops
  <2>2. \A op \in {"observe", "mask", "halt", "final"} : Of(Socket, {op}) \subseteq T
    BY DEF Of, InDocker, DockerUnits, EnablementOps, Rebinds, Socket, Docker
  <2> HIDE DEF T
  <2>3. /\ Within(Do("observe", Socket), T) /\ Within(Do("mask", Socket), T)
        /\ Within(Do("halt", Socket), T) /\ Within(Do("final", Socket), T)
    BY <2>1, <2>2, WithinMore
  <2> QED BY <2>3, WithinConcat DEF Quarantine
<1> HIDE DEF T, q, n, f
<1>7. Within(r, T) BY <1>5, <1>6, WithinConcat
<1>8. DockerEnablement(t) = Finalize(t, Docker) \o r BY DEF DockerEnablement, q, n, f
<1>9. Within(DockerEnablement(t), T) BY <1>4, <1>7, <1>8, WithinConcat
<1> QED BY <1>9 DEF Within, T

JointOps == {"identify", "gate", "audit", "conclude"}

(* The last step concludes, and follows an audit. *)
Concludes(s) ==
  /\ Len(s) \in Nat /\ Len(s) > 1 /\ s[Len(s) - 1].op = "audit"
  /\ \A i \in 1 .. Len(s) : s[i].op = "conclude" <=> i = Len(s)

LEMMA JointFacts ==
  ASSUME NEW t \in Targets
  PROVE  Within(JointProof(t), Of(Docker, JointOps)) /\ Concludes(JointProof(t))
<1> DEFINE S == Of(Docker, JointOps)
           a == Do("identify", Docker)
           g == Do("gate", Docker)
           b == When(FinalGateRequired(t), g)
           c == Do("audit", Docker)
           d == Do("conclude", Docker)
<1>1. Docker \in Units BY DEF Units, Trusted
<1>2. /\ Within(a, Of(Docker, {"identify"})) /\ Within(g, Of(Docker, {"gate"}))
      /\ Within(c, Of(Docker, {"audit"})) /\ Within(d, Of(Docker, {"conclude"}))
      /\ Len(c) = 1 /\ c[1].op = "audit" /\ Len(d) = 1 /\ d[1].op = "conclude"
  BY <1>1, DoFacts DEF Ops
<1>3. FinalGateRequired(t) \in BOOLEAN BY DEF FinalGateRequired
<1>4. Within(b, Of(Docker, {"gate"})) BY <1>2, <1>3, WithinWhen
<1>5. JointProof(t) = ((a \o b) \o c) \o d BY DEF JointProof
<1> HIDE DEF a, g, b, c, d
<1>6. Within(a, S) /\ Within(b, S) /\ Within(c, S) /\ Within(d, S)
  <2>1. \A op \in JointOps : Of(Docker, {op}) \subseteq S BY DEF Of
  <2> HIDE DEF S
  <2> QED BY <1>2, <1>4, <2>1, WithinMore DEF JointOps
<1>7. /\ a \in Seq(Steps) /\ b \in Seq(Steps) /\ c \in Seq(Steps) /\ d \in Seq(Steps)
  BY <1>6 DEF Within
<1> HIDE DEF S
<1> DEFINE x == a \o b
           y == x \o c
           z == y \o d
<1>8. x \in Seq(Steps) /\ Within(x, S) BY <1>6, <1>7, WithinConcat, Concat
<1>9. \A i \in 1 .. Len(x) : x[i].op # "conclude"
  <2>1. Within(x, Of(Docker, {"identify", "gate"}))
    <3>1. /\ Of(Docker, {"identify"}) \subseteq Of(Docker, {"identify", "gate"})
          /\ Of(Docker, {"gate"}) \subseteq Of(Docker, {"identify", "gate"})
      BY DEF Of
    <3>2. Within(a, Of(Docker, {"identify", "gate"})) /\ Within(b, Of(Docker, {"identify", "gate"}))
      BY <1>2, <1>4, <3>1, WithinMore
    <3> QED BY <3>2, WithinConcat
  <2> QED BY <2>1 DEF Within, Of
<1> HIDE DEF x
<1>10. /\ y \in Seq(Steps) /\ Within(y, S)
  BY <1>6, <1>7, <1>8, WithinConcat, Concat
<1>11. /\ Len(x) \in Nat /\ Len(y) = Len(x) + 1 /\ y[Len(y)].op = "audit"
       /\ \A i \in 1 .. Len(y) : y[i].op # "conclude"
  <2>1. 1 \in 1 .. Len(c) BY <1>2
  <2>2. \A i \in 1 .. Len(c) : (x \o c)[Len(x) + i] = c[i] BY <1>7, <1>8, Concat
  <2>3. \A i \in 1 .. Len(x) : (x \o c)[i] = x[i] BY <1>7, <1>8, Concat
  <2>4. Len(x \o c) = Len(x) + Len(c) /\ Len(x) \in Nat BY <1>7, <1>8, Concat
  <2>5. Len(y) = Len(x) + 1 /\ y[Len(x) + 1].op = "audit" BY <1>2, <2>1, <2>2, <2>4
  <2>6. ASSUME NEW i \in 1 .. Len(y) PROVE y[i].op # "conclude"
    <3>1. i \in 1 .. Len(x) \/ i = Len(x) + 1 BY <2>4, <2>5
    <3> QED BY <1>9, <2>3, <2>5, <3>1
  <2> QED BY <2>4, <2>5, <2>6
<1> HIDE DEF y
<1>12. Within(z, S) BY <1>6, <1>10, WithinConcat
<1>13. Concludes(z)
  <2>1. 1 \in 1 .. Len(d) BY <1>2
  <2>2. \A i \in 1 .. Len(d) : (y \o d)[Len(y) + i] = d[i] BY <1>7, <1>10, Concat
  <2>3. \A i \in 1 .. Len(y) : (y \o d)[i] = y[i] BY <1>7, <1>10, Concat
  <2>4. Len(y \o d) = Len(y) + Len(d) /\ Len(y) \in Nat BY <1>7, <1>10, Concat
  <2>5. Len(z) = Len(y) + 1 /\ z[Len(y) + 1].op = "conclude" BY <1>2, <2>1, <2>2, <2>4
  <2>6. ASSUME NEW i \in 1 .. Len(z) PROVE z[i].op = "conclude" <=> i = Len(z)
    <3>1. i \in 1 .. Len(y) \/ i = Len(y) + 1 BY <2>4, <2>5
    <3>2. i \in 1 .. Len(y) => i # Len(z) BY <2>4, <2>5
    <3> QED BY <1>11, <2>3, <2>5, <3>1, <3>2
  <2>7. Len(z) > 1 /\ Len(z) - 1 = Len(y) /\ Len(y) \in 1 .. Len(y) BY <1>11, <2>5
  <2>8. z[Len(z) - 1].op = "audit" BY <1>11, <2>3, <2>7
  <2>9. Len(z) \in Nat BY <2>4, <2>5
  <2> HIDE DEF z
  <2> QED BY <2>6, <2>7, <2>8, <2>9 DEF Concludes
<1> QED BY <1>5, <1>12, <1>13 DEF x, y, z, S

-----------------------------------------------------------------------------
(* The commit. *)

(* Docker and its socket are enabled only after the gate. *)
Guarded(s) ==
  \A i \in 1 .. Len(s) :
    s[i].op = "enable" /\ s[i].unit \in DockerUnits =>
      \E j \in 1 .. Len(s) : j < i /\ s[j].op = "gate"

(* The steps on an NVIDIA service come in one run that ends with its final check. *)
Keeps(s) ==
  \A i \in 1 .. Len(s) :
    s[i].unit \in Nvidia /\ s[i].op # "final" =>
      i + 1 \in 1 .. Len(s) /\ s[i + 1].unit = s[i].unit

(* The steps on Docker come last. *)
DockerLast(s) ==
  \A i, j \in 1 .. Len(s) : s[i].unit \in DockerUnits /\ i < j => s[j].unit \in DockerUnits

LEMMA KeepsConcat ==
  ASSUME NEW s \in Seq(Steps), NEW r \in Seq(Steps), Keeps(s), Keeps(r)
  PROVE  Keeps(s \o r)
<1> DEFINE c == s \o r
<1> SUFFICES ASSUME NEW i \in 1 .. Len(c), c[i].unit \in Nvidia, c[i].op # "final"
             PROVE  i + 1 \in 1 .. Len(c) /\ c[i + 1].unit = c[i].unit
  BY DEF Keeps
<1> HIDE DEF c
<1>1. CASE i \in 1 .. Len(s) /\ c[i] = s[i]
  <2>1. i + 1 \in 1 .. Len(s) /\ s[i + 1].unit = s[i].unit BY <1>1 DEF Keeps
  <2>2. c[i + 1] = s[i + 1] /\ i + 1 \in 1 .. Len(c) BY <2>1, Concat DEF c
  <2> QED BY <1>1, <2>1, <2>2
<1>2. CASE i - Len(s) \in 1 .. Len(r) /\ c[i] = r[i - Len(s)]
  <2> DEFINE k == i - Len(s)
  <2>1. k + 1 \in 1 .. Len(r) /\ r[k + 1].unit = r[k].unit BY <1>2 DEF Keeps
  <2>2. c[Len(s) + (k + 1)] = r[k + 1] /\ Len(s) + (k + 1) \in 1 .. Len(c) BY <2>1, Concat DEF c
  <2>3. Len(s) + (k + 1) = i + 1 BY Concat
  <2> QED BY <1>2, <2>1, <2>2, <2>3
<1> QED BY <1>1, <1>2, Concat DEF c

(* What the proofs use of the commit's script. *)
Orderly(s, t) ==
  /\ s \in Seq(Steps) /\ Opens(s, t) /\ Settles(s) /\ Proves(s) /\ Guarded(s) /\ Keeps(s)
  /\ DockerLast(s) /\ Concludes(s)
  /\ t[Docker].active => Calm(s) /\ \E j \in 1 .. Len(s) : j < Len(s) /\ s[j].op = "gate"

LEMMA StagedKeeps ==
  ASSUME NEW u \in Nvidia, NEW O, NEW s, Within(s, Of(u, O)), EndsIn(s, "final") PROVE Keeps(s)
<1>1. Len(s) \in Nat \ {0} /\ s[Len(s)].op = "final" BY DEF EndsIn
<1>2. \A i \in 1 .. Len(s) : s[i].unit = u BY DEF Within, Of
<1>3. \A i \in 1 .. Len(s) : i = Len(s) \/ i + 1 \in 1 .. Len(s) BY <1>1
<1> QED BY <1>1, <1>2, <1>3 DEF Keeps

LEMMA CommitFacts == ASSUME NEW t \in Targets PROVE Orderly(CommitScript(t), t)
<1> DEFINE a == Staged(t, FabricManager)
           b == Staged(t, Persistenced)
           c == DockerActivity(t)
           d == DockerEnablement(t)
           e == JointProof(t)
           N == {x \in Steps : x.unit \in Nvidia /\ x.op \in StagedOps}
           D == {x \in Steps : x.unit \in DockerUnits}
<1>1. FabricManager \in Nvidia /\ Persistenced \in Nvidia BY DEF Nvidia
<1>2. CommitScript(t) = (((a \o b) \o c) \o d) \o e BY DEF CommitScript
<1>3. /\ Within(a, N) /\ Opens(a, t) /\ Proves(a) /\ Keeps(a)
      /\ Within(b, N) /\ Opens(b, t) /\ Proves(b) /\ Keeps(b)
  <2>1. ASSUME NEW u \in Nvidia, NEW s, s = Staged(t, u)
        PROVE  Within(s, N) /\ Opens(s, t) /\ Proves(s) /\ Keeps(s)
    <3>1. /\ Within(s, Of(u, StagedOps)) /\ EndsIn(s, "final") /\ Opens(s, t) /\ Proves(s)
      BY <2>1, StagedFacts
    <3>2. Of(u, StagedOps) \subseteq N BY DEF Of
    <3> HIDE DEF N
    <3> QED BY <3>1, <3>2, WithinMore, StagedKeeps
  <2> QED BY <1>1, <2>1
<1>4. /\ Within(c, InDocker(ActivityOps)) /\ Opens(c, t) /\ Settles(c)
      /\ ProveDocker(t) => Gates(c)
      /\ t[Docker].active => Calm(c)
  BY ActivityFacts
<1>5. /\ Within(d, InDocker(EnablementOps))
      /\ \A i \in 1 .. Len(d) : ~ Rebinds(d[i]) /\ (d[i].op = "enable" => ProveDocker(t))
  BY EnablementFacts
<1>6. Within(e, Of(Docker, JointOps)) /\ Concludes(e) BY JointFacts
<1> HIDE DEF a, b, c, d, e
<1>7. Within(c, D) /\ Within(d, D) /\ Within(e, D)
  BY <1>4, <1>5, <1>6 DEF Within, InDocker, Of, DockerUnits
<1>8. /\ a \in Seq(Steps) /\ b \in Seq(Steps) /\ c \in Seq(Steps) /\ d \in Seq(Steps)
      /\ e \in Seq(Steps)
  BY <1>3, <1>7 DEF Within
<1>9. Opens(d, t) /\ Opens(e, t)
  <2>1. /\ \A x \in InDocker(EnablementOps) : x.op # "unmask"
        /\ \A x \in Of(Docker, JointOps) : x.op # "unmask"
    BY DEF InDocker, EnablementOps, Of, JointOps
  <2> QED BY <1>5, <1>6, <2>1, Quiet
<1>10. /\ Proves(c) /\ Proves(d) /\ Proves(e) /\ Keeps(c) /\ Keeps(d) /\ Keeps(e)
  <2>1. \A s \in {c, d, e} : \A i \in 1 .. Len(s) : s[i].unit \notin Nvidia
    BY <1>7 DEF Within, DockerUnits, Nvidia, Docker, Socket, FabricManager, Persistenced
  <2> QED BY <2>1 DEF Proves, Keeps
<1>11. /\ Settles(a) /\ Settles(b) /\ Settles(d) /\ Settles(e)
  <2>1. \A s \in {a, b, d, e} : \A i \in 1 .. Len(s) : s[i].op # "settle"
    BY <1>3, <1>5, <1>6
    DEF Within, StagedOps, PrepareOps, FinalOps, InDocker, EnablementOps, Of, JointOps
  <2> QED BY <2>1 DEF Settles
<1>12. ~ Gates(a) /\ ~ Gates(b) /\ Calm(a) /\ Calm(b)
  <2>1. \A x \in N : x.op # "gate" BY DEF StagedOps, PrepareOps, FinalOps
  <2> HIDE DEF N
  <2> QED BY <1>3, <2>1, Quiet
<1>13. \A i \in 1 .. Len(e) : ~ Rebinds(e[i]) BY <1>6 DEF Within, Of, JointOps, Rebinds
<1>14. Calm(d) /\ Calm(e) BY <1>5, <1>13 DEF Calm
<1>15. \A s \in {a, b, c, d} : \A i \in 1 .. Len(s) : s[i].op # "conclude"
  BY <1>3, <1>4, <1>5
  DEF Within, StagedOps, PrepareOps, FinalOps, InDocker, EnablementOps, ActivityOps
<1>16. \A i \in 1 .. Len(c) : c[i].op # "enable" BY <1>4 DEF Within, InDocker, ActivityOps
<1>17. \A i \in 1 .. Len(e) : e[i].op # "enable" BY <1>6 DEF Within, Of, JointOps
<1> DEFINE p == a \o b
           q == p \o c
           r == q \o d
           s == r \o e
<1>18. /\ p \in Seq(Steps) /\ Within(p, N) /\ Opens(p, t) /\ Settles(p) /\ Proves(p) /\ Keeps(p)
       /\ ~ Gates(p) /\ Calm(p)
  <2> HIDE DEF N
  <2>1. p \in Seq(Steps) BY <1>8, Concat
  <2>2. Within(p, N) BY <1>3, WithinConcat
  <2>3. Opens(p, t) /\ Settles(p) /\ Proves(p) /\ Keeps(p)
    BY <1>3, <1>8, <1>11, OpensConcat, SettlesConcat, ProvesConcat, KeepsConcat
  <2>4. ~ Gates(p) /\ Calm(p) BY <1>8, <1>12, GatesConcat, CalmConcat
  <2> QED BY <2>1, <2>2, <2>3, <2>4
<1>19. \A i \in 1 .. Len(p) : p[i].op # "conclude" BY <1>8, <1>15, Concat
<1>20. \A i \in 1 .. Len(p) : p[i].unit \notin DockerUnits
  BY <1>18 DEF Within, DockerUnits, Nvidia, Docker, Socket, FabricManager, Persistenced
<1> HIDE DEF p, N
<1>21. /\ q \in Seq(Steps) /\ Opens(q, t) /\ Settles(q) /\ Proves(q) /\ Keeps(q)
       /\ ProveDocker(t) => Gates(q)
       /\ t[Docker].active => Calm(q)
  <2>1. q \in Seq(Steps) BY <1>8, <1>18, Concat
  <2>2. Opens(q, t) /\ Settles(q) /\ Proves(q) /\ Keeps(q)
    BY <1>4, <1>8, <1>10, <1>18, OpensConcat, SettlesConcat, ProvesConcat, KeepsConcat
  <2>3. ProveDocker(t) => Gates(q) BY <1>4, <1>8, <1>18, GatesConcat
  <2>4. t[Docker].active => Calm(q) BY <1>4, <1>8, <1>18, CalmConcat
  <2> QED BY <2>1, <2>2, <2>3, <2>4
<1>22. \A i \in 1 .. Len(q) : q[i].op # "conclude" /\ (q[i].unit \in DockerUnits => q[i].op # "enable")
  <2> TAKE i \in 1 .. Len(q)
  <2>1. CASE i \in 1 .. Len(p) /\ q[i] = p[i] BY <1>19, <1>20, <2>1
  <2>2. CASE i - Len(p) \in 1 .. Len(c) /\ q[i] = c[i - Len(p)]
    <3>1. \A k \in 1 .. Len(c) : c[k].op # "conclude" /\ c[k].op # "enable" BY <1>15, <1>16
    <3> QED BY <2>2, <3>1
  <2> QED BY <1>8, <1>18, <2>1, <2>2, Concat
<1> HIDE DEF q
<1>23. /\ r \in Seq(Steps) /\ Opens(r, t) /\ Settles(r) /\ Proves(r) /\ Keeps(r)
       /\ ProveDocker(t) => Gates(r)
       /\ t[Docker].active => Calm(r)
  <2>1. r \in Seq(Steps) BY <1>8, <1>21, Concat
  <2>2. Opens(r, t) /\ Settles(r) /\ Proves(r) /\ Keeps(r)
    BY <1>8, <1>9, <1>10, <1>11, <1>21, OpensConcat, SettlesConcat, ProvesConcat, KeepsConcat
  <2>3. ProveDocker(t) => Gates(r) BY <1>8, <1>21, GatesConcat
  <2>4. t[Docker].active => Calm(r) BY <1>5, <1>8, <1>14, <1>21, CalmConcat
  <2> QED BY <2>1, <2>2, <2>3, <2>4
<1>24. \A i \in 1 .. Len(r) : r[i].op # "conclude"
  <2> TAKE i \in 1 .. Len(r)
  <2>1. CASE i \in 1 .. Len(q) /\ r[i] = q[i] BY <1>22, <2>1
  <2>2. CASE i - Len(q) \in 1 .. Len(d) /\ r[i] = d[i - Len(q)]
    <3>1. \A k \in 1 .. Len(d) : d[k].op # "conclude" BY <1>15
    <3> QED BY <2>2, <3>1
  <2> QED BY <1>8, <1>21, <2>1, <2>2, Concat
<1>25. Guarded(r)
  <2> SUFFICES ASSUME NEW i \in 1 .. Len(r), r[i].op = "enable", r[i].unit \in DockerUnits
               PROVE  \E j \in 1 .. Len(r) : j < i /\ r[j].op = "gate"
    BY DEF Guarded
  <2>1. i \notin 1 .. Len(q)
    <3>1. ASSUME i \in 1 .. Len(q) PROVE r[i] = q[i] BY <1>8, <1>21, <3>1, Concat
    <3> QED BY <1>22, <3>1
  <2>2. i - Len(q) \in 1 .. Len(d) /\ r[i] = d[i - Len(q)] BY <1>8, <1>21, <2>1, Concat
  <2>3. Gates(q) BY <1>5, <1>21, <2>2
  <2>4. PICK j \in 1 .. Len(q) : q[j].op = "gate" BY <2>3 DEF Gates
  <2>5. r[j] = q[j] /\ j \in 1 .. Len(r) BY <1>8, <1>21, Concat
  <2>6. j < i BY <2>1, <1>21
  <2> QED BY <2>4, <2>5, <2>6
<1> HIDE DEF r
<1>26. /\ s \in Seq(Steps) /\ Opens(s, t) /\ Settles(s) /\ Proves(s) /\ Keeps(s)
       /\ t[Docker].active => Calm(s)
  <2>1. s \in Seq(Steps) BY <1>8, <1>23, Concat
  <2>2. Opens(s, t) /\ Settles(s) /\ Proves(s) /\ Keeps(s)
    BY <1>8, <1>9, <1>10, <1>11, <1>23, OpensConcat, SettlesConcat, ProvesConcat, KeepsConcat
  <2>4. t[Docker].active => Calm(s) BY <1>8, <1>13, <1>14, <1>23, CalmConcat
  <2> QED BY <2>1, <2>2, <2>4
<1>27. /\ \A i \in 1 .. Len(r) : s[i] = r[i] /\ i \in 1 .. Len(s)
       /\ \A i \in 1 .. Len(e) : s[Len(r) + i] = e[i]
       /\ \A i \in 1 .. Len(s) : \/ i \in 1 .. Len(r)
                                 \/ i - Len(r) \in 1 .. Len(e) /\ i \notin 1 .. Len(r)
       /\ Len(r) \in Nat /\ Len(e) \in Nat /\ Len(s) = Len(r) + Len(e)
  BY <1>8, <1>23, Concat
<1>28. Guarded(s)
  <2> SUFFICES ASSUME NEW i \in 1 .. Len(s), s[i].op = "enable", s[i].unit \in DockerUnits
               PROVE  \E j \in 1 .. Len(s) : j < i /\ s[j].op = "gate"
    BY DEF Guarded
  <2>1. i \in 1 .. Len(r)
    <3>1. ASSUME i \notin 1 .. Len(r) PROVE FALSE
      <4>1. i - Len(r) \in 1 .. Len(e) /\ Len(r) + (i - Len(r)) = i BY <1>27, <3>1
      <4>2. s[i] = e[i - Len(r)] BY <1>27, <4>1
      <4> QED BY <1>17, <4>1, <4>2
    <3> QED BY <3>1
  <2> QED BY <1>25, <1>27, <2>1 DEF Guarded
<1>29. DockerLast(s)
  <2>1. Within(c \o d, D) BY <1>7, WithinConcat
  <2>2. ASSUME NEW i \in 1 .. Len(s), i \notin 1 .. Len(p) PROVE s[i].unit \in DockerUnits
    <3>1. CASE i \in 1 .. Len(q)
      <4>1. i - Len(p) \in 1 .. Len(c) /\ q[i] = c[i - Len(p)]
        BY <1>8, <1>18, <2>2, <3>1, Concat DEF q
      <4>2. r[i] = q[i] /\ i \in 1 .. Len(r) BY <1>8, <1>21, <3>1, Concat DEF r
      <4>3. s[i] = c[i - Len(p)] BY <1>27, <4>1, <4>2
      <4> QED BY <1>7, <4>1, <4>3 DEF Within
    <3>2. CASE i \notin 1 .. Len(q) /\ i \in 1 .. Len(r)
      <4>1. i - Len(q) \in 1 .. Len(d) /\ r[i] = d[i - Len(q)]
        BY <1>8, <1>21, <3>2, Concat DEF r
      <4>2. s[i] = d[i - Len(q)] BY <1>27, <3>2, <4>1
      <4> QED BY <1>7, <4>1, <4>2 DEF Within
    <3>3. CASE i \notin 1 .. Len(r)
      <4>1. i - Len(r) \in 1 .. Len(e) /\ Len(r) + (i - Len(r)) = i BY <1>27, <3>3
      <4>2. s[i] = e[i - Len(r)] BY <1>27, <4>1
      <4> QED BY <1>7, <4>1, <4>2 DEF Within
    <3> QED BY <3>1, <3>2, <3>3
  <2>3. \A i \in 1 .. Len(p) : i \in 1 .. Len(s) /\ s[i] = p[i]
    <3>1. \A i \in 1 .. Len(p) : q[i] = p[i] /\ i \in 1 .. Len(q) BY <1>8, <1>18, Concat DEF q
    <3>2. \A i \in 1 .. Len(q) : r[i] = q[i] /\ i \in 1 .. Len(r) BY <1>8, <1>21, Concat DEF r
    <3> QED BY <1>27, <3>1, <3>2
  <2> SUFFICES ASSUME NEW i \in 1 .. Len(s), NEW j \in 1 .. Len(s), s[i].unit \in DockerUnits, i < j
               PROVE  s[j].unit \in DockerUnits
    BY DEF DockerLast
  <2>4. i \notin 1 .. Len(p) BY <1>20, <2>3
  <2>5. Len(p) \in Nat BY <1>18
  <2>6. j \notin 1 .. Len(p) BY <2>4, <2>5
  <2> QED BY <2>2, <2>6
<1>30. Concludes(s)
  <2>1. /\ Len(e) > 1 /\ e[Len(e) - 1].op = "audit"
        /\ \A i \in 1 .. Len(e) : e[i].op = "conclude" <=> i = Len(e)
    BY <1>6 DEF Concludes
  <2>2. Len(s) \in Nat /\ Len(s) > 1 BY <1>27, <2>1
  <2>3. s[Len(s) - 1].op = "audit"
    <3>1. Len(e) - 1 \in 1 .. Len(e) /\ Len(s) - 1 = Len(r) + (Len(e) - 1) BY <1>27, <2>1
    <3>2. s[Len(r) + (Len(e) - 1)] = e[Len(e) - 1] BY <1>27, <3>1
    <3> QED BY <2>1, <3>1, <3>2
  <2>4. ASSUME NEW i \in 1 .. Len(s) PROVE s[i].op = "conclude" <=> i = Len(s)
    <3>1. CASE i \in 1 .. Len(r)
      <4>1. i # Len(s) BY <1>27, <2>1, <3>1
      <4> QED BY <1>24, <1>27, <3>1, <4>1
    <3>2. CASE i \notin 1 .. Len(r)
      <4>1. i - Len(r) \in 1 .. Len(e) /\ Len(r) + (i - Len(r)) = i BY <1>27, <3>2
      <4>2. s[i] = e[i - Len(r)] BY <1>27, <4>1
      <4>3. i - Len(r) = Len(e) <=> i = Len(s) BY <1>27
      <4> QED BY <2>1, <4>1, <4>2, <4>3
    <3> QED BY <3>1, <3>2
  <2> QED BY <2>2, <2>3, <2>4 DEF Concludes
<1>31. t[Docker].active => \E j \in 1 .. Len(s) : j < Len(s) /\ s[j].op = "gate"
  <2>1. SUFFICES ASSUME t[Docker].active PROVE \E j \in 1 .. Len(s) : j < Len(s) /\ s[j].op = "gate"
    OBVIOUS
  <2>2. Gates(r) BY <1>23, <2>1 DEF ProveDocker
  <2>3. PICK j \in 1 .. Len(r) : r[j].op = "gate" BY <2>2 DEF Gates
  <2>4. Len(e) > 1 BY <1>6 DEF Concludes
  <2>5. j < Len(s) /\ s[j] = r[j] /\ j \in 1 .. Len(s) BY <1>27, <2>4
  <2> QED BY <2>3, <2>5
<1>32. CommitScript(t) = s BY <1>2 DEF p, q, r
<1> HIDE DEF s
<1> QED BY <1>26, <1>28, <1>29, <1>30, <1>31, <1>32 DEF Orderly

NotProbing == {x \in Steps : x.op # "probe"}

LEMMA CommitOps == ASSUME NEW t \in Targets PROVE Within(CommitScript(t), NotProbing)
<1>1. FabricManager \in Nvidia /\ Persistenced \in Nvidia BY DEF Nvidia
<1>2. ASSUME NEW u \in Nvidia PROVE Within(Staged(t, u), NotProbing)
  <2>1. Of(u, StagedOps) \subseteq NotProbing
    BY DEF Of, StagedOps, PrepareOps, FinalOps, NotProbing
  <2> QED BY <2>1, StagedFacts, WithinMore
<1>3. Within(DockerActivity(t), NotProbing)
  <2>1. InDocker(ActivityOps) \subseteq NotProbing BY DEF InDocker, ActivityOps, NotProbing
  <2>2. Within(DockerActivity(t), InDocker(ActivityOps)) BY ActivityFacts
  <2> QED BY <2>1, <2>2, WithinMore
<1>4. Within(DockerEnablement(t), NotProbing)
  <2>1. InDocker(EnablementOps) \subseteq NotProbing BY DEF InDocker, EnablementOps, NotProbing
  <2>2. Within(DockerEnablement(t), InDocker(EnablementOps)) BY EnablementFacts
  <2> QED BY <2>1, <2>2, WithinMore
<1>5. Within(JointProof(t), NotProbing)
  <2>1. Of(Docker, JointOps) \subseteq NotProbing BY DEF Of, JointOps, NotProbing
  <2> QED BY <2>1, JointFacts, WithinMore
<1> DEFINE a == Staged(t, FabricManager)
           b == Staged(t, Persistenced)
           c == DockerActivity(t)
           d == DockerEnablement(t)
           e == JointProof(t)
<1>6. CommitScript(t) = (((a \o b) \o c) \o d) \o e BY DEF CommitScript
<1>7. Within(a, NotProbing) /\ Within(b, NotProbing) BY <1>1, <1>2
<1> HIDE DEF a, b, c, d, e
<1>8. Within(a \o b, NotProbing) BY <1>7, WithinConcat
<1>9. Within((a \o b) \o c, NotProbing) BY <1>3, <1>8, WithinConcat DEF c
<1>10. Within(((a \o b) \o c) \o d, NotProbing) BY <1>4, <1>9, WithinConcat DEF d
<1>11. Within((((a \o b) \o c) \o d) \o e, NotProbing) BY <1>5, <1>10, WithinConcat DEF e
<1> QED BY <1>6, <1>11

Appears(s, u) == \E j \in 1 .. Len(s) : s[j].unit = u

LEMMA AppearsConcat ==
  ASSUME NEW s \in Seq(Steps), NEW r \in Seq(Steps), NEW u, Appears(s, u) \/ Appears(r, u)
  PROVE  Appears(s \o r, u)
<1>1. CASE Appears(s, u)
  <2>1. PICK j \in 1 .. Len(s) : s[j].unit = u BY <1>1 DEF Appears
  <2>2. (s \o r)[j] = s[j] /\ j \in 1 .. Len(s \o r) BY Concat
  <2> QED BY <2>1, <2>2 DEF Appears
<1>2. CASE Appears(r, u)
  <2>1. PICK j \in 1 .. Len(r) : r[j].unit = u BY <1>2 DEF Appears
  <2>2. (s \o r)[Len(s) + j] = r[j] /\ Len(s) + j \in 1 .. Len(s \o r) BY Concat
  <2> QED BY <2>1, <2>2 DEF Appears
<1> QED BY <1>1, <1>2

(* Both NVIDIA services have their turn. *)
LEMMA NvidiaHasTurn ==
  ASSUME NEW t \in Targets, NEW u \in Nvidia
  PROVE  Appears(CommitScript(t), u)
<1> DEFINE a == Staged(t, FabricManager)
           b == Staged(t, Persistenced)
           c == DockerActivity(t)
           d == DockerEnablement(t)
           e == JointProof(t)
<1>1. FabricManager \in Nvidia /\ Persistenced \in Nvidia BY DEF Nvidia
<1>2. CommitScript(t) = (((a \o b) \o c) \o d) \o e BY DEF CommitScript
<1>3. ASSUME NEW v \in Nvidia, NEW s, s = Staged(t, v) PROVE s \in Seq(Steps) /\ Appears(s, v)
  <2>1. Within(s, Of(v, StagedOps)) /\ EndsIn(s, "final") BY <1>3, StagedFacts
  <2>2. Len(s) \in 1 .. Len(s) /\ s \in Seq(Steps) BY <2>1 DEF EndsIn, Within
  <2>3. s[Len(s)].unit = v BY <2>1, <2>2 DEF Within, Of
  <2> QED BY <2>2, <2>3 DEF Appears
<1>4. /\ a \in Seq(Steps) /\ Appears(a, FabricManager)
      /\ b \in Seq(Steps) /\ Appears(b, Persistenced)
  BY <1>1, <1>3
<1>5. c \in Seq(Steps) /\ d \in Seq(Steps) /\ e \in Seq(Steps)
  BY ActivityFacts, EnablementFacts, JointFacts DEF Within
<1> HIDE DEF a, b, c, d, e
<1>6. Appears(a, u) \/ Appears(b, u) BY <1>4 DEF Nvidia
<1>7. a \o b \in Seq(Steps) /\ Appears(a \o b, u) BY <1>4, <1>6, AppearsConcat, Concat
<1> DEFINE p == a \o b
           q == p \o c
           r == q \o d
<1> HIDE DEF p
<1>8. q \in Seq(Steps) /\ Appears(q, u) BY <1>5, <1>7, AppearsConcat, Concat DEF p
<1> HIDE DEF q
<1>9. r \in Seq(Steps) /\ Appears(r, u) BY <1>5, <1>8, AppearsConcat, Concat
<1> HIDE DEF r
<1>10. Appears(r \o e, u) BY <1>5, <1>9, AppearsConcat
<1> QED BY <1>2, <1>10 DEF p, q, r

-----------------------------------------------------------------------------
(* The quarantine and the emergency masks. *)

LEMMA Assoc ==
  ASSUME NEW s \in Seq(Steps), NEW r \in Seq(Steps), NEW v \in Seq(Steps)
  PROVE  s \o (r \o v) = (s \o r) \o v
BY ConcatAssociative

LEMMA OneMore ==
  ASSUME NEW s \in Seq(Steps), NEW op \in Ops, NEW u \in Units
  PROVE  /\ s \o Do(op, u) \in Seq(Steps)
         /\ Len(s \o Do(op, u)) = Len(s) + 1
         /\ \A i \in 1 .. Len(s) : (s \o Do(op, u))[i] = s[i]
         /\ (s \o Do(op, u))[Len(s) + 1].op = op /\ (s \o Do(op, u))[Len(s) + 1].unit = u
<1> DEFINE d == Do(op, u)
<1>1. d \in Seq(Steps) /\ Len(d) = 1 /\ d[1].op = op /\ d[1].unit = u BY DoFacts
<1> HIDE DEF d
<1>2. (s \o d)[Len(s) + 1] = d[1]
  <2>1. 1 \in 1 .. Len(d) BY <1>1
  <2>2. d \in Seq(Steps) BY <1>1
  <2>3. \A i \in 1 .. Len(d) : (s \o d)[Len(s) + i] = d[i] BY <2>2, Concat
  <2> QED BY <2>1, <2>3, Zenon
<1>3. /\ s \o d \in Seq(Steps) /\ Len(s \o d) = Len(s) + 1
      /\ \A i \in 1 .. Len(s) : (s \o d)[i] = s[i]
  <2>1. d \in Seq(Steps) /\ Len(d) = 1 BY <1>1
  <2>2. /\ s \o d \in Seq(Steps) /\ Len(s \o d) = Len(s) + Len(d)
        /\ \A i \in 1 .. Len(s) : (s \o d)[i] = s[i]
    BY <2>1, Concat
  <2> QED BY <2>1, <2>2
<1>4. (s \o d)[Len(s) + 1].op = op /\ (s \o d)[Len(s) + 1].unit = u BY <1>1, <1>2
<1>5. d = Do(op, u) BY DEF d
<1> QED BY <1>3, <1>4, <1>5, Zenon

LEMMA ThreeMore ==
  ASSUME NEW s \in Seq(Steps), NEW u \in Units
  PROVE  /\ s \o Quarantine(u) \in Seq(Steps)
         /\ Len(s \o Quarantine(u)) = Len(s) + 3
         /\ \A i \in 1 .. Len(s) : (s \o Quarantine(u))[i] = s[i]
         /\ (s \o Quarantine(u))[Len(s) + 1].op = "observe"
         /\ (s \o Quarantine(u))[Len(s) + 2].op = "mask"
         /\ (s \o Quarantine(u))[Len(s) + 2].unit = u
         /\ (s \o Quarantine(u))[Len(s) + 3].op = "halt"
<1>1. "observe" \in Ops /\ "mask" \in Ops /\ "halt" \in Ops BY DEF Ops
<1> DEFINE x == s \o Do("observe", u)
           y == x \o Do("mask", u)
           z == y \o Do("halt", u)
<1>2. /\ x \in Seq(Steps) /\ Len(x) = Len(s) + 1 /\ \A i \in 1 .. Len(s) : x[i] = s[i]
      /\ x[Len(s) + 1].op = "observe"
  BY <1>1, OneMore
<1> HIDE DEF x
<1>3. /\ y \in Seq(Steps) /\ Len(y) = Len(x) + 1 /\ \A i \in 1 .. Len(x) : y[i] = x[i]
      /\ y[Len(x) + 1].op = "mask" /\ y[Len(x) + 1].unit = u
  BY <1>1, <1>2, OneMore
<1> HIDE DEF y
<1>4. /\ z \in Seq(Steps) /\ Len(z) = Len(y) + 1 /\ \A i \in 1 .. Len(y) : z[i] = y[i]
      /\ z[Len(y) + 1].op = "halt"
  BY <1>1, <1>3, OneMore
<1> HIDE DEF z
<1>5. z = s \o Quarantine(u)
  <2> DEFINE a == Do("observe", u)
             b == Do("mask", u)
             c == Do("halt", u)
  <2>1. a \in Seq(Steps) /\ b \in Seq(Steps) /\ c \in Seq(Steps) BY <1>1, DoFacts
  <2>2. Quarantine(u) = (a \o b) \o c BY DEF Quarantine
  <2>3. z = ((s \o a) \o b) \o c BY DEF x, y, z
  <2> HIDE DEF a, b, c
  <2>4. a \o b \in Seq(Steps) BY <2>1, Concat
  <2>5. s \o ((a \o b) \o c) = (s \o (a \o b)) \o c BY <2>1, <2>4, Assoc, SMTT(20)
  <2>6. s \o (a \o b) = (s \o a) \o b BY <2>1, Assoc
  <2>7. z = s \o ((a \o b) \o c) BY <2>3, <2>5, <2>6, Zenon
  <2> QED BY <2>2, <2>7, Zenon
<1>6. Len(s) \in Nat OBVIOUS
<1>7. /\ z \in Seq(Steps) /\ Len(z) = Len(s) + 3
      /\ \A i \in 1 .. Len(s) : z[i] = s[i]
      /\ z[Len(s) + 1].op = "observe" /\ z[Len(s) + 2].op = "mask"
      /\ z[Len(s) + 2].unit = u /\ z[Len(s) + 3].op = "halt"
  <2>1. Len(x) = Len(s) + 1 /\ Len(y) = Len(s) + 2 /\ Len(z) = Len(s) + 3
    BY <1>2, <1>3, <1>4, <1>6
  <2>2. \A i \in 1 .. Len(s) : i \in 1 .. Len(x) /\ i \in 1 .. Len(y) BY <1>6, <2>1
  <2>3. ASSUME NEW i \in 1 .. Len(s) PROVE z[i] = s[i] BY <1>2, <1>3, <1>4, <2>2
  <2>4. Len(s) + 1 \in 1 .. Len(x) /\ Len(s) + 1 \in 1 .. Len(y) /\ Len(s) + 2 \in 1 .. Len(y)
    BY <1>6, <2>1
  <2>5. z[Len(s) + 1] = x[Len(s) + 1] BY <1>3, <1>4, <2>4
  <2>6. z[Len(s) + 2] = y[Len(s) + 2] BY <1>4, <2>4
  <2>7. Len(x) + 1 = Len(s) + 2 /\ Len(y) + 1 = Len(s) + 3 BY <1>6, <2>1
  <2> QED BY <1>2, <1>3, <1>4, <2>1, <2>3, <2>5, <2>6, <2>7
<1> QED BY <1>5, <1>7, Zenon

QuarantineOps == {"requiesce", "authenticate", "observe", "mask", "halt", "verify", "probe"}

LEMMA QuarantineFacts ==
  /\ QuarantineScript \in Seq(Steps) /\ Len(QuarantineScript) = 16
  /\ \A i \in 1 .. 16 : /\ QuarantineScript[i].op \in QuarantineOps
                        /\ QuarantineScript[i].op = "probe" <=> i = 16
                        /\ QuarantineScript[i].op = "verify" <=> i = 15
                        /\ i \in 1 .. 7 => QuarantineScript[i].op # "mask"
                                           \/ QuarantineScript[i].unit \in DockerUnits
  /\ QuarantineScript[4].op = "mask" /\ QuarantineScript[4].unit = Socket
  /\ QuarantineScript[7].op = "mask" /\ QuarantineScript[7].unit = Docker
<1>1. /\ Docker \in Units /\ Socket \in Units /\ Persistenced \in Units /\ FabricManager \in Units
  BY DEF Units, Trusted, Nvidia
<1>2. /\ QuarantineOrder[1] = Socket /\ QuarantineOrder[2] = Docker
      /\ QuarantineOrder[3] = Persistenced /\ QuarantineOrder[4] = FabricManager
  BY DEF QuarantineOrder
<1>3. "requiesce" \in Ops BY DEF Ops
<1> DEFINE a == Do("requiesce", Docker)
           b == a \o Do("authenticate", Docker)
           c == b \o Quarantine(Socket)
           d == c \o Quarantine(Docker)
           e == d \o Quarantine(Persistenced)
           f == e \o Quarantine(FabricManager)
           g == f \o Do("verify", Docker)
           h == g \o Do("probe", Docker)
<1>12. QuarantineScript = h BY <1>2 DEF QuarantineScript
<1>4. a \in Seq(Steps) /\ Len(a) = 1 /\ a[1].op = "requiesce"
  BY <1>1, <1>3, DoFacts
<1> HIDE DEF a
<1>5. /\ b \in Seq(Steps) /\ Len(b) = Len(a) + 1 /\ \A i \in 1 .. Len(a) : b[i] = a[i]
      /\ b[Len(a) + 1].op = "authenticate"
  <2>1. "authenticate" \in Ops BY DEF Ops
  <2> QED BY <1>1, <1>4, <2>1, OneMore
<1> HIDE DEF b
<1>6. /\ c \in Seq(Steps) /\ Len(c) = Len(b) + 3 /\ \A i \in 1 .. Len(b) : c[i] = b[i]
      /\ c[Len(b) + 1].op = "observe" /\ c[Len(b) + 2].op = "mask"
      /\ c[Len(b) + 3].op = "halt" /\ c[Len(b) + 2].unit = Socket
  BY <1>1, <1>5, ThreeMore
<1> HIDE DEF c
<1>7. /\ d \in Seq(Steps) /\ Len(d) = Len(c) + 3 /\ \A i \in 1 .. Len(c) : d[i] = c[i]
      /\ d[Len(c) + 1].op = "observe" /\ d[Len(c) + 2].op = "mask"
      /\ d[Len(c) + 3].op = "halt" /\ d[Len(c) + 2].unit = Docker
  BY <1>1, <1>6, ThreeMore, SMTT(20)
<1> HIDE DEF d
<1>8. /\ e \in Seq(Steps) /\ Len(e) = Len(d) + 3 /\ \A i \in 1 .. Len(d) : e[i] = d[i]
      /\ e[Len(d) + 1].op = "observe" /\ e[Len(d) + 2].op = "mask" /\ e[Len(d) + 3].op = "halt"
  BY <1>1, <1>7, ThreeMore
<1> HIDE DEF e
<1>9. /\ f \in Seq(Steps) /\ Len(f) = Len(e) + 3 /\ \A i \in 1 .. Len(e) : f[i] = e[i]
      /\ f[Len(e) + 1].op = "observe" /\ f[Len(e) + 2].op = "mask" /\ f[Len(e) + 3].op = "halt"
  BY <1>1, <1>8, ThreeMore
<1> HIDE DEF f
<1>10. /\ g \in Seq(Steps) /\ Len(g) = Len(f) + 1 /\ \A i \in 1 .. Len(f) : g[i] = f[i]
       /\ g[Len(f) + 1].op = "verify"
  <2>1. "verify" \in Ops BY DEF Ops
  <2> QED BY <1>1, <1>9, <2>1, OneMore
<1> HIDE DEF g
<1>11. /\ h \in Seq(Steps) /\ Len(h) = Len(g) + 1 /\ \A i \in 1 .. Len(g) : h[i] = g[i]
       /\ h[Len(g) + 1].op = "probe"
  <2>1. "probe" \in Ops BY DEF Ops
  <2> QED BY <1>1, <1>10, <2>1, OneMore
<1> HIDE DEF h
<1>13. Len(b) = 2 /\ b[1] = a[1] /\ b[2].op = "authenticate" BY <1>4, <1>5
<1>14. /\ Len(c) = 5 /\ \A i \in 1 .. 2 : c[i] = b[i]
       /\ c[3].op = "observe" /\ c[4].op = "mask" /\ c[5].op = "halt" /\ c[4].unit = Socket
  BY <1>6, <1>13
<1>15. /\ Len(d) = 8 /\ \A i \in 1 .. 5 : d[i] = c[i]
       /\ d[6].op = "observe" /\ d[7].op = "mask" /\ d[8].op = "halt" /\ d[7].unit = Docker
  BY <1>7, <1>14
<1>16. /\ Len(e) = 11 /\ \A i \in 1 .. 8 : e[i] = d[i]
       /\ e[9].op = "observe" /\ e[10].op = "mask" /\ e[11].op = "halt"
  BY <1>8, <1>15
<1>17. /\ Len(f) = 14 /\ \A i \in 1 .. 11 : f[i] = e[i]
       /\ f[12].op = "observe" /\ f[13].op = "mask" /\ f[14].op = "halt"
  BY <1>9, <1>16
<1>18. Len(g) = 15 /\ g[15].op = "verify" /\ \A i \in 1 .. 14 : g[i] = f[i] BY <1>10, <1>17
<1>19. Len(h) = 16 /\ h[16].op = "probe" /\ \A i \in 1 .. 15 : h[i] = g[i] BY <1>11, <1>18
<1>20. \A i \in 1 .. 11 : h[i] = e[i] BY <1>17, <1>18, <1>19
<1>21. \A i \in 1 .. 5 : h[i] = c[i] BY <1>15, <1>16, <1>20
<1>22. \A i \in 6 .. 8 : h[i] = d[i] BY <1>16, <1>20
<1>23. \A i \in 12 .. 14 : h[i] = f[i] BY <1>18, <1>19
<1>24. /\ h[1].op = "requiesce" /\ h[2].op = "authenticate" /\ h[3].op = "observe"
       /\ h[4].op = "mask" /\ h[4].unit = Socket /\ h[5].op = "halt"
  BY <1>4, <1>13, <1>14, <1>21
<1>25. /\ h[6].op = "observe" /\ h[7].op = "mask" /\ h[7].unit = Docker /\ h[8].op = "halt"
  BY <1>15, <1>22
<1>26. h[9].op = "observe" /\ h[10].op = "mask" /\ h[11].op = "halt" BY <1>16, <1>20
<1>27. h[12].op = "observe" /\ h[13].op = "mask" /\ h[14].op = "halt" BY <1>17, <1>23
<1>28. h[15].op = "verify" /\ h[16].op = "probe" BY <1>18, <1>19
<1>29. ASSUME NEW i \in 1 .. 16
       PROVE  /\ h[i].op \in QuarantineOps
              /\ h[i].op = "probe" <=> i = 16
              /\ h[i].op = "verify" <=> i = 15
              /\ i \in 1 .. 7 => h[i].op # "mask" \/ h[i].unit \in DockerUnits
  <2>1. i \in 1 .. 5 \/ i \in 6 .. 8 \/ i \in 9 .. 16 OBVIOUS
  <2>2. CASE i \in 1 .. 5
    <3>1. i = 1 \/ i = 2 \/ i = 3 \/ i = 4 \/ i = 5 BY <2>2
    <3> QED BY <1>24, <3>1 DEF QuarantineOps, DockerUnits
  <2>3. CASE i \in 6 .. 8
    <3>1. i = 6 \/ i = 7 \/ i = 8 BY <2>3
    <3> QED BY <1>25, <3>1 DEF QuarantineOps, DockerUnits
  <2>4. CASE i \in 9 .. 16
    <3>1. i = 9 \/ i = 10 \/ i = 11 \/ i = 12 \/ i = 13 \/ i = 14 \/ i = 15 \/ i = 16 BY <2>4
    <3> QED BY <1>26, <1>27, <1>28, <3>1 DEF QuarantineOps
  <2> QED BY <2>1, <2>2, <2>3, <2>4
<1>30. h \in Seq(Steps) BY <1>11
<1> QED BY <1>12, <1>19, <1>24, <1>25, <1>29, <1>30, Zenon

LEMMA EmergencyFacts ==
  /\ EmergencyScript \in Seq(Steps) /\ Len(EmergencyScript) = 5
  /\ \A i \in 1 .. 5 : EmergencyScript[i].op = IF i = 5 THEN "raise" ELSE "emergency"
<1>1. /\ Docker \in Units /\ Socket \in Units /\ Persistenced \in Units /\ FabricManager \in Units
  BY DEF Units, Trusted, Nvidia
<1>2. "emergency" \in Ops /\ "raise" \in Ops BY DEF Ops
<1> DEFINE a == Do("emergency", Socket)
           b == a \o Do("emergency", Docker)
           c == b \o Do("emergency", Persistenced)
           d == c \o Do("emergency", FabricManager)
           e == d \o Do("raise", Docker)
<1>3. EmergencyScript = e BY DEF EmergencyScript
<1>4. a \in Seq(Steps) /\ Len(a) = 1 /\ a[1].op = "emergency" BY <1>1, <1>2, DoFacts
<1> HIDE DEF a
<1>5. /\ b \in Seq(Steps) /\ Len(b) = Len(a) + 1 /\ \A i \in 1 .. Len(a) : b[i] = a[i]
      /\ b[Len(a) + 1].op = "emergency"
  BY <1>1, <1>2, <1>4, OneMore
<1> HIDE DEF b
<1>6. /\ c \in Seq(Steps) /\ Len(c) = Len(b) + 1 /\ \A i \in 1 .. Len(b) : c[i] = b[i]
      /\ c[Len(b) + 1].op = "emergency"
  BY <1>1, <1>2, <1>5, OneMore
<1> HIDE DEF c
<1>7. /\ d \in Seq(Steps) /\ Len(d) = Len(c) + 1 /\ \A i \in 1 .. Len(c) : d[i] = c[i]
      /\ d[Len(c) + 1].op = "emergency"
  BY <1>1, <1>2, <1>6, OneMore
<1> HIDE DEF d
<1>8. /\ e \in Seq(Steps) /\ Len(e) = Len(d) + 1 /\ \A i \in 1 .. Len(d) : e[i] = d[i]
      /\ e[Len(d) + 1].op = "raise"
  BY <1>1, <1>2, <1>7, OneMore
<1> HIDE DEF e
<1>9. Len(b) = 2 /\ b[2].op = "emergency" /\ b[1] = a[1] BY <1>4, <1>5
<1>10. Len(c) = 3 /\ c[3].op = "emergency" /\ c[1] = b[1] /\ c[2] = b[2] BY <1>6, <1>9
<1>11. Len(d) = 4 /\ d[4].op = "emergency" /\ d[1] = c[1] /\ d[2] = c[2] /\ d[3] = c[3]
  BY <1>7, <1>10
<1>12. /\ Len(e) = 5 /\ e[5].op = "raise"
       /\ e[1] = d[1] /\ e[2] = d[2] /\ e[3] = d[3] /\ e[4] = d[4]
  BY <1>8, <1>11
<1>13. /\ e[1].op = "emergency" /\ e[2].op = "emergency" /\ e[3].op = "emergency"
       /\ e[4].op = "emergency" /\ e[5].op = "raise"
  BY <1>4, <1>9, <1>10, <1>11, <1>12
<1>14. ASSUME NEW i \in 1 .. 5 PROVE e[i].op = IF i = 5 THEN "raise" ELSE "emergency"
  <2>1. i = 1 \/ i = 2 \/ i = 3 \/ i = 4 \/ i = 5 OBVIOUS
  <2> QED BY <1>13, <2>1
<1>15. e \in Seq(Steps) /\ Len(e) = 5 BY <1>8, <1>12
<1> QED BY <1>3, <1>14, <1>15, Zenon

-----------------------------------------------------------------------------
(* The invariant. *)

(* What is left of the commit's script, and what is done of it. *)
Pending(u)   == \E j \in step .. Len(Script) : Script[j].unit = u
Tested(u)    == \E j \in 1 .. Len(Script) : /\ j < step /\ Script[j].op = "check" /\ Script[j].on
                                            /\ Script[j].unit = u
GatePassed   == \E j \in 1 .. Len(Script) : j < step /\ Script[j].op = "gate"
IsExact(u)   == StateOf(u) = target[u].state

UnitRecords ==
  [active : SUBSET Units, masked : SUBSET Units, link : [Units -> UnitFileStates \ {"masked"}]]

(* The two halves of type correctness. *)
Data ==
  /\ units \in UnitRecords
  /\ audit \in [Units -> Target]
  /\ identity \in [Trusted -> {"none", "current", "stale"}]
  /\ workload \in BOOLEAN /\ gated \in BOOLEAN /\ proved \subseteq Units

Control ==
  /\ target \in Targets /\ requires \in Requires
  /\ mode \in {"commit", "quarantine", "retry", "emergency",
               "committed", "failed", "raised", "down"}
  /\ step \in Nat
  /\ Working => step \in 1 .. Len(Script)
  /\ quarantined \in BOOLEAN /\ finding \in {"none", "remasked", "notMasked"}

Typed == Data /\ Control

(* Behind the masks is what the snapshot keeps, but for enablement. *)
Hidden == \A u \in Units : units.link[u] \in HiddenLinks(target[u].state)

(* The NVIDIA services come first, each up to its exact state. *)
InOrder ==
  mode = "commit" =>
    /\ (\E u \in Nvidia : Pending(u)) => DockerUnits \subseteq units.masked
    /\ \A u \in Nvidia : Pending(u) \/ IsExact(u)

(* What the script has passed was proved. *)
Proving ==
  mode = "commit" =>
    /\ \A u \in Nvidia : Tested(u) => u \in proved
    /\ GatePassed => DockerUnits \subseteq proved

(* After the gate only the gated process has a current identity. *)
Bound ==
  mode = "commit" /\ target[Docker].active /\ GatePassed =>
    (identity[Docker] = "current" => gated)

(* The last audit's unit-file states are still those of the host. *)
Concluding == mode = "commit" /\ Doing("conclude") => \A u \in Units : audit[u].state = StateOf(u)

(* The quarantine masks the socket, Docker, then the others; what it concludes is so. *)
Masking ==
  mode \in {"quarantine", "retry"} =>
    /\ step \in 5 .. 15 => Socket \in units.masked
    /\ step \in 8 .. 15 => Docker \in units.masked
    /\ step = 16 /\ quarantined => units.masked = Units

Silence == Working => finding = "none"

IInv == /\ Typed /\ Hidden /\ InOrder /\ Proving /\ Bound /\ Concluding /\ Masking /\ Silence
        /\ EnabledAfterProof /\ DockerBehindNvidia

LEMMA Types == Typed => TypeOK
BY DEF Typed, Data, Control, TypeOK, UnitRecords

-----------------------------------------------------------------------------
(* How a step of the program looks. *)

LEMMA ScriptFacts ==
  ASSUME Typed, Working
  PROVE  /\ Script \in Seq(Steps) /\ step \in 1 .. Len(Script)
         /\ mode = "commit" => Script = CommitScript(target) /\ Orderly(Script, target)
         /\ mode \in {"quarantine", "retry"} => Script = QuarantineScript
         /\ mode = "emergency" => Script = EmergencyScript
<1>1. target \in Targets /\ step \in 1 .. Len(Script) BY DEF Typed, Control
<1>2. CASE mode = "commit"
  <2>1. Script = CommitScript(target) BY <1>1, <1>2 DEF Script, Commits
  <2>2. Orderly(CommitScript(target), target) BY <1>1, CommitFacts
  <2>3. Orderly(Script, target) BY <2>1, <2>2, Zenon
  <2>4. Script \in Seq(Steps) BY <2>3 DEF Orderly
  <2> QED BY <1>1, <1>2, <2>1, <2>3, <2>4
<1>3. CASE mode \in {"quarantine", "retry"}
  <2>1. Script = QuarantineScript BY <1>3 DEF Script
  <2> QED BY <1>1, <1>3, <2>1, QuarantineFacts
<1>4. CASE mode = "emergency"
  <2>1. Script = EmergencyScript BY <1>4 DEF Script
  <2> QED BY <1>1, <1>4, <2>1, EmergencyFacts
<1> QED BY <1>2, <1>3, <1>4 DEF Working

LEMMA CurrentFacts ==
  ASSUME Typed, Working
  PROVE  /\ Current \in Steps /\ Current.op \in Ops /\ Unit \in Units /\ Current.on \in BOOLEAN
         /\ mode = "commit" => Current.op # "probe"
         /\ mode \in {"quarantine", "retry"} => Current.op \in QuarantineOps
         /\ mode = "emergency" => Current.op \in {"emergency", "raise"}
<1>1. Script \in Seq(Steps) /\ step \in 1 .. Len(Script) BY ScriptFacts
<1>2. Script[step] \in Steps BY <1>1
<1>3. Current \in Steps BY <1>2 DEF Current
<1>4. Current.op \in Ops /\ Unit \in Units /\ Current.on \in BOOLEAN BY <1>3 DEF Steps, Unit
<1>5. ASSUME mode \in {"quarantine", "retry"} PROVE Current.op \in QuarantineOps
  <2>1. Script = QuarantineScript BY <1>5, ScriptFacts
  <2>2. step \in 1 .. 16 BY <1>1, <2>1, QuarantineFacts
  <2> QED BY <2>1, <2>2, QuarantineFacts DEF Current
<1>6. ASSUME mode = "emergency" PROVE Current.op \in {"emergency", "raise"}
  <2>1. Script = EmergencyScript BY <1>6, ScriptFacts
  <2>2. step \in 1 .. 5 BY <1>1, <2>1, EmergencyFacts
  <2> QED BY <2>1, <2>2, EmergencyFacts DEF Current
<1>7. ASSUME mode = "commit" PROVE Current.op # "probe"
  <2>1. Script = CommitScript(target) /\ target \in Targets
    BY <1>7, ScriptFacts DEF Typed, Control
  <2>2. Within(Script, NotProbing) BY <2>1, CommitOps
  <2> QED BY <1>1, <2>2 DEF Within, NotProbing, Current
<1> QED BY <1>3, <1>4, <1>5, <1>6, <1>7

(* What the step does to the unit files, if it does it. *)
Same == units'.masked = units.masked /\ units'.link = units.link
Relinked(s) ==
  [units.link EXCEPT ![Unit] = IF @ \in {"enabled", "disabled"} THEN s ELSE @]
Effect ==
  CASE Current.op = "unmask" ->
         units'.masked = units.masked \ {Unit} /\ units'.link = units.link
    [] Current.op \in {"mask", "emergency"} ->
         units'.masked = units.masked \cup {Unit} /\ units'.link = units.link
    [] Current.op = "disable" -> units'.masked = units.masked /\ units'.link = Relinked("disabled")
    [] Current.op = "enable"  -> units'.masked = units.masked /\ units'.link = Relinked("enabled")
    [] OTHER -> Same

(* Where the program goes. *)
Onward ==
  /\ mode' = mode /\ UNCHANGED <<quarantined, finding>>
  /\ Current.op \notin {"conclude", "probe", "raise"}
  /\ step' = step + 1 \/ (Current.op = "settle" /\ step' = step + 3)
Leaving == (mode # "emergency" /\ GiveUp) \/ Unwind
Ending ==
  /\ step' = step /\ UNCHANGED quarantined
  /\ finding' \in {"none", "remasked", "notMasked"}
  /\ \/ /\ mode' = "committed" /\ Doing("conclude") /\ audit = target /\ UNCHANGED finding
        /\ IdentitiesHold
     \/ /\ mode' \in {"failed", "raised"} /\ Current.op \in {"probe", "raise"}
        /\ mode' = "failed" => mode # "retry" /\ Doing("probe") /\ (finding' = "none" => quarantined)

Shape ==
  /\ Working /\ target' = target /\ requires' = requires
  /\ \/ /\ Onward /\ (Effect \/ (mode = "emergency" /\ Same))
        /\ Current.op = "verify" => units.masked = Units
     \/ Leaving /\ (Effect \/ Same)
     \/ Ending /\ Same

(* What a step that succeeds has seen. *)
Seen ==
  /\ proved \subseteq proved'
  /\ mode = "commit" /\ mode' = "commit" =>
       /\ Current.op = "check" /\ Current.on /\ Unit \in Nvidia => Unit \in proved'
       /\ Current.op = "gate" => DockerUnits \subseteq proved' /\ gated'
       /\ Current.op = "final" => IsExact(Unit)
       /\ Current.op = "audit" => audit' = Observed

(* Only a few steps take a new process for the one to trust. *)
Binding ==
  identity'[Docker] = "current" =>
    /\ gated => gated'
    /\ identity[Docker] = "current" \/ Rebinds(Current)

LEMMA Kept ==
  ASSUME Data, NEW ids \in [Trusted -> {"none", "current", "stale"}], NEW g \in BOOLEAN, Keep(ids, g)
  PROVE  /\ identity' \in [Trusted -> {"none", "current", "stale"}] /\ gated' \in BOOLEAN
         /\ identity'[Docker] = "current" => ids[Docker] = "current" /\ (g => gated')
<1>1. Docker \in Trusted BY DEF Trusted
<1>2. identity' = [u \in Trusted |->
        IF ids[u] = "current" /\ u \notin units'.active THEN "stale" ELSE ids[u]]
  BY DEF Keep
<1>3. gated' = (g /\ Docker \in units'.active) BY DEF Keep
<1>4. \A u \in Trusted : identity'[u] \in {"none", "current", "stale"} BY <1>2
<1>5. identity' \in [Trusted -> {"none", "current", "stale"}] BY <1>2, <1>4
<1>6. identity'[Docker] =
        IF ids[Docker] = "current" /\ Docker \notin units'.active THEN "stale" ELSE ids[Docker]
  BY <1>1, <1>2
<1>7. gated' \in BOOLEAN BY <1>3
<1> QED BY <1>3, <1>5, <1>6, <1>7

LEMMA KeptAll ==
  ASSUME Data, KeepAll
  PROVE  /\ identity' \in [Trusted -> {"none", "current", "stale"}] /\ gated' \in BOOLEAN /\ Binding
<1>1. identity \in [Trusted -> {"none", "current", "stale"}] /\ gated \in BOOLEAN BY DEF Data
<1>2. Keep(identity, gated) BY DEF KeepAll
<1> QED BY <1>1, <1>2, Kept DEF Binding

(* A step with systemctl calls: done, left, or, of the emergency masks, passed over. *)
LEMMA Attempted ==
  ASSUME NEW op, op \notin {"conclude", "probe", "raise"}, NEW ok \in BOOLEAN, NEW after,
         Attempt(op, ok, after)
  PROVE  /\ Working /\ Current.op = op /\ target' = target /\ requires' = requires
         /\ workload' = workload
         /\ \/ Onward /\ ok /\ units' = after
            \/ Onward /\ mode = "emergency" /\ units' \in {units, after}
            \/ Leaving /\ units' \in {units, after}
<1>1. Working /\ Current.op = op BY DEF Attempt, Doing
<1>2. target' = target /\ requires' = requires /\ workload' = workload
  BY DEF Attempt, request
<1>3. \/ ok /\ units' = after /\ Continue
      \/ units' \in {units, after} /\ (GiveUp \/ Unwind)
  BY DEF Attempt
<1>4. CASE ok /\ units' = after /\ Continue
  BY <1>1, <1>4, <1>2 DEF Continue, Onward
<1>5. CASE units' \in {units, after} /\ (GiveUp \/ Unwind)
  <2>1. CASE mode # "emergency" BY <1>1, <1>2, <1>5, <2>1 DEF Leaving
  <2>2. CASE mode = "emergency"
    <3>1. Continue \/ Unwind BY <1>5, <2>2 DEF GiveUp
    <3> QED BY <1>1, <1>2, <1>5, <2>2, <3>1 DEF Continue, Onward, Leaving
  <2> QED BY <2>1, <2>2
<1> QED BY <1>3, <1>4, <1>5

LEMMA UnitFacts ==
  ASSUME Data, NEW u \in Units
  PROVE  /\ Started(u) \in UnitRecords
         /\ Started(u).masked = units.masked /\ Started(u).link = units.link
         /\ Stopped(u) \in UnitRecords
         /\ Stopped(u).masked = units.masked /\ Stopped(u).link = units.link
         /\ Unmasked(u) \in UnitRecords
         /\ Unmasked(u).masked = units.masked \ {u} /\ Unmasked(u).link = units.link
         /\ Masked(u) \in UnitRecords
         /\ Masked(u).masked = units.masked \cup {u} /\ Masked(u).link = units.link
         /\ MaskedNow(u) \in UnitRecords
         /\ MaskedNow(u).masked = units.masked \cup {u} /\ MaskedNow(u).link = units.link
<1>1. units \in UnitRecords BY DEF Data
<1>2. Needed(u) \subseteq Units /\ Dependent(u) \subseteq Units
  BY DEF Needed, Dependent, Units, Trusted
<1>3. /\ units.active \subseteq Units /\ units.masked \subseteq Units
      /\ units.link \in [Units -> UnitFileStates \ {"masked"}]
      /\ units = [active |-> units.active, masked |-> units.masked, link |-> units.link]
  BY <1>1 DEF UnitRecords
<1>4. Started(u) = [active |-> units.active \cup Needed(u), masked |-> units.masked,
                    link |-> units.link]
  BY <1>3 DEF Started
<1>5. Stopped(u) = [active |-> units.active \ Dependent(u), masked |-> units.masked,
                    link |-> units.link]
  BY <1>3 DEF Stopped
<1>6. Unmasked(u) = [active |-> units.active, masked |-> units.masked \ {u}, link |-> units.link]
  BY <1>3 DEF Unmasked
<1>7. Masked(u) = [active |-> units.active, masked |-> units.masked \cup {u}, link |-> units.link]
  BY <1>3 DEF Masked
<1>8. MaskedNow(u) = [active |-> units.active \ Dependent(u), masked |-> units.masked \cup {u},
                      link |-> units.link]
  <2>1. PICK v : v = Stopped(u) OBVIOUS
  <2>2. MaskedNow(u) = [v EXCEPT !.masked = @ \cup {u}] BY <2>1 DEF MaskedNow
  <2>3. v = [active |-> units.active \ Dependent(u), masked |-> units.masked,
             link |-> units.link]
    BY <1>5, <2>1
  <2> QED BY <2>2, <2>3
<1> QED BY <1>2, <1>3, <1>4, <1>5, <1>6, <1>7, <1>8 DEF UnitRecords

LEMMA LinkFacts ==
  ASSUME Data, NEW u \in Units, NEW s \in {"enabled", "disabled"}
  PROVE  /\ Linked(u, s) \in UnitRecords /\ Linked(u, s).masked = units.masked
         /\ Linked(u, s).link =
              [units.link EXCEPT ![u] = IF @ \in {"enabled", "disabled"} THEN s ELSE @]
<1>1. units \in UnitRecords BY DEF Data
<1>2. units.link \in [Units -> UnitFileStates \ {"masked"}] BY <1>1 DEF UnitRecords
<1> DEFINE l == [units.link EXCEPT ![u] = IF @ \in {"enabled", "disabled"} THEN s ELSE @]
<1>3. l \in [Units -> UnitFileStates \ {"masked"}]
  <2>1. s \in UnitFileStates \ {"masked"} BY DEF UnitFileStates
  <2> QED BY <1>2, <2>1
<1>4. Linked(u, s) = [units EXCEPT !.link = l] BY <1>1 DEF Linked, UnitRecords
<1> HIDE DEF l
<1>5. Linked(u, s) = [active |-> units.active, masked |-> units.masked, link |-> l]
  BY <1>1, <1>4 DEF UnitRecords
<1>6. Linked(u, s) \in UnitRecords BY <1>1, <1>3, <1>5 DEF UnitRecords
<1> QED BY <1>5, <1>6 DEF l

LEMMA ObservedFacts ==
  ASSUME Data PROVE Observed \in [Units -> Target]
<1>1. units \in UnitRecords BY DEF Data
<1>2. \A u \in Units : StateOf(u) \in UnitFileStates
  BY <1>1 DEF StateOf, UnitRecords, UnitFileStates
<1> QED BY <1>2 DEF Observed, Target

LEMMA Moved ==
  ASSUME Typed, NEW op, op \notin {"conclude", "probe", "raise"}, NEW ok \in BOOLEAN,
         NEW after \in UnitRecords, Attempt(op, ok, after), units' = after => Effect,
         op = "verify" => (ok => units.masked = Units)
  PROVE  /\ Shape /\ units' \in UnitRecords /\ workload' \in BOOLEAN
         /\ Working /\ Current.op = op /\ Current.op \in Ops /\ Unit \in Units /\ Current.on \in BOOLEAN
         /\ mode = "commit" /\ mode' = "commit" => ok /\ units' = after
<1>1. /\ Working /\ Current.op = op /\ target' = target /\ requires' = requires
      /\ workload' = workload
      /\ \/ Onward /\ ok /\ units' = after
         \/ Onward /\ mode = "emergency" /\ units' \in {units, after}
         \/ Leaving /\ units' \in {units, after}
  BY Attempted
<1>2. units \in UnitRecords /\ workload \in BOOLEAN BY DEF Typed, Data
<1>3. units' = units => Same BY DEF Same
<1>4. Leaving => ~ (mode = "commit" /\ mode' = "commit")
  BY DEF Leaving, GiveUp, Unwind, Goto
<1>5. mode = "emergency" => op # "verify" BY <1>1, CurrentFacts
<1> QED BY <1>1, <1>2, <1>3, <1>4, <1>5, CurrentFacts DEF Shape

Outcome == Shape /\ Seen /\ Binding /\ Data'

(* An attempt that proves nothing about a unit and takes no new process. *)
LEMMA Plainly ==
  ASSUME Typed, NEW op, op \notin {"conclude", "probe", "raise", "check", "gate"}, NEW ok \in BOOLEAN,
         NEW after \in UnitRecords, Attempt(op, ok, after), units' = after => Effect,
         op = "verify" => (ok => units.masked = Units), op = "final" => (ok => IsExact(Unit)),
         op = "audit" => audit' = Observed, Plain, audit' \in [Units -> Target]
  PROVE  Outcome
<1>1. /\ Shape /\ units' \in UnitRecords /\ workload' \in BOOLEAN /\ Current.op = op
      /\ mode = "commit" /\ mode' = "commit" => ok
  BY Moved
<1>2. KeepAll /\ proved' = proved BY DEF Plain
<1>3. Data BY DEF Typed
<1>4. identity' \in [Trusted -> {"none", "current", "stale"}] /\ gated' \in BOOLEAN /\ Binding
  BY <1>2, <1>3, KeptAll
<1>5. Seen BY <1>1, <1>2 DEF Seen
<1>6. Data' BY <1>1, <1>2, <1>3, <1>4 DEF Data
<1> QED BY <1>1, <1>4, <1>5, <1>6 DEF Outcome

LEMMA DoingFacts ==
  ASSUME Typed, NEW op, Doing(op)
  PROVE  Working /\ Current.op = op /\ Unit \in Units /\ Current.on \in BOOLEAN
<1>1. Working /\ Current.op = op BY DEF Doing
<1> QED BY <1>1, CurrentFacts

(* The steps that touch the unit files. *)
LEMMA FileSteps ==
  ASSUME Typed, Unmask \/ Disable \/ Enable \/ Mask \/ EmergencyMask
  PROVE  Outcome
<1>1. Data /\ audit \in [Units -> Target] BY DEF Typed, Data
<1>2. ASSUME Unmask PROVE Outcome
  <2>1. Attempt("unmask", audit[Unit].state = "masked", Unmasked(Unit)) /\ audit' = audit /\ Plain
    BY <1>2 DEF Unmask
  <2>2. Current.op = "unmask" /\ Unit \in Units BY <2>1, DoingFacts DEF Attempt
  <2>3. Unmasked(Unit) \in UnitRecords /\ (units' = Unmasked(Unit) => Effect)
    BY <1>1, <2>2, UnitFacts DEF Effect
  <2> QED BY <1>1, <2>1, <2>3, Plainly
<1>3. ASSUME Disable PROVE Outcome
  <2>1. /\ Attempt("disable", units.link[Unit] # "not-found", Linked(Unit, "disabled"))
        /\ audit' = audit /\ Plain
    BY <1>3 DEF Disable
  <2>2. Current.op = "disable" /\ Unit \in Units BY <2>1, DoingFacts DEF Attempt
  <2>3. Linked(Unit, "disabled") \in UnitRecords /\ (units' = Linked(Unit, "disabled") => Effect)
    BY <1>1, <2>2, LinkFacts DEF Effect, Relinked
  <2> QED BY <1>1, <2>1, <2>3, Plainly
<1>4. ASSUME Enable PROVE Outcome
  <2>1. /\ Attempt("enable", audit[Unit].state = Current.state /\ units.link[Unit] # "not-found",
                   Linked(Unit, "enabled"))
        /\ audit' = audit /\ Plain
    BY <1>4 DEF Enable
  <2>2. Current.op = "enable" /\ Unit \in Units BY <2>1, DoingFacts DEF Attempt
  <2>3. Linked(Unit, "enabled") \in UnitRecords /\ (units' = Linked(Unit, "enabled") => Effect)
    BY <1>1, <2>2, LinkFacts DEF Effect, Relinked
  <2> QED BY <1>1, <2>1, <2>3, Plainly
<1>5. ASSUME Mask PROVE Outcome
  <2>1. Attempt("mask", TRUE, Masked(Unit)) /\ audit' = audit /\ Plain BY <1>5, Zenon DEF Mask
  <2>2. Current.op = "mask" /\ Unit \in Units BY <2>1, DoingFacts DEF Attempt
  <2>3. Masked(Unit) \in UnitRecords /\ (units' = Masked(Unit) => Effect)
    BY <1>1, <2>2, UnitFacts DEF Effect
  <2> QED BY <1>1, <2>1, <2>3, Plainly
<1>6. ASSUME EmergencyMask PROVE Outcome
  <2>1. Attempt("emergency", TRUE, MaskedNow(Unit)) /\ audit' = audit /\ Plain
    BY <1>6, Zenon DEF EmergencyMask
  <2>2. Current.op = "emergency" /\ Unit \in Units BY <2>1, DoingFacts DEF Attempt
  <2>3. MaskedNow(Unit) \in UnitRecords /\ (units' = MaskedNow(Unit) => Effect)
    BY <1>1, <2>2, UnitFacts DEF Effect
  <2> QED BY <1>1, <2>1, <2>3, Plainly
<1> QED BY <1>2, <1>3, <1>4, <1>5, <1>6

(* The steps that only look. *)
LEMMA Looks ==
  ASSUME Typed, CheckPrepared \/ CheckFinal \/ Identify \/ JointAudit \/ Authenticate \/ Verify
  PROVE  Outcome
<1>1. Data /\ audit \in [Units -> Target] /\ units \in UnitRecords BY DEF Typed, Data
<1>2. Observed \in [Units -> Target] BY <1>1, ObservedFacts
<1>3. ASSUME NEW op, op \in {"prepared", "final", "identify", "audit", "authenticate", "verify"},
             Doing(op)
      PROVE  units' = units => Effect
  BY <1>3, DoingFacts DEF Effect, Same
<1>4. ASSUME CheckPrepared PROVE Outcome
  <2>1. /\ Attempt("prepared", Unit \notin units.active /\ StateOf(Unit) = Current.state, units)
        /\ audit' = Observed /\ Plain
    BY <1>4 DEF CheckPrepared, Inspect, Read
  <2>2. units' = units => Effect BY <1>3, <2>1 DEF Attempt
  <2> QED BY <1>1, <1>2, <2>1, <2>2, Plainly
<1>5. ASSUME CheckFinal PROVE Outcome
  <2>1. Attempt("final", Exactly(Unit), units) /\ audit' = Observed /\ Plain
    BY <1>5 DEF CheckFinal, Inspect, Read
  <2>2. units' = units => Effect BY <1>3, <2>1 DEF Attempt
  <2>3. Exactly(Unit) \in BOOLEAN /\ (Exactly(Unit) => IsExact(Unit)) BY DEF Exactly, IsExact
  <2> QED BY <1>1, <1>2, <2>1, <2>2, <2>3, Plainly
<1>6. ASSUME Identify PROVE Outcome
  <2>1. Attempt("identify", IdentitiesHold, units) /\ audit' = audit /\ Plain BY <1>6 DEF Identify
  <2>2. units' = units => Effect BY <1>3, <2>1 DEF Attempt
  <2>3. IdentitiesHold \in BOOLEAN BY DEF IdentitiesHold
  <2> QED BY <1>1, <2>1, <2>2, <2>3, Plainly
<1>7. ASSUME JointAudit PROVE Outcome
  <2>1. Attempt("audit", TRUE, units) /\ audit' = Observed /\ Plain
    BY <1>7, Zenon DEF JointAudit, Inspect, Read
  <2>2. units' = units => Effect BY <1>3, <2>1 DEF Attempt
  <2> QED BY <1>1, <1>2, <2>1, <2>2, Plainly
<1>8. ASSUME Authenticate PROVE Outcome
  <2>1. Attempt("authenticate", TRUE, units) /\ audit' = audit /\ Plain BY <1>8, Zenon DEF Authenticate
  <2>2. units' = units => Effect BY <1>3, <2>1 DEF Attempt
  <2> QED BY <1>1, <2>1, <2>2, Plainly
<1>9. ASSUME Verify PROVE Outcome
  <2>1. Attempt("verify", AllQuarantined, units) /\ audit' = Observed /\ Plain
    BY <1>9 DEF Verify, Inspect, Read
  <2>2. units' = units => Effect BY <1>3, <2>1 DEF Attempt
  <2>3. AllQuarantined \in BOOLEAN /\ (AllQuarantined => units.masked = Units)
    BY DEF AllQuarantined
  <2> QED BY <1>1, <1>2, <2>1, <2>2, <2>3, Plainly
<1> QED BY <1>4, <1>5, <1>6, <1>7, <1>8, <1>9

(* A unit whose process is taken for the one to trust. *)
LEMMA Rebound ==
  ASSUME Typed, Unit \in Trusted, Rebinds(Current) \/ Unit # Docker,
         Keep([identity EXCEPT ![Unit] = "current"], gated)
  PROVE  /\ identity' \in [Trusted -> {"none", "current", "stale"}] /\ gated' \in BOOLEAN /\ Binding
<1> DEFINE ids == [identity EXCEPT ![Unit] = "current"]
<1>1. Data /\ identity \in [Trusted -> {"none", "current", "stale"}] /\ gated \in BOOLEAN
  BY DEF Typed, Data
<1>2. ids \in [Trusted -> {"none", "current", "stale"}] BY <1>1
<1>3. ids[Docker] = "current" => identity[Docker] = "current" \/ Unit = Docker
  BY <1>1 DEF Trusted
<1>4. Keep(ids, gated) OBVIOUS
<1> HIDE DEF ids
<1>5. /\ identity' \in [Trusted -> {"none", "current", "stale"}] /\ gated' \in BOOLEAN
      /\ identity'[Docker] = "current" => ids[Docker] = "current" /\ (gated => gated')
  BY <1>1, <1>2, <1>4, Kept
<1> QED BY <1>3, <1>5 DEF Binding

LEMMA ActivateStep == ASSUME Typed, Activate PROVE Outcome
<1> DEFINE seen  == audit[Unit].active
           start == Current.on /\ ~seen
           stop  == ~Current.on /\ seen
           runs  == Unit \in units.active
           ok    == /\ audit[Unit].state = Current.state
                    /\ start => Startable(Unit)
                    /\ Unit \in Trusted => (start => ~runs) /\ (seen => runs)
           after == IF start THEN Started(Unit) ELSE IF stop THEN Stopped(Unit) ELSE units
<1>1. /\ Attempt("activity", ok, after)
      /\ IF Current.on /\ Unit \in Trusted
         THEN Keep([identity EXCEPT ![Unit] = "current"], gated) ELSE KeepAll
      /\ audit' = audit /\ proved' = proved
  BY DEF Activate
<1>2. Data /\ audit \in [Units -> Target] /\ units \in UnitRecords /\ proved \subseteq Units
  BY DEF Typed, Data
<1>3. Current.op = "activity" /\ Unit \in Units BY <1>1, DoingFacts DEF Attempt
<1>4. /\ after \in UnitRecords /\ after.masked = units.masked /\ after.link = units.link
  BY <1>2, <1>3, UnitFacts
<1>5. ok \in BOOLEAN OBVIOUS
<1> HIDE DEF ok, after
<1>6. units' = after => Effect BY <1>3, <1>4 DEF Effect, Same
<1>7. Shape /\ units' \in UnitRecords /\ workload' \in BOOLEAN BY <1>1, <1>4, <1>5, <1>6, Moved
<1>8. /\ identity' \in [Trusted -> {"none", "current", "stale"}] /\ gated' \in BOOLEAN /\ Binding
  <2>1. CASE Current.on /\ Unit \in Trusted
    <3>1. Rebinds(Current) \/ Unit # Docker BY <1>3 DEF Rebinds, Unit
    <3>2. Keep([identity EXCEPT ![Unit] = "current"], gated) BY <1>1, <2>1
    <3> QED BY <2>1, <3>1, <3>2, Rebound
  <2>2. CASE ~ (Current.on /\ Unit \in Trusted) BY <1>1, <1>2, <2>2, KeptAll
  <2> QED BY <2>1, <2>2
<1>9. Seen BY <1>1, <1>3 DEF Seen
<1>10. Data' BY <1>1, <1>2, <1>7, <1>8 DEF Data
<1> QED BY <1>7, <1>8, <1>9, <1>10 DEF Outcome

LEMMA ObserveStep == ASSUME Typed, Observe PROVE Outcome
<1>1. Attempt("observe", TRUE, units) BY Zenon DEF Observe
<1>2. /\ audit' = [audit EXCEPT ![Unit].active = Unit \in units.active]
      /\ IF Unit \in Trusted /\ Unit \in units.active
         THEN Keep([identity EXCEPT ![Unit] = "current"], gated) ELSE KeepAll
      /\ proved' = proved
  BY DEF Observe
<1>3. Data /\ audit \in [Units -> Target] /\ units \in UnitRecords /\ proved \subseteq Units
  BY DEF Typed, Data
<1>4. Current.op = "observe" /\ Unit \in Units BY <1>1, DoingFacts DEF Attempt
<1>5. units' = units => Effect BY <1>4 DEF Effect, Same
<1>6. Shape /\ units' \in UnitRecords /\ workload' \in BOOLEAN BY <1>1, <1>3, <1>5, Moved
<1>7. audit' \in [Units -> Target]
  <2> DEFINE seen == [audit[Unit] EXCEPT !.active = Unit \in units.active]
  <2>1. audit[Unit] \in Target BY <1>3, <1>4
  <2>2. seen \in Target
    <3>1. CASE Unit \in units.active
      <4>1. seen = [audit[Unit] EXCEPT !.active = TRUE] BY <3>1
      <4> QED BY <2>1, <4>1 DEF Target
    <3>2. CASE Unit \notin units.active
      <4>1. (Unit \in units.active) = FALSE BY <3>2
      <4>2. seen = [audit[Unit] EXCEPT !.active = FALSE] BY <4>1, Zenon
      <4> QED BY <2>1, <4>2 DEF Target
    <3> QED BY <3>1, <3>2
  <2>3. audit' = [audit EXCEPT ![Unit] = seen] BY <1>2
  <2> HIDE DEF seen
  <2> QED BY <1>3, <1>4, <2>2, <2>3
<1>8. /\ identity' \in [Trusted -> {"none", "current", "stale"}] /\ gated' \in BOOLEAN /\ Binding
  <2>1. CASE Unit \in Trusted /\ Unit \in units.active
    <3>1. Rebinds(Current) \/ Unit # Docker BY <1>4 DEF Rebinds, Unit
    <3>2. Keep([identity EXCEPT ![Unit] = "current"], gated) BY <1>2, <2>1
    <3> QED BY <2>1, <3>1, <3>2, Rebound
  <2>2. CASE ~ (Unit \in Trusted /\ Unit \in units.active) BY <1>2, <1>3, <2>2, KeptAll
  <2> QED BY <2>1, <2>2
<1>9. Seen BY <1>2, <1>4 DEF Seen
<1>10. Data' BY <1>2, <1>3, <1>6, <1>7, <1>8 DEF Data
<1> QED BY <1>6, <1>8, <1>9, <1>10 DEF Outcome

LEMMA HaltStep == ASSUME Typed, Halt PROVE Outcome
<1> DEFINE runs  == Unit \in units.active
           same  == audit[Unit].active /\ (Unit \in Trusted => identity[Unit] = "current")
           after == IF runs THEN Stopped(Unit) ELSE units
           ok    == runs => same
<1>1. Attempt("halt", ok, after) /\ audit' = audit /\ Plain BY DEF Halt
<1>2. Data /\ audit \in [Units -> Target] /\ units \in UnitRecords BY DEF Typed, Data
<1>3. Current.op = "halt" /\ Unit \in Units BY <1>1, DoingFacts DEF Attempt
<1>4. /\ after \in UnitRecords /\ after.masked = units.masked /\ after.link = units.link
  BY <1>2, <1>3, UnitFacts
<1>5. ok \in BOOLEAN OBVIOUS
<1> HIDE DEF ok, after
<1>6. units' = after => Effect BY <1>3, <1>4 DEF Effect, Same
<1> QED BY <1>1, <1>2, <1>4, <1>5, <1>6, Plainly

LEMMA CheckStep == ASSUME Typed, Check PROVE Outcome
<1> DEFINE ok == /\ (Unit \in units.active) = Current.on
                 /\ Current.on /\ Unit \in Trusted => Identified(Unit)
<1>1. Attempt("check", ok, units) /\ audit' = Observed /\ KeepAll BY DEF Check, Inspect, Read
<1>2. proved' = IF Succeeded /\ Current.on THEN proved \cup ({Unit} \cap Nvidia) ELSE proved
  BY DEF Check
<1>3. Data /\ units \in UnitRecords /\ proved \subseteq Units BY DEF Typed, Data
<1>4. Current.op = "check" /\ Unit \in Units BY <1>1, DoingFacts DEF Attempt
<1>5. ok \in BOOLEAN OBVIOUS
<1> HIDE DEF ok
<1>6. units' = units => Effect BY <1>4 DEF Effect, Same
<1>7. Shape /\ units' \in UnitRecords /\ workload' \in BOOLEAN BY <1>1, <1>3, <1>5, <1>6, Moved
<1>8. audit' \in [Units -> Target] BY <1>1, <1>3, ObservedFacts
<1>9. /\ identity' \in [Trusted -> {"none", "current", "stale"}] /\ gated' \in BOOLEAN /\ Binding
  BY <1>1, <1>3, KeptAll
<1>10. proved \subseteq proved' /\ proved' \subseteq Units BY <1>2, <1>3, <1>4
<1>11. Seen BY <1>2, <1>4, <1>10 DEF Seen, Succeeded
<1>12. Data' BY <1>7, <1>8, <1>9, <1>10 DEF Data
<1> QED BY <1>7, <1>9, <1>11, <1>12 DEF Outcome

LEMMA GateStep == ASSUME Typed, Gate PROVE Outcome
<1> DEFINE ok == Docker \in units.active /\ (workload => AllowActiveWorkloads)
           g  == gated \/ Succeeded
<1>1. Attempt("gate", ok, units) /\ audit' = Observed /\ Keep(identity, g)
  BY DEF Gate, Inspect, Read
<1>2. proved' = IF Succeeded THEN proved \cup {Docker, Socket} ELSE proved BY DEF Gate
<1>3. /\ Data /\ units \in UnitRecords /\ proved \subseteq Units /\ gated \in BOOLEAN
      /\ identity \in [Trusted -> {"none", "current", "stale"}]
  BY DEF Typed, Data
<1>4. Current.op = "gate" /\ Working BY <1>1, DoingFacts DEF Attempt
<1>5. ok \in BOOLEAN /\ g \in BOOLEAN /\ (Succeeded => g) /\ (gated => g) BY DEF Succeeded
<1>6. ok => Docker \in units.active OBVIOUS
<1> HIDE DEF ok, g
<1>7. units' = units => Effect BY <1>4 DEF Effect, Same
<1>8. /\ Shape /\ units' \in UnitRecords /\ workload' \in BOOLEAN
      /\ mode = "commit" /\ mode' = "commit" => ok /\ units' = units
  BY <1>1, <1>3, <1>5, <1>7, Moved
<1>9. audit' \in [Units -> Target] BY <1>1, <1>3, ObservedFacts
<1>10. /\ identity' \in [Trusted -> {"none", "current", "stale"}] /\ gated' \in BOOLEAN
       /\ identity'[Docker] = "current" => identity[Docker] = "current" /\ (g => gated')
  BY <1>1, <1>3, <1>5, Kept
<1>11. Binding BY <1>5, <1>10 DEF Binding
<1>12. proved \subseteq proved' /\ proved' \subseteq Units
  BY <1>2, <1>3 DEF Units, Trusted
<1>13. mode = "commit" /\ mode' = "commit" => DockerUnits \subseteq proved' /\ gated'
  <2>1. SUFFICES ASSUME mode = "commit", mode' = "commit"
                 PROVE  DockerUnits \subseteq proved' /\ gated'
    OBVIOUS
  <2>2. Succeeded BY <2>1 DEF Succeeded
  <2>3. gated' = (g /\ Docker \in units'.active) BY <1>1 DEF Keep
  <2> QED BY <1>2, <1>5, <1>6, <1>8, <2>1, <2>2, <2>3 DEF DockerUnits
<1>14. Seen BY <1>4, <1>12, <1>13 DEF Seen
<1>15. Data' BY <1>8, <1>9, <1>10, <1>12 DEF Data
<1> QED BY <1>8, <1>11, <1>14, <1>15 DEF Outcome

(* The steps without a command. *)
LEMMA Silently ==
  ASSUME Typed, Working, Silent
  PROVE  /\ target' = target /\ requires' = requires /\ Same /\ Binding /\ Data'
         /\ proved' = proved /\ audit' = audit
<1>1. /\ target' = target /\ requires' = requires /\ units' = units /\ audit' = audit
      /\ workload' = workload /\ KeepAll /\ proved' = proved
  BY DEF Silent, Plain, request
<1>2. Data BY DEF Typed
<1>3. /\ identity' \in [Trusted -> {"none", "current", "stale"}] /\ gated' \in BOOLEAN /\ Binding
  BY <1>1, <1>2, KeptAll
<1>4. Data' BY <1>1, <1>2, <1>3 DEF Data
<1> QED BY <1>1, <1>3, <1>4 DEF Same

LEMMA SilentSteps ==
  ASSUME Typed, Settle \/ Compare \/ Conclude \/ Probe \/ Raise
  PROVE  Outcome
<1>1. ASSUME Settle PROVE Outcome
  <2>1. Doing("settle") /\ (Skip(3) \/ Continue) /\ Silent BY <1>1 DEF Settle
  <2>2. Working /\ Current.op = "settle" BY <2>1, DoingFacts
  <2>3. /\ target' = target /\ requires' = requires /\ Same /\ Binding /\ Data' /\ proved' = proved
    BY <2>1, <2>2, Silently
  <2>4. Onward BY <2>1, <2>2 DEF Onward, Skip, Continue
  <2>5. Effect BY <2>2, <2>3 DEF Effect
  <2>6. Shape BY <2>2, <2>3, <2>4, <2>5 DEF Shape
  <2>7. Seen BY <2>2, <2>3 DEF Seen
  <2> QED BY <2>3, <2>6, <2>7 DEF Outcome
<1>2. ASSUME Compare PROVE Outcome
  <2>1. Doing("compare") /\ (Continue \/ GiveUp) /\ Silent BY <1>2 DEF Compare
  <2>2. Working /\ Current.op = "compare" BY <2>1, DoingFacts
  <2>3. /\ target' = target /\ requires' = requires /\ Same /\ Binding /\ Data' /\ proved' = proved
    BY <2>1, <2>2, Silently
  <2>4. mode # "emergency" BY <2>2, CurrentFacts
  <2>5. Onward \/ Leaving BY <2>1, <2>2, <2>4 DEF Onward, Leaving, Continue
  <2>6. Effect BY <2>2, <2>3 DEF Effect
  <2>7. Shape BY <2>2, <2>3, <2>5, <2>6 DEF Shape
  <2>8. Seen BY <2>2, <2>3 DEF Seen
  <2> QED BY <2>3, <2>7, <2>8 DEF Outcome
<1>3. ASSUME Conclude PROVE Outcome
  <2>1. /\ Doing("conclude") /\ Silent
        /\ \/ IdentitiesHold /\ audit = target /\ Goto("committed", step)
              /\ quarantined' = quarantined /\ finding' = finding
           \/ GiveUp
           \/ Unwind
    BY <1>3 DEF Conclude
  <2>2. Working /\ Current.op = "conclude" BY <2>1, DoingFacts
  <2>3. /\ target' = target /\ requires' = requires /\ Same /\ Binding /\ Data' /\ proved' = proved
    BY <2>1, <2>2, Silently
  <2>4. mode # "emergency" BY <2>2, CurrentFacts
  <2>5. finding \in {"none", "remasked", "notMasked"} BY DEF Typed, Control
  <2>6. Ending \/ Leaving BY <2>1, <2>2, <2>4, <2>5 DEF Ending, Leaving, Goto
  <2>7. Shape BY <2>2, <2>3, <2>6 DEF Shape
  <2>8. Seen BY <2>2, <2>3 DEF Seen
  <2> QED BY <2>3, <2>7, <2>8 DEF Outcome
<1>4. ASSUME Probe PROVE Outcome
  <2>1. /\ Doing("probe") /\ Silent
        /\ \/ /\ finding' \in {Finding(~workload), Finding(FALSE)}
              /\ Goto(IF mode = "retry" THEN "raised" ELSE "failed", step)
              /\ quarantined' = quarantined
           \/ Unwind
    BY <1>4 DEF Probe
  <2>2. Working /\ Current.op = "probe" BY <2>1, DoingFacts
  <2>3. /\ target' = target /\ requires' = requires /\ Same /\ Binding /\ Data' /\ proved' = proved
    BY <2>1, <2>2, Silently
  <2>4. finding' \in {Finding(~workload), Finding(FALSE)} =>
          finding' \in {"none", "remasked", "notMasked"} /\ (finding' = "none" => quarantined)
    BY DEF Finding
  <2>5. Ending \/ Leaving BY <2>1, <2>2, <2>4 DEF Ending, Leaving, Goto
  <2>6. Shape BY <2>2, <2>3, <2>5 DEF Shape
  <2>7. Seen BY <2>2, <2>3 DEF Seen
  <2> QED BY <2>3, <2>6, <2>7 DEF Outcome
<1>5. ASSUME Raise PROVE Outcome
  <2>1. /\ Doing("raise") /\ Silent /\ Goto("raised", step)
        /\ quarantined' = quarantined /\ finding' = finding
    BY <1>5 DEF Raise
  <2>2. Working /\ Current.op = "raise" BY <2>1, DoingFacts
  <2>3. /\ target' = target /\ requires' = requires /\ Same /\ Binding /\ Data' /\ proved' = proved
    BY <2>1, <2>2, Silently
  <2>4. finding \in {"none", "remasked", "notMasked"} BY DEF Typed, Control
  <2>5. Ending BY <2>1, <2>2, <2>4 DEF Ending, Goto
  <2>6. Shape BY <2>2, <2>3, <2>5 DEF Shape
  <2>7. Seen BY <2>2, <2>3 DEF Seen
  <2> QED BY <2>3, <2>6, <2>7 DEF Outcome
<1> QED BY <1>1, <1>2, <1>3, <1>4, <1>5

LEMMA RequiesceStep == ASSUME Typed, Requiesce PROVE Outcome
<1>1. /\ Doing("requiesce") /\ audit' = Observed' /\ (Continue \/ Unwind)
      /\ KeepAll /\ proved' = proved /\ target' = target /\ requires' = requires
      /\ workload' = workload
  BY DEF Requiesce, Plain, request
<1>2. PICK stopped \in SUBSET (Nvidia \cap units.active) :
        units' = [units EXCEPT !.active = @ \ stopped]
  BY DEF Requiesce
<1>3. Data /\ units \in UnitRecords BY DEF Typed, Data
<1>4. Working /\ Current.op = "requiesce" BY <1>1, DoingFacts
<1>5. units' \in UnitRecords /\ units'.masked = units.masked /\ units'.link = units.link
  BY <1>2, <1>3 DEF UnitRecords
<1>6. audit' \in [Units -> Target]
  <2>1. \A u \in Units : StateOf(u)' \in UnitFileStates
    BY <1>5 DEF StateOf, UnitRecords, UnitFileStates
  <2> QED BY <1>1, <2>1 DEF Observed, Target
<1>7. /\ identity' \in [Trusted -> {"none", "current", "stale"}] /\ gated' \in BOOLEAN /\ Binding
  BY <1>1, <1>3, KeptAll
<1>8. Data' BY <1>1, <1>3, <1>5, <1>6, <1>7 DEF Data
<1>9. Effect BY <1>4, <1>5 DEF Effect, Same
<1>10. Onward \/ Leaving BY <1>1, <1>4 DEF Onward, Leaving, Continue
<1>11. Shape BY <1>1, <1>4, <1>9, <1>10 DEF Shape
<1>12. Seen BY <1>1, <1>4 DEF Seen
<1> QED BY <1>7, <1>8, <1>11, <1>12 DEF Outcome

LEMMA ProgramSteps == ASSUME Typed, Program PROVE Outcome
BY FileSteps, Looks, ActivateStep, ObserveStep, HaltStep, CheckStep, GateStep, SilentSteps,
   RequiesceStep DEF Program

(* How the surroundings look: the unit files and what the program knows stay. *)
Aside ==
  /\ Working /\ target' = target /\ requires' = requires /\ Same /\ audit' = audit
  /\ proved' = proved /\ step' = step /\ quarantined' = quarantined /\ finding' = finding
  /\ \/ mode' = mode /\ (identity'[Docker] = "current" =>
                           identity[Docker] = "current" /\ (gated => gated'))
     \/ mode' = "down"

LEMMA WorldSteps == ASSUME Typed, World PROVE Aside /\ Data'
<1>1. /\ Data /\ units \in UnitRecords /\ audit \in [Units -> Target] /\ proved \subseteq Units
      /\ identity \in [Trusted -> {"none", "current", "stale"}]
      /\ workload \in BOOLEAN /\ gated \in BOOLEAN
  BY DEF Typed, Data
<1>2. Docker \in Trusted /\ Docker \in Units BY DEF Trusted, Units
<1> DEFINE Left == /\ Working /\ target' = target /\ requires' = requires /\ audit' = audit
                   /\ proved' = proved /\ step' = step /\ quarantined' = quarantined
                   /\ finding' = finding /\ mode' = mode
<1>3. ASSUME Left, NEW ids \in [Trusted -> {"none", "current", "stale"}], NEW g \in BOOLEAN,
             Keep(ids, g), units' \in UnitRecords, Same, workload' \in BOOLEAN,
             ids[Docker] = "current" => identity[Docker] = "current" /\ (gated => g)
      PROVE  Aside /\ Data'
  <2>1. /\ identity' \in [Trusted -> {"none", "current", "stale"}] /\ gated' \in BOOLEAN
        /\ identity'[Docker] = "current" => ids[Docker] = "current" /\ (g => gated')
    BY <1>1, <1>3, Kept
  <2>2. Data' BY <1>1, <1>3, <2>1 DEF Data
  <2>3. Aside BY <1>3, <2>1 DEF Aside
  <2> QED BY <2>2, <2>3
<1>4. ASSUME ClientConnects PROVE Aside /\ Data'
  <2>1. Left /\ units' = Started(Docker) /\ Keep(identity, gated) /\ workload' = workload
    BY <1>4 DEF ClientConnects, Outside, KeepAll, control, request
  <2>2. units' \in UnitRecords /\ Same BY <1>1, <1>2, <2>1, UnitFacts DEF Same
  <2> QED BY <1>1, <1>3, <2>1, <2>2
<1>5. ASSUME UnitExits PROVE Aside /\ Data'
  <2>1. Left /\ Keep(identity, gated) /\ workload' = workload
    BY <1>5 DEF UnitExits, Outside, KeepAll, control, request
  <2>2. PICK u \in units.active : units' = [units EXCEPT !.active = @ \ {u}]
    BY <1>5 DEF UnitExits
  <2>3. units' \in UnitRecords /\ Same BY <1>1, <2>2 DEF Same, UnitRecords
  <2> QED BY <1>1, <1>3, <2>1, <2>3
<1>6. ASSUME WorkloadChanges PROVE Aside /\ Data'
  <2>1. Left /\ Keep(identity, gated) /\ units' = units /\ workload' = ~workload
    BY <1>6 DEF WorkloadChanges, Outside, KeepAll, control, request
  <2>2. Same /\ workload' \in BOOLEAN BY <2>1 DEF Same
  <2> QED BY <1>1, <1>3, <2>1, <2>2
<1>7. ASSUME ServiceRestarts PROVE Aside /\ Data'
  <2>1. Left /\ units' = units /\ workload' = workload
    BY <1>7 DEF ServiceRestarts, Outside, control, request
  <2>2. PICK u \in Trusted \cap units.active :
          Keep([identity EXCEPT ![u] = IF @ = "current" THEN "stale" ELSE @], gated /\ u # Docker)
    BY <1>7 DEF ServiceRestarts
  <2> DEFINE ids == [identity EXCEPT ![u] = IF @ = "current" THEN "stale" ELSE @]
             g   == gated /\ u # Docker
  <2>3. ids \in [Trusted -> {"none", "current", "stale"}] /\ g \in BOOLEAN BY <1>1
  <2>4. ids[Docker] = "current" => identity[Docker] = "current" /\ (gated => g) BY <1>1, <1>2
  <2>5. Keep(ids, g) BY <2>2
  <2> HIDE DEF ids, g
  <2>6. Same BY <2>1 DEF Same
  <2> QED BY <1>1, <1>3, <2>1, <2>3, <2>4, <2>5, <2>6
<1>8. ASSUME PowerLoss PROVE Aside /\ Data'
  <2>1. /\ Working /\ target' = target /\ requires' = requires /\ audit' = audit
        /\ proved' = proved /\ step' = step /\ quarantined' = quarantined
        /\ finding' = finding /\ mode' = "down" /\ workload' = FALSE /\ gated' = FALSE
        /\ identity' = [u \in Trusted |-> "none"] /\ units' = [units EXCEPT !.active = BootActive]
    BY <1>8 DEF PowerLoss, Goto, request
  <2>2. BootActive \subseteq Units
    <3>1. \A u \in Units : Needed(u) \subseteq Units BY DEF Needed, Units, Trusted
    <3> QED BY <3>1 DEF BootActive
  <2>3. units' \in UnitRecords /\ Same BY <1>1, <2>1, <2>2 DEF Same, UnitRecords
  <2>4. Data' BY <1>1, <2>1, <2>3 DEF Data
  <2> QED BY <2>1, <2>3, <2>4 DEF Aside
<1> QED BY <1>4, <1>5, <1>6, <1>7, <1>8 DEF World

-----------------------------------------------------------------------------
(* The invariant, conjunct by conjunct. *)

(* A step of the commit that stays in it. *)
LEMMA Forward ==
  ASSUME Typed, Shape, mode = "commit", mode' = "commit"
  PROVE  /\ Script' = Script /\ Orderly(Script, target) /\ step \in 1 .. Len(Script) /\ Effect
         /\ Current = Script[step] /\ Current \in Steps
         /\ \/ step' = step + 1
            \/ /\ step' = step + 3 /\ Current.op = "settle" /\ Unit = Socket
               /\ Script[step + 1].unit = Socket /\ Script[step + 2].unit = Socket
               /\ Script[step + 1].op \in {"activity", "check"}
               /\ Script[step + 2].op \in {"activity", "check"}
               /\ step + 3 \in 1 .. Len(Script) /\ Script[step + 3].op = "compare"
<1>1. Working /\ target' = target BY DEF Shape
<1>2. Orderly(Script, target) /\ step \in 1 .. Len(Script) BY <1>1, ScriptFacts
<1>3. Script' = Script BY <1>1 DEF Script
<1>4. ~ Leaving /\ ~ Ending BY DEF Leaving, GiveUp, Unwind, Ending, Goto
<1>5. Onward /\ Effect BY <1>4 DEF Shape
<1>6. Current = Script[step] /\ Current \in Steps BY <1>1, CurrentFacts DEF Current
<1>7. Settles(Script) BY <1>2 DEF Orderly
<1> QED BY <1>2, <1>3, <1>5, <1>6, <1>7 DEF Onward, Settles, Unit

LEMMA StepNat == ASSUME Typed PROVE step \in Nat BY DEF Typed, Control

LEMMA ControlStep == ASSUME Typed, Shape PROVE Control'
<1>1. /\ Working /\ target' = target /\ requires' = requires /\ target \in Targets
      /\ requires \in Requires /\ step \in Nat /\ quarantined \in BOOLEAN
      /\ finding \in {"none", "remasked", "notMasked"}
      /\ mode \in {"commit", "quarantine", "retry", "emergency"}
  BY DEF Shape, Typed, Control, Working
<1>2. Len(QuarantineScript) = 16 /\ Len(EmergencyScript) = 5 BY QuarantineFacts, EmergencyFacts
<1>3. CASE Onward
  <2>1. mode' = mode /\ quarantined' = quarantined /\ finding' = finding BY <1>3 DEF Onward
  <2>2. Script' = Script BY <1>1, <2>1 DEF Script
  <2>3. step \in 1 .. Len(Script) /\ Script \in Seq(Steps) BY <1>1, ScriptFacts
  <2>4. step' \in 1 .. Len(Script)
    <3>1. CASE mode = "commit"
      <4>1. Concludes(Script) BY <1>1, <3>1, ScriptFacts DEF Orderly
      <4>2. Current = Script[step] /\ Current.op # "conclude" BY <1>3 DEF Onward, Current
      <4>3. step # Len(Script) BY <2>3, <4>1, <4>2 DEF Concludes
      <4>4. mode' = "commit" BY <2>1, <3>1
      <4> QED BY <2>3, <3>1, <4>3, <4>4, Forward
    <3>2. CASE mode \in {"quarantine", "retry"}
      <4>1. Script = QuarantineScript BY <1>1, <3>2, ScriptFacts
      <4>2. Current = QuarantineScript[step] /\ step \in 1 .. 16 BY <1>2, <2>3, <4>1 DEF Current
      <4>3. Current.op # "probe" BY <1>3 DEF Onward
      <4>4. step # 16 BY <4>2, <4>3, QuarantineFacts
      <4>5. Current.op # "settle" BY <4>2, QuarantineFacts DEF QuarantineOps
      <4>6. step' = step + 1 BY <1>3, <4>5 DEF Onward
      <4>7. step' \in 1 .. 16 BY <4>2, <4>4, <4>6
      <4>8. Len(Script) = 16 BY <1>2, <4>1, Zenon
      <4> QED BY <4>7, <4>8, Zenon
    <3>3. CASE mode = "emergency"
      <4>1. Script = EmergencyScript BY <1>1, <3>3, ScriptFacts
      <4>2. Current = EmergencyScript[step] /\ step \in 1 .. 5 BY <1>2, <2>3, <4>1 DEF Current
      <4>3. Current.op # "raise" BY <1>3 DEF Onward
      <4>4. step # 5 BY <4>2, <4>3, EmergencyFacts
      <4>5. Current.op # "settle" BY <4>2, EmergencyFacts
      <4>6. step' = step + 1 BY <1>3, <4>5 DEF Onward
      <4>7. step' \in 1 .. 5 BY <4>2, <4>4, <4>6
      <4>8. Len(Script) = 5 BY <1>2, <4>1, Zenon
      <4> QED BY <4>7, <4>8, Zenon
    <3> QED BY <1>1, <3>1, <3>2, <3>3
  <2>5. step' \in Nat BY <2>4
  <2>6. mode' \in {"commit", "quarantine", "retry", "emergency", "committed", "failed", "raised", "down"}
    BY <1>1, <2>1
  <2> QED BY <1>1, <2>1, <2>2, <2>4, <2>5, <2>6 DEF Control
<1>4. CASE Leaving
  <2>1. /\ quarantined' \in BOOLEAN /\ finding' \in {"none", "remasked", "notMasked"}
        /\ \/ mode' \in {"quarantine", "retry"} /\ step' \in {1, 16}
           \/ mode' = "emergency" /\ step' \in {1, 5}
    BY <1>1, <1>2, <1>4 DEF Leaving, GiveUp, Unwind, Goto
  <2>2. ASSUME mode' \in {"quarantine", "retry"}, step' \in {1, 16} PROVE step' \in 1 .. Len(Script')
    <3>1. Script' = QuarantineScript BY <2>2 DEF Script
    <3>2. Len(Script') = 16 BY <1>2, <3>1, Zenon
    <3>3. step' \in 1 .. 16 BY <2>2
    <3> QED BY <3>2, <3>3, Zenon
  <2>3. ASSUME mode' = "emergency", step' \in {1, 5} PROVE step' \in 1 .. Len(Script')
    <3>1. Script' = EmergencyScript BY <2>3 DEF Script
    <3>2. Len(Script') = 5 BY <1>2, <3>1, Zenon
    <3>3. step' \in 1 .. 5 BY <2>3
    <3> QED BY <3>2, <3>3, Zenon
  <2>4. step' \in 1 .. Len(Script') BY <2>1, <2>2, <2>3
  <2>5. step' \in Nat BY <2>1
  <2> QED BY <1>1, <2>1, <2>4, <2>5 DEF Control
<1>5. CASE Ending
  <2>1. /\ mode' \in {"committed", "failed", "raised"} /\ step' = step /\ quarantined' = quarantined
        /\ finding' \in {"none", "remasked", "notMasked"}
    BY <1>1, <1>5 DEF Ending
  <2>2. ~ Working' BY <2>1 DEF Working
  <2> QED BY <1>1, <2>1, <2>2 DEF Control
<1> QED BY <1>3, <1>4, <1>5 DEF Shape

(* A step touches the unit file of its own unit only. *)
LEMMA Touches ==
  ASSUME Typed, Effect \/ Same, Unit \in Units, NEW u \in Units, u # Unit
  PROVE  /\ u \in units.masked <=> u \in units'.masked
         /\ units'.link[u] = units.link[u] /\ StateOf(u)' = StateOf(u)
<1>1. units.link \in [Units -> UnitFileStates \ {"masked"}] /\ units.masked \subseteq Units
  BY DEF Typed, Data, UnitRecords
<1>2. \A s : Relinked(s)[u] = units.link[u] BY <1>1 DEF Relinked
<1>3. /\ u \in units.masked <=> u \in units'.masked
      /\ units'.link[u] = units.link[u]
  BY <1>2 DEF Effect, Same
<1> QED BY <1>3 DEF StateOf

LEMMA Untouched == ASSUME Same, NEW u PROVE StateOf(u)' = StateOf(u)
BY DEF Same, StateOf

LEMMA HiddenStep == ASSUME Typed, Hidden, target' = target, Effect \/ Same, Unit \in Units PROVE Hidden'
<1>1. units.link \in [Units -> UnitFileStates \ {"masked"}] BY DEF Typed, Data, UnitRecords
<1> SUFFICES ASSUME NEW u \in Units PROVE units'.link[u] \in HiddenLinks(target[u].state)
  BY DEF Hidden
<1>2. units.link[u] \in HiddenLinks(target[u].state) BY DEF Hidden
<1>3. CASE u # Unit BY <1>2, <1>3, Touches
<1>4. CASE u = Unit
  <2>1. \A s \in {"enabled", "disabled"} :
          Relinked(s)[u] = IF units.link[u] \in {"enabled", "disabled"} THEN s ELSE units.link[u]
    BY <1>1, <1>4 DEF Relinked
  <2>2. \A s \in {"enabled", "disabled"} : Relinked(s)[u] \in HiddenLinks(target[u].state)
    BY <1>2, <2>1 DEF HiddenLinks
  <2>3. units'.link \in {units.link, Relinked("enabled"), Relinked("disabled")}
    BY DEF Effect, Same
  <2> QED BY <1>2, <2>2, <2>3
<1> QED BY <1>3, <1>4

LEMMA Stays == ASSUME Shape, mode' = "commit" PROVE mode = "commit"
BY DEF Shape, Onward, Leaving, GiveUp, Unwind, Ending, Goto

LEMMA UnitKinds == Nvidia \subseteq Units /\ DockerUnits \subseteq Units
                   /\ Units = Nvidia \cup DockerUnits /\ Nvidia \cap DockerUnits = {}
BY DEF Nvidia, DockerUnits, Units, Trusted, Docker, Socket, FabricManager, Persistenced

(* Once a Docker unit has its turn, the NVIDIA services have had theirs. *)
LEMMA NvidiaDone ==
  ASSUME Typed, Working, mode = "commit", Unit \in DockerUnits, NEW u \in Nvidia
  PROVE  ~ Pending(u)
<1>1. DockerLast(Script) /\ step \in 1 .. Len(Script) /\ Script \in Seq(Steps)
  BY ScriptFacts DEF Orderly
<1> SUFFICES ASSUME NEW j \in step .. Len(Script), Script[j].unit = u PROVE FALSE
  BY DEF Pending
<1>2. j \in 1 .. Len(Script) BY <1>1
<1>3. Script[step].unit \in DockerUnits BY DEF Unit, Current
<1>4. j # step BY <1>3, UnitKinds
<1>5. step < j BY <1>1, <1>2, <1>4
<1>6. Script[j].unit \in DockerUnits BY <1>1, <1>2, <1>3, <1>5 DEF DockerLast
<1> QED BY <1>6, UnitKinds

LEMMA InOrderStep == ASSUME Typed, InOrder, Shape, Seen PROVE InOrder'
<1> SUFFICES ASSUME mode' = "commit"
             PROVE  /\ \A u \in Nvidia : Pending(u)' => DockerUnits \subseteq units'.masked
                    /\ \A u \in Nvidia : Pending(u)' \/ IsExact(u)'
  BY DEF InOrder
<1>1. mode = "commit" BY Stays
<1>2. /\ Script' = Script /\ Orderly(Script, target) /\ step \in 1 .. Len(Script) /\ Effect
      /\ Current = Script[step] /\ Current \in Steps
      /\ \/ step' = step + 1
         \/ step' = step + 3 /\ Current.op = "settle" /\ Unit = Socket
  BY <1>1, Forward
<1>3. /\ \A u \in Nvidia : Pending(u) => DockerUnits \subseteq units.masked
      /\ \A u \in Nvidia : Pending(u) \/ IsExact(u)
  BY <1>1 DEF InOrder
<1>4. Working /\ target' = target BY DEF Shape
<1>5. Unit \in Units BY <1>4, CurrentFacts
<1>6. Script \in Seq(Steps) /\ Len(Script) \in Nat BY <1>2 DEF Orderly
<1>7. ASSUME NEW u \in Nvidia, Pending(u)' PROVE Pending(u)
  <2>1. PICK j \in step' .. Len(Script) : Script[j].unit = u BY <1>2, <1>7 DEF Pending
  <2>2. j \in step .. Len(Script) BY <1>2, <1>6, <2>1
  <2> QED BY <2>1, <2>2 DEF Pending
<1>8. ASSUME NEW u \in Nvidia, Pending(u)' PROVE DockerUnits \subseteq units'.masked
  <2>1. Pending(u) BY <1>7, <1>8
  <2>2. DockerUnits \subseteq units.masked BY <1>3, <2>1
  <2>3. Unit \notin DockerUnits BY <1>1, <1>4, <2>1, NvidiaDone
  <2>4. \A v \in DockerUnits : v \in Units /\ v # Unit BY <2>3, UnitKinds
  <2> QED BY <1>2, <1>5, <2>2, <2>4, Touches
<1>9. ASSUME NEW u \in Nvidia, ~ Pending(u)' PROVE IsExact(u)'
  <2>1. u \in Units BY UnitKinds
  <2>2. CASE ~ Pending(u)
    <3>1. IsExact(u) BY <1>3, <2>2
    <3>2. Unit # u
      <4>1. step \in step .. Len(Script) BY <1>2, <1>6
      <4> QED BY <1>2, <2>2, <4>1 DEF Pending, Unit
    <3>3. StateOf(u)' = StateOf(u) BY <1>2, <1>5, <2>1, <3>2, Touches
    <3> QED BY <1>4, <3>1, <3>3 DEF IsExact
  <2>3. CASE Pending(u)
    <3>1. Unit \notin DockerUnits BY <1>1, <1>4, <2>3, NvidiaDone
    <3>2. step' = step + 1 BY <1>2, <3>1 DEF DockerUnits
    <3>3. PICK j \in step .. Len(Script) : Script[j].unit = u BY <2>3 DEF Pending
    <3>4. j \notin step' .. Len(Script) BY <1>2, <1>9, <3>3 DEF Pending
    <3>5. j = step BY <1>2, <1>6, <3>2, <3>3, <3>4
    <3>6. Unit = u BY <1>2, <3>3, <3>5 DEF Unit
    <3>7. Current.op = "final"
      <4>1. SUFFICES ASSUME Current.op # "final" PROVE FALSE OBVIOUS
      <4>2. step + 1 \in 1 .. Len(Script) /\ Script[step + 1].unit = u
        BY <1>2, <3>6, <4>1 DEF Orderly, Keeps, Unit
      <4>3. step + 1 \in step' .. Len(Script) BY <1>6, <3>2, <4>2
      <4> QED BY <1>2, <1>9, <4>2, <4>3 DEF Pending
    <3>8. IsExact(u) BY <1>1, <3>6, <3>7 DEF Seen
    <3>9. Same BY <1>2, <3>7 DEF Effect
    <3>10. StateOf(u)' = StateOf(u) BY <3>9, Untouched
    <3> QED BY <1>4, <3>8, <3>10 DEF IsExact
  <2> QED BY <2>2, <2>3
<1> QED BY <1>8, <1>9

LEMMA ProvingStep == ASSUME Typed, Proving, Shape, Seen PROVE Proving'
<1> SUFFICES ASSUME mode' = "commit"
             PROVE  /\ \A u \in Nvidia : Tested(u)' => u \in proved'
                    /\ GatePassed' => DockerUnits \subseteq proved'
  BY DEF Proving
<1>1. mode = "commit" BY Stays
<1>2. /\ Script' = Script /\ step \in 1 .. Len(Script) /\ Script \in Seq(Steps)
      /\ Current = Script[step]
      /\ \/ step' = step + 1
         \/ /\ step' = step + 3 /\ Current.op = "settle" /\ Unit = Socket
            /\ Script[step + 1].unit = Socket /\ Script[step + 2].unit = Socket
            /\ Script[step + 1].op \in {"activity", "check"}
            /\ Script[step + 2].op \in {"activity", "check"}
  BY <1>1, Forward DEF Orderly
<1>3. proved \subseteq proved' BY DEF Seen
<1>4. Socket \notin Nvidia BY UnitKinds DEF DockerUnits
<1>5. ASSUME NEW j \in 1 .. Len(Script), j < step', ~ (j < step)
      PROVE  j = step \/ /\ Script[j].unit = Socket /\ Script[j].op \in {"activity", "check"}
  <2>1. CASE step' = step + 1 BY <1>2, <1>5, <2>1
  <2>2. CASE step' # step + 1
    <3>1. j = step \/ j = step + 1 \/ j = step + 2 BY <1>2, <1>5, <2>2
    <3> QED BY <1>2, <2>2, <3>1
  <2> QED BY <2>1, <2>2
<1>6. ASSUME NEW u \in Nvidia, Tested(u)' PROVE u \in proved'
  <2>1. PICK j \in 1 .. Len(Script) : /\ j < step' /\ Script[j].op = "check" /\ Script[j].on
                                      /\ Script[j].unit = u
    BY <1>2, <1>6 DEF Tested
  <2>2. CASE j < step
    <3>1. Tested(u) BY <2>1, <2>2 DEF Tested
    <3> QED BY <1>1, <1>3, <3>1 DEF Proving
  <2>3. CASE ~ (j < step)
    <3>1. j = step BY <1>4, <1>5, <2>1, <2>3
    <3> QED BY <1>1, <1>2, <2>1, <3>1 DEF Seen, Unit
  <2> QED BY <2>2, <2>3
<1>7. ASSUME GatePassed' PROVE DockerUnits \subseteq proved'
  <2>1. PICK j \in 1 .. Len(Script) : j < step' /\ Script[j].op = "gate"
    BY <1>2, <1>7 DEF GatePassed
  <2>2. CASE j < step
    <3>1. GatePassed BY <2>1, <2>2 DEF GatePassed
    <3> QED BY <1>1, <1>3, <3>1 DEF Proving
  <2>3. CASE ~ (j < step)
    <3>1. j = step BY <1>5, <2>1, <2>3
    <3> QED BY <1>1, <1>2, <2>1, <3>1 DEF Seen
  <2> QED BY <2>2, <2>3
<1> QED BY <1>6, <1>7

LEMMA BoundStep == ASSUME Typed, Bound, Shape, Seen, Binding PROVE Bound'
<1> SUFFICES ASSUME mode' = "commit", target'[Docker].active, GatePassed', identity'[Docker] = "current"
             PROVE  gated'
  BY DEF Bound
<1>1. mode = "commit" BY Stays
<1>2. /\ Script' = Script /\ step \in 1 .. Len(Script) /\ Script \in Seq(Steps)
      /\ Current = Script[step] /\ Orderly(Script, target)
      /\ \/ step' = step + 1
         \/ /\ step' = step + 3
            /\ Script[step].op = "settle"
            /\ Script[step + 1].op \in {"activity", "check"}
            /\ Script[step + 2].op \in {"activity", "check"}
  BY <1>1, Forward DEF Orderly
<1>3. target' = target BY DEF Shape
<1>4. (gated => gated') /\ (identity[Docker] = "current" \/ Rebinds(Current)) BY DEF Binding
<1>5. PICK j \in 1 .. Len(Script) : j < step' /\ Script[j].op = "gate"
  BY <1>2 DEF GatePassed
<1>6. CASE j < step
  <2>1. GatePassed BY <1>5, <1>6 DEF GatePassed
  <2>2. Calm(Script) BY <1>2, <1>3 DEF Orderly
  <2>3. ~ Rebinds(Current) BY <1>2, <1>5, <1>6, <2>2 DEF Calm
  <2> QED BY <1>1, <1>3, <1>4, <2>1, <2>3 DEF Bound
<1>7. CASE ~ (j < step)
  <2>1. j = step
    <3>1. CASE step' = step + 1 BY <1>2, <1>5, <1>7, <3>1
    <3>2. CASE step' # step + 1
      <4>1. j = step \/ j = step + 1 \/ j = step + 2 BY <1>2, <1>5, <1>7, <3>2
      <4> QED BY <1>2, <1>5, <3>2, <4>1
    <3> QED BY <3>1, <3>2
  <2> QED BY <1>1, <1>2, <1>5, <2>1 DEF Seen
<1> QED BY <1>6, <1>7

LEMMA ConcludingStep == ASSUME Typed, Shape, Seen PROVE Concluding'
<1> SUFFICES ASSUME mode' = "commit", Doing("conclude")', NEW u \in Units
             PROVE  audit'[u].state = StateOf(u)'
  BY DEF Concluding
<1>1. mode = "commit" BY Stays
<1>2. /\ Script' = Script /\ step \in 1 .. Len(Script) /\ Effect
      /\ Current = Script[step] /\ Concludes(Script)
      /\ \/ step' = step + 1
         \/ /\ step' = step + 3 /\ Script[step + 3].op = "compare"
  BY <1>1, Forward DEF Orderly
<1>3. Script[step'].op = "conclude" BY <1>2 DEF Doing, Current
<1>4. step' = step + 1 BY <1>2, <1>3
<1>5. step \in Nat /\ Len(Script) \in Nat BY <1>2 DEF Concludes
<1>6. Working /\ Working' BY DEF Shape, Doing
<1>7. step' \in 1 .. Len(Script')
  <2>1. Control' BY ControlStep
  <2> QED BY <1>6, <2>1 DEF Control
<1>8. step' = Len(Script) BY <1>2, <1>3, <1>7 DEF Concludes
<1>9. Current.op = "audit"
  <2>1. step = Len(Script) - 1 BY <1>4, <1>5, <1>8
  <2> QED BY <1>2, <2>1 DEF Concludes
<1>10. audit' = Observed /\ Same BY <1>1, <1>2, <1>9 DEF Seen, Effect
<1>11. audit'[u].state = StateOf(u) BY <1>10 DEF Observed
<1>12. StateOf(u)' = StateOf(u) BY <1>10, Untouched
<1> QED BY <1>11, <1>12

(* What the quarantine is about to do, step by step. *)
LEMMA Quarantining ==
  ASSUME Typed, Working, mode \in {"quarantine", "retry"}
  PROVE  /\ step \in 1 .. 16 /\ Current.op \in QuarantineOps /\ Unit \in Units
         /\ Current.op = "probe" <=> step = 16
         /\ Current.op = "verify" <=> step = 15
         /\ step \in 1 .. 7 /\ Current.op = "mask" => Unit \in DockerUnits
         /\ step = 4 => Current.op = "mask" /\ Unit = Socket
         /\ step = 7 => Current.op = "mask" /\ Unit = Docker
<1>1. Script = QuarantineScript /\ step \in 1 .. Len(Script) BY ScriptFacts
<1>2. step \in 1 .. 16 /\ Current = QuarantineScript[step]
  BY <1>1, QuarantineFacts DEF Current
<1> QED BY <1>2, QuarantineFacts, CurrentFacts DEF Unit

(* The quarantine takes no mask away and changes no link. *)
LEMMA OnlyMasks ==
  ASSUME Typed, Effect \/ Same, Current.op \in QuarantineOps, Unit \in Units
  PROVE  /\ units.masked \subseteq units'.masked /\ units'.masked \subseteq units.masked \cup {Unit}
         /\ units'.link = units.link
         /\ Current.op # "mask" => Same
BY DEF Effect, Same, QuarantineOps

LEMMA MaskingStep == ASSUME Typed, Masking, Shape PROVE Masking'
<1> SUFFICES ASSUME mode' \in {"quarantine", "retry"}
             PROVE  /\ step' \in 5 .. 15 => Socket \in units'.masked
                    /\ step' \in 8 .. 15 => Docker \in units'.masked
                    /\ step' = 16 /\ quarantined' => units'.masked = Units
  BY DEF Masking
<1>1. Working BY DEF Shape
<1>2. Len(QuarantineScript) = 16 BY QuarantineFacts
<1>3. CASE Leaving
  <2>1. step' = 1 \/ (step' = 16 /\ quarantined' = FALSE)
    BY <1>2, <1>3 DEF Leaving, GiveUp, Unwind, Goto
  <2> QED BY <2>1
<1>4. CASE Onward /\ Effect /\ (Current.op = "verify" => units.masked = Units)
  <2>1. mode \in {"quarantine", "retry"} /\ quarantined' = quarantined
    BY <1>4 DEF Onward
  <2>2. /\ step \in 1 .. 16 /\ Current.op \in QuarantineOps /\ Unit \in Units
        /\ Current.op = "verify" <=> step = 15
        /\ step = 4 => Current.op = "mask" /\ Unit = Socket
        /\ step = 7 => Current.op = "mask" /\ Unit = Docker
    BY <1>1, <2>1, Quarantining
  <2>3. step' = step + 1 BY <1>4, <2>2 DEF Onward, QuarantineOps
  <2>4. units.masked \subseteq units'.masked /\ (Current.op # "mask" => Same)
    BY <1>4, <2>2, OnlyMasks
  <2>5. Current.op = "mask" => Unit \in units'.masked BY <1>4 DEF Effect
  <2>6. ASSUME step' \in 5 .. 15 PROVE Socket \in units'.masked
    <3>1. step = 4 \/ step \in 5 .. 15 BY <2>2, <2>3, <2>6
    <3> QED BY <2>1, <2>2, <2>4, <2>5, <3>1 DEF Masking
  <2>7. ASSUME step' \in 8 .. 15 PROVE Docker \in units'.masked
    <3>1. step = 7 \/ step \in 8 .. 15 BY <2>2, <2>3, <2>7
    <3> QED BY <2>1, <2>2, <2>4, <2>5, <3>1 DEF Masking
  <2>8. ASSUME step' = 16 PROVE units'.masked = Units
    <3>1. step = 15 BY <2>2, <2>3, <2>8
    <3> QED BY <1>4, <2>2, <2>4, <3>1 DEF Same
  <2> QED BY <2>6, <2>7, <2>8
<1>5. ~ Ending BY DEF Ending
<1>6. Onward => mode # "emergency" BY DEF Onward
<1> QED BY <1>3, <1>4, <1>5, <1>6 DEF Shape

LEMMA SilenceStep == ASSUME Silence, Shape PROVE Silence'
<1>1. finding = "none" BY DEF Silence, Shape
<1> SUFFICES ASSUME Working' PROVE finding' = "none" BY DEF Silence
<1>2. ~ Ending BY DEF Ending, Working
<1>3. finding' = finding \/ finding' = "none"
  BY <1>2 DEF Shape, Onward, Leaving, GiveUp, Unwind, Continue
<1> QED BY <1>1, <1>3

(* A unit whose state after a step is enabled. *)
LEMMA EnabledStep ==
  ASSUME Typed, Hidden, Proving, EnabledAfterProof, Shape, Seen PROVE EnabledAfterProof'
<1> SUFFICES ASSUME mode' \in {"commit", "committed"}, NEW u \in Units, StateOf(u)' = "enabled"
             PROVE  u \in proved' \/ (Doing("disable")' /\ Unit' = u)
  BY DEF EnabledAfterProof
<1>1. Working /\ target' = target /\ proved \subseteq proved' /\ target \in Targets
  BY DEF Shape, Seen, Typed, Control
<1>2. Unit \in Units BY <1>1, CurrentFacts
<1>3. CASE mode' = "committed"
  <2>1. Doing("conclude") /\ Same BY <1>3 DEF Shape, Onward, Leaving, GiveUp, Unwind, Ending, Goto, Working
  <2>2. Current.op = "conclude" BY <2>1 DEF Doing
  <2>3. mode = "commit"
    <3>1. Current.op \notin QuarantineOps /\ Current.op \notin {"emergency", "raise"}
      BY <2>2 DEF QuarantineOps
    <3> QED BY <1>1, <3>1, CurrentFacts DEF Working
  <2>4. StateOf(u) = "enabled" BY <2>1, Untouched
  <2>5. u \in proved BY <2>2, <2>3, <2>4 DEF EnabledAfterProof, Doing
  <2> QED BY <1>1, <2>5
<1>4. CASE mode' = "commit"
  <2>1. mode = "commit" BY <1>4, Stays
  <2>2. /\ Script' = Script /\ step \in 1 .. Len(Script) /\ Effect
        /\ Current = Script[step] /\ Current \in Steps /\ Orderly(Script, target)
        /\ step' = step + 1 \/ Current.op = "settle"
    BY <1>4, <2>1, Forward
  <2>3. CASE Unit # u \/ Same
    <3>1. StateOf(u) = "enabled" BY <1>2, <2>2, <2>3, Touches, Untouched
    <3>2. CASE u \in proved BY <1>1, <3>2
    <3>3. CASE u \notin proved
      <4>1. Doing("disable") /\ Unit = u BY <2>1, <3>1, <3>3 DEF EnabledAfterProof
      <4>2. Current.op = "disable" /\ Same BY <2>3, <4>1 DEF Doing
      <4>3. units'.link = Relinked("disabled") /\ units'.link = units.link
            /\ units'.masked = units.masked
        BY <2>2, <4>2 DEF Effect, Same
      <4>4. units.link \in [Units -> UnitFileStates \ {"masked"}] BY DEF Typed, Data, UnitRecords
      <4>5. units.link[u] # "enabled" BY <4>1, <4>3, <4>4 DEF Relinked
      <4> QED BY <3>1, <4>5 DEF StateOf
    <3> QED BY <3>2, <3>3
  <2>4. CASE Unit = u /\ ~ Same
    <3>1. Current.op \in {"unmask", "mask", "emergency", "disable", "enable"} BY <2>2, <2>4 DEF Effect
    <3>2. step' = step + 1 BY <2>2, <3>1
    <3>3. u \notin units'.masked /\ units'.link[u] = "enabled" BY DEF StateOf
    <3>4. units.link \in [Units -> UnitFileStates \ {"masked"}] BY DEF Typed, Data, UnitRecords
    <3>5. CASE Current.op = "unmask"
      <4>1. units.link[u] = "enabled" BY <2>2, <3>3, <3>5 DEF Effect
      <4>2. "enabled" \in HiddenLinks(target[u].state) BY <4>1 DEF Hidden
      <4>3. target[u].state \notin {"static", "not-found"} BY <4>2 DEF HiddenLinks
      <4>4. /\ Prepared(target, u) # "masked"
            /\ Prepared(target, u) = "disabled" =>
                 step + 1 \in 1 .. Len(Script) /\ Script[step + 1].op = "disable"
                   /\ Script[step + 1].unit = u
        BY <2>2, <2>4, <3>5 DEF Orderly, Opens, Unit
      <4>5. Prepared(target, u) = "disabled"
        <5>1. target[u].state \in UnitFileStates BY <1>1, TargetFacts
        <5> QED BY <4>3, <4>4, <5>1 DEF Prepared, PreparedState, UnitFileStates
      <4>6. Current'.op = "disable" /\ Current'.unit = u BY <2>2, <3>2, <4>4, <4>5 DEF Current
      <4>7. Working' BY <1>4 DEF Working
      <4> QED BY <4>6, <4>7 DEF Doing, Unit
    <3>6. CASE Current.op \in {"mask", "emergency"} BY <2>2, <2>4, <3>3, <3>6 DEF Effect
    <3>7. CASE Current.op = "disable"
      <4>1. units'.link = Relinked("disabled") BY <2>2, <3>7 DEF Effect
      <4> QED BY <2>4, <3>3, <3>4, <4>1 DEF Relinked
    <3>8. CASE Current.op = "enable"
      <4>1. CASE u \in Nvidia
        <5>1. PICK j \in 1 .. Len(Script) : /\ j < step /\ Script[j].op = "check" /\ Script[j].on
                                            /\ Script[j].unit = u
          BY <2>2, <2>4, <3>8, <4>1 DEF Orderly, Proves, Unit
        <5>2. Tested(u) BY <5>1 DEF Tested
        <5> QED BY <1>1, <2>1, <4>1, <5>2 DEF Proving
      <4>2. CASE u \in DockerUnits
        <5>1. PICK j \in 1 .. Len(Script) : j < step /\ Script[j].op = "gate"
          BY <2>2, <2>4, <3>8, <4>2 DEF Orderly, Guarded, Unit
        <5>2. GatePassed BY <5>1 DEF GatePassed
        <5> QED BY <1>1, <2>1, <4>2, <5>2 DEF Proving
      <4> QED BY <4>1, <4>2, UnitKinds
    <3> QED BY <3>1, <3>5, <3>6, <3>7, <3>8
  <2> QED BY <2>3, <2>4
<1> QED BY <1>3, <1>4

(* Docker's units masked, or the NVIDIA services exact. *)
LEMMA BehindStep ==
  ASSUME Typed, InOrder, Masking, DockerBehindNvidia, Shape PROVE DockerBehindNvidia'
<1> DEFINE Closed == \A u \in {Docker, Socket} : u \in units.masked
           Opened == \A u \in Nvidia : StateOf(u) = target[u].state
<1> SUFFICES ASSUME mode' \in {"commit", "quarantine", "retry", "committed", "failed"}
             PROVE  Closed' \/ Opened'
  BY DEF DockerBehindNvidia
<1>1. Working /\ target' = target /\ (Effect \/ Same) BY DEF Shape
<1>2. Unit \in Units BY <1>1, CurrentFacts
<1>3. CASE mode = "commit"
  <2>1. CASE Unit \in DockerUnits
    <3>1. \A u \in Nvidia : ~ Pending(u) BY <1>1, <1>3, <2>1, NvidiaDone
    <3>2. \A u \in Nvidia : IsExact(u) BY <1>3, <3>1 DEF InOrder
    <3>3. \A u \in Nvidia : StateOf(u)' = StateOf(u)
      <4> TAKE u \in Nvidia
      <4>1. u \in Units /\ u # Unit BY <2>1, UnitKinds
      <4> QED BY <1>1, <1>2, <4>1, Touches
    <3> QED BY <1>1, <3>2, <3>3 DEF IsExact
  <2>2. CASE Unit \in Nvidia
    <3>1. step \in step .. Len(Script)
      <4>1. Script \in Seq(Steps) /\ step \in 1 .. Len(Script) BY <1>1, ScriptFacts
      <4> QED BY <4>1
    <3>2. Pending(Unit) BY <3>1 DEF Pending, Unit, Current
    <3>3. DockerUnits \subseteq units.masked BY <1>3, <2>2, <3>2 DEF InOrder
    <3>4. \A u \in DockerUnits : u \in units'.masked
      <4> TAKE u \in DockerUnits
      <4>1. u \in Units /\ u # Unit BY <2>2, UnitKinds
      <4> QED BY <1>1, <1>2, <3>3, <4>1, Touches
    <3> QED BY <3>4 DEF DockerUnits
  <2> QED BY <1>2, <2>1, <2>2, UnitKinds
<1>4. CASE mode \in {"quarantine", "retry"}
  <2>1. Closed \/ Opened BY <1>4 DEF DockerBehindNvidia
  <2>2. /\ step \in 1 .. 16 /\ Current.op \in QuarantineOps
        /\ Current.op = "probe" <=> step = 16
        /\ step \in 1 .. 7 /\ Current.op = "mask" => Unit \in DockerUnits
    BY <1>1, <1>4, Quarantining
  <2>3. units.masked \subseteq units'.masked /\ (Current.op # "mask" => Same)
    BY <1>1, <1>2, <2>2, OnlyMasks
  <2>4. Closed => Closed' BY <2>3
  <2>5. CASE Opened /\ ~ Closed
    <3>1. ~ (step \in 8 .. 15) BY <1>4, <2>5 DEF Masking
    <3>2. Current.op = "mask" => Unit \in DockerUnits BY <2>2, <3>1
    <3>3. \A u \in Nvidia : StateOf(u)' = StateOf(u)
      <4> TAKE u \in Nvidia
      <4>1. CASE Current.op = "mask"
        <5>1. u \in Units /\ u # Unit BY <3>2, <4>1, UnitKinds
        <5> QED BY <1>1, <1>2, <5>1, Touches
      <4>2. CASE Current.op # "mask" BY <2>3, <4>2, Untouched
      <4> QED BY <4>1, <4>2
    <3> QED BY <1>1, <2>5, <3>3
  <2> QED BY <2>1, <2>4, <2>5
<1>5. mode # "emergency"
  <2>1. SUFFICES ASSUME mode = "emergency" PROVE FALSE OBVIOUS
  <2>2. Current.op \in {"emergency", "raise"} BY <1>1, <2>1, CurrentFacts
  <2> QED BY <2>1, <2>2 DEF Shape, Onward, Leaving, GiveUp, Unwind, Ending, Doing, Goto
<1> QED BY <1>1, <1>3, <1>4, <1>5 DEF Working

LEMMA StepInvariant == ASSUME IInv, Program PROVE IInv'
<1>1. Typed /\ Hidden /\ InOrder /\ Proving /\ Bound /\ Masking /\ Silence
  BY DEF IInv
<1>2. EnabledAfterProof /\ DockerBehindNvidia BY DEF IInv
<1>3. Shape /\ Seen /\ Binding /\ Data' BY <1>1, ProgramSteps DEF Outcome
<1>4. Working /\ target' = target /\ (Effect \/ Same) BY <1>3 DEF Shape
<1>5. Unit \in Units BY <1>1, <1>4, CurrentFacts
<1>6. Typed' BY <1>1, <1>3, ControlStep DEF Typed
<1>7. Hidden' BY <1>1, <1>4, <1>5, HiddenStep
<1>8. InOrder' BY <1>1, <1>3, InOrderStep
<1>9. Proving' BY <1>1, <1>3, ProvingStep
<1>10. Bound' BY <1>1, <1>3, BoundStep
<1>11. Concluding' BY <1>1, <1>3, ConcludingStep
<1>12. Masking' BY <1>1, <1>3, MaskingStep
<1>13. Silence' BY <1>1, <1>3, SilenceStep
<1>14. EnabledAfterProof' BY <1>1, <1>2, <1>3, EnabledStep
<1>15. DockerBehindNvidia' BY <1>1, <1>2, <1>3, BehindStep
<1> QED BY <1>6, <1>7, <1>8, <1>9, <1>10, <1>11, <1>12, <1>13, <1>14, <1>15 DEF IInv

LEMMA WorldInvariant == ASSUME IInv, World PROVE IInv'
<1>1. /\ Typed /\ Hidden /\ InOrder /\ Proving /\ Bound /\ Concluding /\ Masking /\ Silence
      /\ EnabledAfterProof /\ DockerBehindNvidia
  BY DEF IInv
<1>2. Aside /\ Data' BY <1>1, WorldSteps
<1>3. /\ Working /\ target' = target /\ requires' = requires /\ Same /\ audit' = audit
      /\ proved' = proved /\ step' = step /\ quarantined' = quarantined /\ finding' = finding
  BY <1>2 DEF Aside
<1>4. units'.masked = units.masked /\ units'.link = units.link BY <1>3 DEF Same
<1>5. \A u : StateOf(u)' = StateOf(u) BY <1>3, Untouched
<1>6. Control BY <1>1 DEF Typed
<1>7. Hidden' BY <1>1, <1>3, <1>4 DEF Hidden
<1>8. CASE mode' = mode
  <2>1. Script' = Script BY <1>3, <1>8 DEF Script
  <2>2. Current' = Current /\ Working' BY <1>3, <1>8, <2>1 DEF Current, Working
  <2>3. Control'
    <3>1. step \in 1 .. Len(Script) BY <1>3, <1>6 DEF Control
    <3>2. step' \in 1 .. Len(Script') BY <1>3, <2>1, <3>1
    <3> QED BY <1>3, <1>6, <1>8, <3>2 DEF Control
  <2>4. InOrder'
    <3>1. \A u \in Nvidia : (Pending(u)' <=> Pending(u)) /\ (IsExact(u)' <=> IsExact(u))
      BY <1>3, <1>5, <2>1 DEF Pending, IsExact
    <3> QED BY <1>1, <1>4, <1>8, <3>1 DEF InOrder
  <2>5. GatePassed' <=> GatePassed BY <1>3, <2>1 DEF GatePassed
  <2>6. Proving'
    <3>1. \A u \in Nvidia : Tested(u)' <=> Tested(u) BY <1>3, <2>1 DEF Tested
    <3> QED BY <1>1, <1>3, <1>8, <2>5, <3>1 DEF Proving
  <2>7. identity'[Docker] = "current" => identity[Docker] = "current" /\ (gated => gated')
    BY <1>2, <1>8, <1>3 DEF Aside, Working
  <2>8. Bound' BY <1>1, <1>3, <1>8, <2>5, <2>7 DEF Bound
  <2>9. Doing("conclude")' <=> Doing("conclude") BY <1>3, <2>2 DEF Doing
  <2>10. Concluding' BY <1>1, <1>3, <1>5, <1>8, <2>9 DEF Concluding
  <2>11. Masking' BY <1>1, <1>3, <1>4, <1>8 DEF Masking
  <2>12. Silence' BY <1>1, <1>3, <2>2 DEF Silence
  <2>13. Doing("disable")' <=> Doing("disable") BY <1>3, <2>2 DEF Doing
  <2>14. Unit' = Unit BY <2>2 DEF Unit
  <2>15. EnabledAfterProof' BY <1>1, <1>3, <1>5, <1>8, <2>13, <2>14 DEF EnabledAfterProof
  <2>16. DockerBehindNvidia' BY <1>1, <1>3, <1>4, <1>5, <1>8 DEF DockerBehindNvidia
  <2> QED BY <1>2, <1>7, <2>3, <2>4, <2>6, <2>8, <2>10, <2>11, <2>12, <2>15, <2>16 DEF IInv, Typed
<1>9. CASE mode' = "down"
  <2>1. ~ Working' BY <1>9 DEF Working
  <2>2. Control' BY <1>3, <1>6, <1>9, <2>1 DEF Control
  <2>3. InOrder' /\ Proving' /\ Bound' /\ Concluding' /\ Masking' /\ Silence'
    BY <1>9, <2>1 DEF InOrder, Proving, Bound, Concluding, Masking, Silence
  <2>4. EnabledAfterProof' /\ DockerBehindNvidia' BY <1>9 DEF EnabledAfterProof, DockerBehindNvidia
  <2> QED BY <1>2, <1>7, <2>2, <2>3, <2>4 DEF IInv, Typed
<1> QED BY <1>2, <1>8, <1>9 DEF Aside

LEMMA InitInvariant == ASSUME Init PROVE IInv
<1>1. /\ target \in Targets /\ requires \in Requires /\ audit = Observed
      /\ identity = [u \in Trusted |-> "none"] /\ workload = FALSE
      /\ mode = "commit" /\ step = 1 /\ quarantined = TRUE /\ finding = "none"
      /\ gated = FALSE /\ proved = {}
  BY DEF Init
<1>2. PICK link \in [Units -> {"enabled", "disabled", "static", "not-found"}] :
        /\ \A u \in Units : link[u] \in HiddenLinks(target[u].state)
        /\ units = [active |-> {}, masked |-> Units, link |-> link]
  BY DEF Init
<1>3. /\ units.active = {} /\ units.masked = Units /\ units.link = link BY <1>2
<1>4. units \in UnitRecords BY <1>2 DEF UnitRecords, UnitFileStates
<1>5. \A u \in Units : StateOf(u) = "masked" BY <1>3 DEF StateOf
<1>6. Data
  <2>1. audit \in [Units -> Target] BY <1>1, <1>5 DEF Observed, Target, UnitFileStates
  <2>2. identity \in [Trusted -> {"none", "current", "stale"}] BY <1>1
  <2> QED BY <1>1, <1>4, <2>1, <2>2 DEF Data
<1>7. Script = CommitScript(target) BY <1>1 DEF Script, Commits
<1>8. Orderly(CommitScript(target), target) BY <1>1, CommitFacts
<1>9. Orderly(Script, target) BY <1>7, <1>8, Zenon
<1>10. 1 \in 1 .. Len(Script) /\ Script \in Seq(Steps) /\ Len(Script) \in Nat /\ Len(Script) > 1
  BY <1>9 DEF Orderly, Concludes
<1>11. Control BY <1>1, <1>10 DEF Control
<1>12. Typed BY <1>6, <1>11 DEF Typed
<1>13. Hidden BY <1>2, <1>3 DEF Hidden
<1>14. InOrder
  <2>1. DockerUnits \subseteq units.masked BY <1>3, UnitKinds
  <2>2. ASSUME NEW u \in Nvidia PROVE Pending(u) \/ IsExact(u)
    <3>1. Appears(CommitScript(target), u) BY <1>1, NvidiaHasTurn
    <3>2. Appears(Script, u) BY <1>7, <3>1, Zenon
    <3> QED BY <1>1, <3>2 DEF Pending, Appears
  <2> QED BY <2>1, <2>2 DEF InOrder
<1>15. Proving
  <2>1. \A j \in 1 .. Len(Script) : ~ (j < 1) OBVIOUS
  <2> QED BY <1>1, <2>1 DEF Proving, Tested, GatePassed
<1>16. Bound BY <1>1 DEF Bound, Trusted
<1>17. Concluding
  <2>1. Script[1].op # "conclude" BY <1>9, <1>10 DEF Orderly, Concludes
  <2> QED BY <1>1, <2>1 DEF Concluding, Doing, Current
<1>18. Masking /\ Silence BY <1>1 DEF Masking, Silence
<1>19. EnabledAfterProof BY <1>5 DEF EnabledAfterProof
<1>20. DockerBehindNvidia BY <1>3, UnitKinds DEF DockerBehindNvidia, DockerUnits
<1> QED BY <1>12, <1>13, <1>14, <1>15, <1>16, <1>17, <1>18, <1>19, <1>20 DEF IInv

LEMMA NextInvariant == IInv /\ [Next]_vars => IInv'
<1> SUFFICES ASSUME IInv, [Next]_vars PROVE IInv' OBVIOUS
<1>1. CASE Program BY <1>1, StepInvariant
<1>2. CASE World BY <1>2, WorldInvariant
<1>3. CASE UNCHANGED vars
  <2>1. /\ target' = target /\ requires' = requires /\ units' = units /\ audit' = audit
        /\ identity' = identity /\ workload' = workload /\ mode' = mode /\ step' = step
        /\ quarantined' = quarantined /\ finding' = finding /\ gated' = gated /\ proved' = proved
    BY <1>3 DEF vars, request, control, history
  <2>2. Script' = Script BY <2>1 DEF Script
  <2>3. Current' = Current /\ (Working' <=> Working) BY <2>1, <2>2 DEF Current, Working
  <2>4. \A u : StateOf(u)' = StateOf(u) BY <2>1 DEF StateOf
  <2>5. Unit' = Unit BY <2>3 DEF Unit
  <2>6. \A op : Doing(op)' <=> Doing(op) BY <2>3 DEF Doing
  <2>7. /\ Typed /\ Hidden /\ InOrder /\ Proving /\ Bound /\ Concluding /\ Masking /\ Silence
        /\ EnabledAfterProof /\ DockerBehindNvidia
    BY DEF IInv
  <2>8. Typed' BY <2>1, <2>2, <2>3, <2>7 DEF Typed, Data, Control
  <2>9. Hidden' BY <2>1, <2>7 DEF Hidden
  <2>10. InOrder'
    <3>1. \A u \in Nvidia : (Pending(u)' <=> Pending(u)) /\ (IsExact(u)' <=> IsExact(u))
      BY <2>1, <2>2, <2>4 DEF Pending, IsExact
    <3> QED BY <2>1, <2>7, <3>1 DEF InOrder
  <2>11. GatePassed' <=> GatePassed BY <2>1, <2>2 DEF GatePassed
  <2>12. Proving'
    <3>1. \A u \in Nvidia : Tested(u)' <=> Tested(u) BY <2>1, <2>2 DEF Tested
    <3> QED BY <2>1, <2>7, <2>11, <3>1 DEF Proving
  <2>13. Bound' BY <2>1, <2>7, <2>11 DEF Bound
  <2>14. Concluding' BY <2>1, <2>4, <2>6, <2>7 DEF Concluding
  <2>15. Masking' BY <2>1, <2>7 DEF Masking
  <2>16. Silence' BY <2>1, <2>3, <2>7 DEF Silence
  <2>17. EnabledAfterProof' BY <2>1, <2>4, <2>5, <2>6, <2>7 DEF EnabledAfterProof
  <2>18. DockerBehindNvidia' BY <2>1, <2>4, <2>7 DEF DockerBehindNvidia
  <2> QED BY <2>8, <2>9, <2>10, <2>12, <2>13, <2>14, <2>15, <2>16, <2>17, <2>18 DEF IInv
<1> QED BY <1>1, <1>2, <1>3 DEF Next

-----------------------------------------------------------------------------
(* Theorems. *)

(* The invariant holds throughout (_commit_rollback_service_activity).        *)
THEOREM Invariance == Spec => []IInv
<1>1. Init => IInv BY InitInvariant
<1> QED BY <1>1, NextInvariant, PTL DEF Spec

(* Every state is well formed; the program never runs past its script.        *)
THEOREM TypeCorrectness == Spec => []TypeOK
<1>1. IInv => TypeOK BY Types DEF IInv
<1> QED BY <1>1, Invariance, PTL

(* During the commit a launcher is enabled for boot only after it was proved  *)
(* startable, but for the step between unmask and disable                     *)
(* (_prepare_rollback_unit_safely, _finalize_rollback_unit_state).            *)
THEOREM EnabledWhenProved == Spec => []EnabledAfterProof
<1>1. IInv => EnabledAfterProof BY DEF IInv
<1> QED BY <1>1, Invariance, PTL

(* Docker is open only while both NVIDIA services are exact, in the commit and *)
(* in the quarantine, wherever that stops                                     *)
(* (_quarantine_failed_launcher_commit).                                      *)
THEOREM DockerOpensLast == Spec => []DockerBehindNvidia
<1>1. IInv => DockerBehindNvidia BY DEF IInv
<1> QED BY <1>1, Invariance, PTL

(* The step that ends the commit: the last of the script, with all of it done. *)
LEMMA Committing ==
  ASSUME IInv, [Next]_vars, mode' = "committed", mode # "committed"
  PROVE  /\ mode = "commit" /\ Doing("conclude") /\ audit = target /\ IdentitiesHold /\ Same
         /\ step = Len(Script) /\ Orderly(Script, target)
<1>1. Typed BY DEF IInv
<1>2. ~ UNCHANGED vars BY DEF vars, control
<1>3. ~ World
  <2>1. SUFFICES ASSUME World PROVE FALSE OBVIOUS
  <2>2. Aside BY <1>1, <2>1, WorldSteps
  <2> QED BY <2>2 DEF Aside
<1>4. Program BY <1>2, <1>3 DEF Next
<1>5. Shape BY <1>1, <1>4, ProgramSteps DEF Outcome
<1>6. ~ Onward /\ ~ Leaving BY DEF Onward, Leaving, GiveUp, Unwind, Goto
<1>7. Ending /\ Same /\ Working BY <1>5, <1>6 DEF Shape
<1>8. Doing("conclude") /\ audit = target /\ IdentitiesHold BY <1>7 DEF Ending
<1>9. Current.op = "conclude" BY <1>8 DEF Doing
<1>10. mode = "commit"
  <2>1. Current.op \notin QuarantineOps /\ Current.op \notin {"emergency", "raise"}
    BY <1>9 DEF QuarantineOps
  <2> QED BY <1>1, <1>7, <2>1, CurrentFacts DEF Working
<1>11. Orderly(Script, target) /\ step \in 1 .. Len(Script) BY <1>1, <1>7, <1>10, ScriptFacts
<1>12. step = Len(Script) BY <1>9, <1>11 DEF Orderly, Concludes, Current
<1> QED BY <1>7, <1>8, <1>10, <1>11, <1>12

(* A released daemon is the one that passed the workload gate                 *)
(* (_verify_joint_launcher_commit, _post_docker_workload_checkpoint).         *)
THEOREM ReleasesGated == Spec => GatedDaemon
<1>1. ASSUME IInv, [Next]_vars
      PROVE  [mode' = "committed" /\ mode = "commit" /\ target[Docker].active => gated]_vars
  <2> SUFFICES ASSUME mode' = "committed", mode = "commit", target[Docker].active PROVE gated
    OBVIOUS
  <2>1. IdentitiesHold /\ step = Len(Script) /\ Orderly(Script, target) BY <1>1, Committing
  <2>2. GatePassed BY <2>1 DEF Orderly, GatePassed
  <2>3. Identified(Docker) BY <2>1 DEF IdentitiesHold, Trusted
  <2>4. Bound BY <1>1 DEF IInv
  <2> QED BY <2>2, <2>3, <2>4 DEF Bound, Identified
<1> QED BY <1>1, Invariance, PTL DEF Spec, GatedDaemon

(* The commit is what Recovery takes it for: committed only with every unit   *)
(* file exact, failed without a finding only with every one masked            *)
(* (_commit_rollback_service_activity, _quarantine_failed_launcher_commit).   *)
THEOREM Releases == Spec => ImplementsRelease
<1> DEFINE Exact == {u \in Units : StateOf(u) = target[u].state}
           Ended == IF Working THEN "running" ELSE mode
<1>1. Init => Release!Init
  <2> SUFFICES ASSUME Init PROVE Release!Init OBVIOUS
  <2>1. /\ units.masked = Units /\ mode = "commit" /\ finding = "none" BY DEF Init
  <2> QED BY <2>1 DEF Release!Init, Working
<1>2. ASSUME IInv, [Next]_vars PROVE [Release!Next]_(Release!vars)
  <2>1. /\ Typed /\ Concluding /\ Masking /\ Silence BY <1>2 DEF IInv
  <2>2. units.masked \subseteq Units BY <2>1 DEF Typed, Data, UnitRecords
  <2>3. CASE UNCHANGED vars
    <3>1. units' = units /\ target' = target /\ mode' = mode /\ finding' = finding
      BY <2>3 DEF vars, request, control
    <3>2. Exact' = Exact /\ Ended' = Ended BY <3>1 DEF StateOf, Working
    <3> QED BY <3>1, <3>2 DEF Release!vars
  <2>4. CASE Next /\ Working'
    <3>1. Working
      <4>1. CASE Program
        <5>1. Shape BY <2>1, <4>1, ProgramSteps DEF Outcome
        <5> QED BY <5>1 DEF Shape
      <4>2. CASE World
        <5>1. Aside BY <2>1, <4>2, WorldSteps
        <5> QED BY <5>1 DEF Aside
      <4> QED BY <2>4, <4>1, <4>2 DEF Next
    <3>2. IInv' BY <1>2, NextInvariant
    <3>3. units'.masked \subseteq Units /\ finding' = "none"
      BY <2>4, <3>2 DEF IInv, Typed, Data, UnitRecords, Silence
    <3>4. finding = "none" BY <2>1, <3>1 DEF Silence
    <3> QED BY <2>4, <3>1, <3>3, <3>4 DEF Release!Next, Release!Work
  <2>5. CASE World /\ ~ Working'
    <3>1. Aside BY <2>1, <2>5, WorldSteps
    <3>2. /\ Working /\ target' = target /\ Same /\ finding' = finding /\ mode' = "down"
      BY <2>5, <3>1 DEF Aside, Working
    <3>3. units'.masked = units.masked /\ Exact' = Exact
      <4>1. \A u : StateOf(u)' = StateOf(u) BY <3>2, Untouched
      <4> QED BY <3>2, <4>1 DEF Same
    <3> QED BY <2>5, <3>2, <3>3 DEF Release!Next, Release!PowerLoss
  <2>6. CASE Program /\ ~ Working'
    <3>1. Shape BY <2>1, <2>6, ProgramSteps DEF Outcome
    <3>2. ~ Onward /\ ~ Leaving
      BY <2>6, <3>1 DEF Shape, Onward, Leaving, GiveUp, Unwind, Goto, Working
    <3>3. Ending /\ Same /\ Working /\ target' = target BY <3>1, <3>2 DEF Shape
    <3>4. units'.masked = units.masked /\ Exact' = Exact
      <4>1. \A u : StateOf(u)' = StateOf(u) BY <3>3, Untouched
      <4> QED BY <3>3, <4>1 DEF Same
    <3>5. CASE mode' = "committed"
      <4>1. /\ mode = "commit" /\ Doing("conclude") /\ audit = target
        BY <1>2, <3>3, <3>5, Committing DEF Working
      <4>2. \A u \in Units : StateOf(u) = target[u].state BY <2>1, <4>1 DEF Concluding
      <4>3. Exact = Units BY <4>2
      <4>4. finding' = finding BY <3>3, <3>5 DEF Ending
      <4> QED BY <2>6, <3>3, <3>4, <3>5, <4>3, <4>4 DEF Release!Next, Release!Commit
    <3>6. CASE mode' \in {"failed", "raised"}
      <4>1. mode' = "failed" /\ finding' = "none" => units.masked = Units
        <5> SUFFICES ASSUME mode' = "failed", finding' = "none" PROVE units.masked = Units
          OBVIOUS
        <5>1. Doing("probe") /\ quarantined BY <3>3 DEF Ending
        <5>2. Current.op = "probe" BY <5>1 DEF Doing
        <5>3. mode \in {"quarantine", "retry"}
          <6>1. Current.op \notin {"emergency", "raise"} BY <5>2
          <6> QED BY <2>1, <3>3, <5>2, <6>1, CurrentFacts DEF Working
        <5>4. step = 16 BY <2>1, <3>3, <5>2, <5>3, Quarantining
        <5> QED BY <2>1, <5>1, <5>3, <5>4 DEF Masking
      <4> QED BY <2>6, <3>3, <3>4, <3>6, <4>1 DEF Release!Next, Release!FailClosed
    <3> QED BY <3>3, <3>5, <3>6 DEF Ending
  <2> QED BY <1>2, <2>3, <2>4, <2>5, <2>6 DEF Next
<1> QED BY <1>1, <1>2, Invariance, PTL DEF Spec, ImplementsRelease, Release!Spec
=============================================================================
