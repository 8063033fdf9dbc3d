--------------------------- MODULE CleanCommitProofs ---------------------------
(***************************************************************************)
(* Proof that a commit which nothing fails or disturbs succeeds for        *)
(* exactly the releasable snapshots, for every snapshot and every          *)
(* enablement behind the masks. The invariant follows the script from      *)
(* joint to joint: at each it says what the host is by then, so that the    *)
(* next step either does what it is for or has a reason to refuse that is   *)
(* in the snapshot.                                                        *)
(***************************************************************************)
EXTENDS LauncherCommitProofs

(* The configurations of which CleanCommitSucceeds speaks. *)
Undisturbed == Faults = {} /\ Environment = {}

-----------------------------------------------------------------------------
(* The script from each of its joints on. *)

Then(s, r) == s \o r

FromConclude        == Then(Do("conclude", Docker), <<>>)
FromAudit           == Then(Do("audit", Docker), FromConclude)
FromLastGate(t)     == Then(When(FinalGateRequired(t), Do("gate", Docker)), FromAudit)
FromJoint(t)        == Then(Do("identify", Docker), FromLastGate(t))
SocketState(t)      ==
  IF TemporarySocket(t) THEN Quarantine(Socket) \o Do("final", Socket) ELSE Finalize(t, Socket)
FromSocketState(t)  == Then(SocketState(t), FromJoint(t))
FromDockerState(t)  == Then(Finalize(t, Docker), FromSocketState(t))
FromCompare(t)      == Then(Do("compare", Docker), FromDockerState(t))
FromReset(t)        ==
  Then(Set(Socket, t[Socket].active, PreparedState(t[Socket].state)), FromCompare(t))
FromSettle(t)       == Then(Do("settle", Socket), FromReset(t))
FromStop(t)         == Then(Stopping(t), FromSettle(t))
FromGate(t)         == Then(Gating(t), FromStop(t))
FromDocker(t)       == Then(Set(Docker, ProveDocker(t), Prepared(t, Docker)), FromGate(t))
Trying(t)           == When(ProveSocket(t), Set(Socket, TRUE, Prepared(t, Socket)))
FromSocket(t)       == Then(Trying(t), FromDocker(t))
FromDockerUnit(t)   == Then(Prepare(t, Docker), FromSocket(t))
FromSocketUnit(t)   == Then(Prepare(t, Socket), FromDockerUnit(t))

(* Of an NVIDIA service; r is what comes after it. *)
Testing(t, u)         == When(NeedsActivationProof(t, u), Set(u, TRUE, Prepared(t, u)))
FromState(t, u, r)    == Then(Finalize(t, u), r)
FromActivity(t, u, r) == Then(Set(u, t[u].active, Prepared(t, u)), FromState(t, u, r))
FromProof(t, u, r)    == Then(Testing(t, u), FromActivity(t, u, r))
FromPersistenced(t)   ==
  Then(Prepare(t, Persistenced), FromProof(t, Persistenced, FromSocketUnit(t)))
FromFabricManager(t)  ==
  Then(Prepare(t, FabricManager), FromProof(t, FabricManager, FromPersistenced(t)))

Beyond(t, u) == IF u = FabricManager THEN FromPersistenced(t) ELSE FromSocketUnit(t)
FromPrepared(t, u) ==
  IF u = Socket THEN FromDockerUnit(t)
  ELSE IF u = Docker THEN FromSocket(t)
  ELSE FromProof(t, u, Beyond(t, u))

-----------------------------------------------------------------------------
(* What is known of the host at each place of the script. *)

(* r is what is left of the script. *)
Left(r) == \E p \in Seq(Steps) : Script = Then(p, r) /\ step = Len(p) + 1

Known         == audit = Observed
Shut(u)       == u \in units.masked /\ u \notin units.active
Held(t, u, on) == StateOf(u) = Prepared(t, u) /\ (u \in units.active <=> on)
Exact(t, u)   == StateOf(u) = t[u].state /\ (u \in units.active <=> t[u].active)
Served(t)     == \A u \in Nvidia : Exact(t, u)

(* Whatever runs is trusted as it was started, and nothing uses the GPU. *)
Trusting ==
  /\ workload = FALSE
  /\ \A u \in Trusted : u \in units.active => identity[u] = "current"

(* While u has its turn, those before it have had theirs. *)
Around(t, u) ==
  /\ u # FabricManager => Exact(t, FabricManager)
  /\ u \in DockerUnits => Exact(t, Persistenced)
  /\ u = Docker => Held(t, Socket, FALSE)
  /\ u = FabricManager => Shut(Persistenced)
  /\ u \in Nvidia => Shut(Socket)
  /\ u # Docker => Shut(Docker)

(* Each unit is opened disabled and inactive. *)
FromChecking(t, u) == Then(Step("prepared", u, FALSE, Prepared(t, u)), FromPrepared(t, u))
AtPrepare(t, u) ==
  Around(t, u) /\ Known /\ Shut(u) /\ Left(Then(Prepare(t, u), FromPrepared(t, u)))
AtDisable(t, u) ==
  /\ Around(t, u) /\ u \notin units.active /\ u \notin units.masked
  /\ Prepared(t, u) = "disabled" /\ Left(Then(Do("disable", u), FromChecking(t, u)))
AtPrepared(t, u) ==
  /\ Around(t, u) /\ u \notin units.active
  /\ StateOf(u) = Prepared(t, u) /\ Left(FromChecking(t, u))

(* An NVIDIA service is proved, set to its activity and then to its state. *)
Checking(t, u, on, r) == Left(Then(Step("check", u, on, Prepared(t, u)), r))
AtProof(t, u) ==
  Around(t, u) /\ Known /\ Held(t, u, FALSE) /\ Left(FromProof(t, u, Beyond(t, u)))
AtProofCheck(t, u) ==
  Around(t, u) /\ Held(t, u, TRUE) /\ Checking(t, u, TRUE, FromActivity(t, u, Beyond(t, u)))
AtActivity(t, u) ==
  /\ Around(t, u) /\ Known /\ (Held(t, u, TRUE) \/ Held(t, u, FALSE))
  /\ Left(FromActivity(t, u, Beyond(t, u)))
AtActivityCheck(t, u) ==
  /\ Around(t, u) /\ Held(t, u, t[u].active)
  /\ Checking(t, u, t[u].active, FromState(t, u, Beyond(t, u)))
AtState(t, u) ==
  Around(t, u) /\ Known /\ Held(t, u, t[u].active) /\ Left(FromState(t, u, Beyond(t, u)))
AtFinal(t, u) == Around(t, u) /\ Exact(t, u) /\ Left(Then(Do("final", u), Beyond(t, u)))

(* The socket is tried before Docker. *)
Waiting(t) == Served(t) /\ Held(t, Docker, FALSE)
AtSocket(t) == Waiting(t) /\ Known /\ Held(t, Socket, FALSE) /\ Left(FromSocket(t))
AtSocketCheck(t) ==
  /\ Waiting(t) /\ ProveSocket(t) /\ Held(t, Socket, TRUE)
  /\ Checking(t, Socket, TRUE, FromDocker(t))
AtDocker(t) == Waiting(t) /\ Known /\ Held(t, Socket, ProveSocket(t)) /\ Left(FromDocker(t))

(* What a daemon that was started has shown. *)
Openable(t) ==
  ProveDocker(t) =>
    /\ t[Docker].state \notin Inert
    /\ requires /\ ~ TemporarySocket(t) => t[Socket].state \notin Inert

Pulled(t) == ProveSocket(t) \/ (requires /\ ProveDocker(t))
Shown(t, on) == /\ Served(t) /\ Openable(t)
                /\ Held(t, Socket, Pulled(t)) /\ Held(t, Docker, on)

AtDockerCheck(t) ==
  Shown(t, ProveDocker(t)) /\ Checking(t, Docker, ProveDocker(t), FromGate(t))
AtGate(t)      == Shown(t, ProveDocker(t)) /\ Known /\ Left(FromGate(t))
AtStop(t)      == Shown(t, ProveDocker(t)) /\ Known /\ Left(FromStop(t))
AtStopCheck(t) ==
  Shown(t, FALSE) /\ ~ t[Docker].active /\ Checking(t, Docker, FALSE, FromSettle(t))
AtSettle(t)    == Shown(t, t[Docker].active) /\ Known /\ Left(FromSettle(t))
AtReset(t)     ==
  /\ Shown(t, t[Docker].active) /\ Known /\ ~ (Pulled(t) <=> t[Socket].active)
  /\ Left(FromReset(t))

(* Stopping the socket stops a daemon that requires it. *)
Settled(t) ==
  /\ Served(t) /\ Openable(t) /\ ~ TemporarySocket(t)
  /\ Held(t, Socket, t[Socket].active)
  /\ Held(t, Docker, t[Docker].active /\ (requires => t[Socket].active))
AtResetCheck(t) ==
  /\ Settled(t)
  /\ Left(Then(Step("check", Socket, t[Socket].active, PreparedState(t[Socket].state)),
               FromCompare(t)))
AtCompare(t) == Settled(t) /\ Known /\ Left(FromCompare(t))

(* Nothing refuses from here on. *)
Releasing(t) == Served(t) /\ Releasable(t)
AtDockerState(t) ==
  /\ Releasing(t) /\ Known /\ Held(t, Docker, t[Docker].active) /\ Held(t, Socket, t[Socket].active)
  /\ Left(FromDockerState(t))
AtDockerFinal(t) ==
  /\ Releasing(t) /\ Exact(t, Docker) /\ Held(t, Socket, t[Socket].active)
  /\ Left(Then(Do("final", Docker), FromSocketState(t)))
AtSocketState(t) ==
  /\ Releasing(t) /\ Known /\ Exact(t, Docker) /\ Held(t, Socket, t[Socket].active)
  /\ Left(FromSocketState(t))
AllExact(t) == Releasing(t) /\ Exact(t, Docker) /\ Exact(t, Socket)
AtSocketFinal(t) == AllExact(t) /\ Left(Then(Do("final", Socket), FromJoint(t)))
AtJoint(t)       == AllExact(t) /\ Left(FromJoint(t))
AtLastGate(t)    == AllExact(t) /\ Left(FromLastGate(t))
AtAudit(t)       == AllExact(t) /\ Left(FromAudit)
AtConclude(t)    == AllExact(t) /\ Known /\ Left(FromConclude)

Preparing(t, u) == AtPrepare(t, u) \/ AtDisable(t, u) \/ AtPrepared(t, u)
Serving(t, u)   == \/ AtProof(t, u) \/ AtProofCheck(t, u) \/ AtActivity(t, u)
                   \/ AtActivityCheck(t, u) \/ AtState(t, u) \/ AtFinal(t, u)
Opening(t)      == AtSocket(t) \/ AtSocketCheck(t) \/ AtDocker(t)
Gated(t)        == \/ AtDockerCheck(t) \/ AtGate(t) \/ AtStop(t) \/ AtStopCheck(t)
                   \/ AtSettle(t) \/ AtReset(t)
Settling(t)     == AtResetCheck(t) \/ AtCompare(t)
Closing(t)      == \/ AtDockerState(t) \/ AtDockerFinal(t) \/ AtSocketState(t) \/ AtSocketFinal(t)
                   \/ AtJoint(t) \/ AtLastGate(t) \/ AtAudit(t) \/ AtConclude(t)

Place(t) ==
  \/ \E u \in Units : Preparing(t, u)
  \/ \E u \in Nvidia : Serving(t, u)
  \/ Opening(t) \/ Gated(t) \/ Settling(t) \/ Closing(t)

(* The invariant of a commit that nothing disturbs. *)
CleanInv ==
  /\ mode = "commit" => Trusting /\ \E t \in Targets : t = target /\ Place(t)
  /\ CleanCommitSucceeds

-----------------------------------------------------------------------------
(* Scripts. *)

LEMMA Units4 ==
  /\ Docker \in Units /\ Socket \in Units /\ FabricManager \in Units /\ Persistenced \in Units
  /\ Units = {FabricManager, Persistenced, Docker, Socket}
  /\ Nvidia = {FabricManager, Persistenced} /\ Trusted = {FabricManager, Persistenced, Docker}
  /\ DockerUnits = {Docker, Socket}
  /\ FabricManager # Persistenced /\ FabricManager # Docker /\ FabricManager # Socket
  /\ Persistenced # Docker /\ Persistenced # Socket /\ Docker # Socket
BY DEF Units, Trusted, Nvidia, DockerUnits, Docker, Socket, FabricManager, Persistenced

LEMMA ThenSeq == \A s \in Seq(Steps), r \in Seq(Steps) : Then(s, r) \in Seq(Steps)
BY Concat DEF Then

LEMMA ThenLen ==
  \A s \in Seq(Steps), r \in Seq(Steps) : Len(Then(s, r)) = Len(s) + Len(r) /\ Len(s) \in Nat
<1> SUFFICES ASSUME NEW s \in Seq(Steps), NEW r \in Seq(Steps)
             PROVE  Len(s \o r) = Len(s) + Len(r) /\ Len(s) \in Nat
  BY DEF Then
<1> QED BY Concat

LEMMA ThenAssoc ==
  \A s \in Seq(Steps), r \in Seq(Steps), v \in Seq(Steps) :
    Then(Then(s, r), v) = Then(s, Then(r, v))
<1> SUFFICES ASSUME NEW s \in Seq(Steps), NEW r \in Seq(Steps), NEW v \in Seq(Steps)
             PROVE  (s \o r) \o v = s \o (r \o v)
  BY DEF Then
<1> QED BY Assoc

LEMMA ThenNone == <<>> \in Seq(Steps) /\ \A r \in Seq(Steps) : Then(<<>>, r) = r
BY DEF Then

LEMMA WhenParts ==
  ASSUME NEW b \in BOOLEAN, NEW s \in Seq(Steps), NEW r \in Seq(Steps)
  PROVE  /\ When(b, s) \in Seq(Steps)
         /\ b => Then(When(b, s), r) = Then(s, r)
         /\ ~ b => Then(When(b, s), r) = r
<1>1. CASE b
  <2>1. When(b, s) = s BY <1>1 DEF When
  <2> QED BY <1>1, <2>1
<1>2. CASE ~ b
  <2>1. When(b, s) = <<>> BY <1>2 DEF When
  <2> QED BY <1>2, <2>1, ThenNone
<1> QED BY <1>1, <1>2

LEMMA StepSeq ==
  ASSUME NEW op \in Ops, NEW u \in Units, NEW on \in BOOLEAN, NEW s \in UnitFileStates
  PROVE  Step(op, u, on, s) \in Seq(Steps)
BY Single

LEMMA DoSeq == ASSUME NEW op \in Ops, NEW u \in Units PROVE Do(op, u) \in Seq(Steps)
BY DoFacts

LEMMA OpsNamed ==
  /\ "unmask" \in Ops /\ "disable" \in Ops /\ "prepared" \in Ops /\ "activity" \in Ops
  /\ "check" \in Ops /\ "gate" \in Ops /\ "settle" \in Ops /\ "compare" \in Ops
  /\ "enable" \in Ops /\ "final" \in Ops /\ "identify" \in Ops /\ "audit" \in Ops
  /\ "conclude" \in Ops /\ "observe" \in Ops /\ "mask" \in Ops /\ "halt" \in Ops
BY DEF Ops

LEMMA Booleans ==
  ASSUME NEW t \in Targets
  PROVE  /\ \A u \in Units : t[u].active \in BOOLEAN /\ NeedsActivationProof(t, u) \in BOOLEAN
         /\ TemporarySocket(t) \in BOOLEAN /\ ProveSocket(t) \in BOOLEAN
         /\ ProveDocker(t) \in BOOLEAN /\ FinalGateRequired(t) \in BOOLEAN
<1>1. \A u \in Units : t[u].active \in BOOLEAN BY TargetFacts
<1> QED BY <1>1, Units4
        DEF NeedsActivationProof, TemporarySocket, ProveSocket, ProveDocker, FinalGateRequired

(* The pieces of the commit, step by step. *)
LEMMA SetParts ==
  ASSUME NEW u \in Units, NEW on \in BOOLEAN, NEW s \in UnitFileStates, NEW r \in Seq(Steps)
  PROVE  /\ Set(u, on, s) \in Seq(Steps)
         /\ Then(Set(u, on, s), r) = Then(Step("activity", u, on, s), Then(Step("check", u, on, s), r))
<1>1. Step("activity", u, on, s) \in Seq(Steps) /\ Step("check", u, on, s) \in Seq(Steps)
  BY StepSeq, OpsNamed
<1>2. Set(u, on, s) = Then(Step("activity", u, on, s), Step("check", u, on, s)) BY DEF Set, Then
<1> QED BY <1>1, <1>2, ThenSeq, ThenAssoc

LEMMA PrepareParts ==
  ASSUME NEW t \in Targets, NEW u \in Units, NEW r \in Seq(Steps)
  PROVE  LET state   == Prepared(t, u)
             checked == Then(Step("prepared", u, FALSE, state), r)
         IN  /\ Prepare(t, u) \in Seq(Steps)
             /\ state = "masked" => Then(Prepare(t, u), r) = checked
             /\ state = "disabled" =>
                  Then(Prepare(t, u), r) = Then(Do("unmask", u), Then(Do("disable", u), checked))
             /\ state \notin {"masked", "disabled"} =>
                  Then(Prepare(t, u), r) = Then(Do("unmask", u), checked)
<1> DEFINE state   == Prepared(t, u)
           a == When(state # "masked", Do("unmask", u))
           b == When(state = "disabled", Do("disable", u))
           c == Step("prepared", u, FALSE, state)
           d == Do("unmask", u)
           e == Do("disable", u)
<1>1. c \in Seq(Steps) /\ d \in Seq(Steps) /\ e \in Seq(Steps)
  BY StepSeq, DoSeq, OpsNamed, TargetFacts
<1>2. a \in Seq(Steps) /\ b \in Seq(Steps) BY <1>1, WhenParts
<1>3. Prepare(t, u) = Then(Then(a, b), c) BY DEF Prepare, Then
<1>4. \A v \in Seq(Steps) : Then(a, v) = IF state # "masked" THEN Then(d, v) ELSE v
  BY <1>1, WhenParts
<1>5. \A v \in Seq(Steps) : Then(b, v) = IF state = "disabled" THEN Then(e, v) ELSE v
  BY <1>1, WhenParts
<1> HIDE DEF a, b, c, d, e
<1>6. Then(a, b) \in Seq(Steps) /\ Then(c, r) \in Seq(Steps) BY <1>1, <1>2, ThenSeq
<1>7. Then(Then(Then(a, b), c), r) = Then(a, Then(b, Then(c, r)))
  BY <1>1, <1>2, <1>6, ThenAssoc
<1>8. Then(e, Then(c, r)) \in Seq(Steps) BY <1>1, <1>6, ThenSeq
<1>9. Then(Prepare(t, u), r) = Then(a, Then(b, Then(c, r))) BY <1>3, <1>7
<1>10. Prepare(t, u) \in Seq(Steps) BY <1>1, <1>3, <1>6, ThenSeq
<1>11. CASE state = "masked"
  <2>1. Then(b, Then(c, r)) = Then(c, r) BY <1>5, <1>6, <1>11
  <2>2. Then(a, Then(c, r)) = Then(c, r) BY <1>4, <1>6, <1>11
  <2> QED BY <1>9, <1>10, <1>11, <2>1, <2>2 DEF c
<1>12. CASE state = "disabled"
  <2>1. Then(b, Then(c, r)) = Then(e, Then(c, r)) BY <1>5, <1>6, <1>12
  <2>2. Then(a, Then(e, Then(c, r))) = Then(d, Then(e, Then(c, r))) BY <1>4, <1>8, <1>12
  <2> QED BY <1>9, <1>10, <1>12, <2>1, <2>2 DEF c, d, e
<1>13. CASE state \notin {"masked", "disabled"}
  <2>1. Then(b, Then(c, r)) = Then(c, r) BY <1>5, <1>6, <1>13
  <2>2. Then(a, Then(c, r)) = Then(d, Then(c, r)) BY <1>4, <1>6, <1>13
  <2> QED BY <1>9, <1>10, <1>13, <2>1, <2>2 DEF c, d
<1> QED BY <1>11, <1>12, <1>13

LEMMA FinalizeParts ==
  ASSUME NEW t \in Targets, NEW u \in Units, NEW r \in Seq(Steps)
  PROVE  LET last == Then(Do("final", u), r)
         IN  /\ Finalize(t, u) \in Seq(Steps)
             /\ t[u].state = "enabled" =>
                  Then(Finalize(t, u), r) = Then(Step("enable", u, FALSE, Prepared(t, u)), last)
             /\ t[u].state # "enabled" => Then(Finalize(t, u), r) = last
<1> DEFINE b == t[u].state = "enabled"
           e == Step("enable", u, FALSE, Prepared(t, u))
           f == Do("final", u)
           w == When(b, e)
<1>1. e \in Seq(Steps) /\ f \in Seq(Steps) BY StepSeq, DoSeq, OpsNamed, TargetFacts
<1>2. w \in Seq(Steps) /\ \A v \in Seq(Steps) : Then(w, v) = IF b THEN Then(e, v) ELSE v
  BY <1>1, WhenParts
<1>3. Finalize(t, u) = Then(w, f) BY DEF Finalize, Then
<1> HIDE DEF e, f, w
<1>4. Then(f, r) \in Seq(Steps) /\ Then(Then(w, f), r) = Then(w, Then(f, r))
  BY <1>1, <1>2, ThenSeq, ThenAssoc
<1>5. Finalize(t, u) \in Seq(Steps) BY <1>1, <1>2, <1>3, ThenSeq
<1>6. Then(Finalize(t, u), r) = IF b THEN Then(e, Then(f, r)) ELSE Then(f, r)
  BY <1>2, <1>3, <1>4
<1> QED BY <1>5, <1>6 DEF e, f

(* What is left of the script at each joint is a script. *)
LEMMA Joints ==
  ASSUME NEW t \in Targets
  PROVE  /\ FromConclude \in Seq(Steps) /\ FromAudit \in Seq(Steps)
         /\ FromLastGate(t) \in Seq(Steps) /\ FromJoint(t) \in Seq(Steps)
         /\ SocketState(t) \in Seq(Steps) /\ FromSocketState(t) \in Seq(Steps)
         /\ FromDockerState(t) \in Seq(Steps) /\ FromCompare(t) \in Seq(Steps)
         /\ FromReset(t) \in Seq(Steps) /\ FromSettle(t) \in Seq(Steps)
         /\ Stopping(t) \in Seq(Steps) /\ FromStop(t) \in Seq(Steps)
         /\ Gating(t) \in Seq(Steps) /\ FromGate(t) \in Seq(Steps)
         /\ FromDocker(t) \in Seq(Steps) /\ Trying(t) \in Seq(Steps)
         /\ FromSocket(t) \in Seq(Steps) /\ FromDockerUnit(t) \in Seq(Steps)
         /\ FromSocketUnit(t) \in Seq(Steps)
<1>1. /\ Do("conclude", Docker) \in Seq(Steps) /\ Do("audit", Docker) \in Seq(Steps)
      /\ Do("gate", Docker) \in Seq(Steps) /\ Do("identify", Docker) \in Seq(Steps)
      /\ Do("final", Socket) \in Seq(Steps) /\ Do("compare", Docker) \in Seq(Steps)
      /\ Do("settle", Socket) \in Seq(Steps) /\ Do("observe", Socket) \in Seq(Steps)
      /\ Do("mask", Socket) \in Seq(Steps) /\ Do("halt", Socket) \in Seq(Steps)
  BY DoSeq, OpsNamed, Units4
<1>2. FromConclude \in Seq(Steps) BY <1>1, ThenSeq, ThenNone DEF FromConclude
<1>3. FromAudit \in Seq(Steps) BY <1>1, <1>2, ThenSeq DEF FromAudit
<1>4. FromLastGate(t) \in Seq(Steps)
  <2>1. When(FinalGateRequired(t), Do("gate", Docker)) \in Seq(Steps) BY <1>1, WhenParts, Booleans
  <2> QED BY <1>3, <2>1, ThenSeq DEF FromLastGate
<1>5. FromJoint(t) \in Seq(Steps) BY <1>1, <1>4, ThenSeq DEF FromJoint
<1>6. SocketState(t) \in Seq(Steps)
  <2>1. Finalize(t, Socket) \in Seq(Steps) BY FinalizeParts, Units4, ThenNone
  <2>2. Then(Then(Then(Do("observe", Socket), Do("mask", Socket)), Do("halt", Socket)),
             Do("final", Socket)) \in Seq(Steps)
    <3>1. Then(Do("observe", Socket), Do("mask", Socket)) \in Seq(Steps) BY <1>1, ThenSeq
    <3>2. Then(Then(Do("observe", Socket), Do("mask", Socket)), Do("halt", Socket)) \in Seq(Steps)
      BY <1>1, <3>1, ThenSeq
    <3> QED BY <1>1, <3>2, ThenSeq
  <2>3. Quarantine(Socket) \o Do("final", Socket) =
          Then(Then(Then(Do("observe", Socket), Do("mask", Socket)), Do("halt", Socket)),
               Do("final", Socket))
    BY DEF Then, Quarantine
  <2>4. CASE TemporarySocket(t)
    <3>1. SocketState(t) = Quarantine(Socket) \o Do("final", Socket) BY <2>4 DEF SocketState
    <3> QED BY <2>2, <2>3, <3>1, Zenon
  <2>5. CASE ~ TemporarySocket(t)
    <3>1. SocketState(t) = Finalize(t, Socket) BY <2>5 DEF SocketState
    <3> QED BY <2>1, <3>1, Zenon
  <2> QED BY <2>4, <2>5
<1>7. FromSocketState(t) \in Seq(Steps) BY <1>5, <1>6, ThenSeq DEF FromSocketState
<1>8. FromDockerState(t) \in Seq(Steps)
  BY <1>7, FinalizeParts, Units4, ThenSeq DEF FromDockerState
<1>9. FromCompare(t) \in Seq(Steps) BY <1>1, <1>8, ThenSeq DEF FromCompare
<1>10. FromReset(t) \in Seq(Steps)
  <2>1. t[Socket].active \in BOOLEAN /\ PreparedState(t[Socket].state) \in UnitFileStates
    BY TargetFacts, Units4
  <2> QED BY <1>9, <2>1, SetParts, Units4, ThenSeq DEF FromReset
<1>11. FromSettle(t) \in Seq(Steps) BY <1>1, <1>10, ThenSeq DEF FromSettle
<1>12. /\ Prepared(t, Docker) \in UnitFileStates /\ Prepared(t, Socket) \in UnitFileStates
  BY TargetFacts, Units4
<1>13. \A on \in BOOLEAN : /\ Set(Docker, on, Prepared(t, Docker)) \in Seq(Steps)
                           /\ Set(Socket, on, Prepared(t, Socket)) \in Seq(Steps)
  BY <1>12, SetParts, Units4, ThenNone
<1>14. Stopping(t) \in Seq(Steps)
  <2>1. (~t[Docker].active /\ ProveDocker(t)) \in BOOLEAN OBVIOUS
  <2> QED BY <1>13, <2>1, WhenParts DEF Stopping
<1>15. FromStop(t) \in Seq(Steps) BY <1>11, <1>14, ThenSeq DEF FromStop
<1>16. Gating(t) \in Seq(Steps) BY <1>1, WhenParts, Booleans DEF Gating
<1>17. FromGate(t) \in Seq(Steps) BY <1>15, <1>16, ThenSeq DEF FromGate
<1>18. FromDocker(t) \in Seq(Steps) BY <1>13, <1>17, Booleans, ThenSeq DEF FromDocker
<1>19. Trying(t) \in Seq(Steps) BY <1>13, WhenParts, Booleans DEF Trying
<1>20. FromSocket(t) \in Seq(Steps) BY <1>18, <1>19, ThenSeq DEF FromSocket
<1>21. FromDockerUnit(t) \in Seq(Steps)
  BY <1>20, PrepareParts, Units4, ThenSeq DEF FromDockerUnit
<1>22. FromSocketUnit(t) \in Seq(Steps)
  BY <1>21, PrepareParts, Units4, ThenSeq DEF FromSocketUnit
<1> QED BY <1>2, <1>3, <1>4, <1>5, <1>6, <1>7, <1>8, <1>9, <1>10, <1>11, <1>14, <1>15, <1>16,
           <1>17, <1>18, <1>19, <1>20, <1>21, <1>22

LEMMA ServiceJoints ==
  ASSUME NEW t \in Targets, NEW u \in Nvidia, NEW r \in Seq(Steps)
  PROVE  /\ FromState(t, u, r) \in Seq(Steps) /\ FromActivity(t, u, r) \in Seq(Steps)
         /\ Testing(t, u) \in Seq(Steps) /\ FromProof(t, u, r) \in Seq(Steps)
<1>1. u \in Units /\ Prepared(t, u) \in UnitFileStates BY Units4, TargetFacts
<1>2. \A on \in BOOLEAN : Set(u, on, Prepared(t, u)) \in Seq(Steps) BY <1>1, SetParts
<1>3. FromState(t, u, r) \in Seq(Steps) BY <1>1, FinalizeParts, ThenSeq DEF FromState
<1>4. FromActivity(t, u, r) \in Seq(Steps) BY <1>1, <1>2, <1>3, Booleans, ThenSeq DEF FromActivity
<1>5. Testing(t, u) \in Seq(Steps) BY <1>1, <1>2, Booleans, WhenParts DEF Testing
<1> QED BY <1>3, <1>4, <1>5, ThenSeq DEF FromProof

LEMMA OtherJoints ==
  ASSUME NEW t \in Targets, NEW u \in Units
  PROVE  /\ FromPersistenced(t) \in Seq(Steps) /\ FromFabricManager(t) \in Seq(Steps)
         /\ Beyond(t, u) \in Seq(Steps) /\ FromPrepared(t, u) \in Seq(Steps)
         /\ FromChecking(t, u) \in Seq(Steps)
<1>1. FromPersistenced(t) \in Seq(Steps)
  BY Joints, ServiceJoints, PrepareParts, Units4, ThenSeq DEF FromPersistenced
<1>2. FromFabricManager(t) \in Seq(Steps)
  BY <1>1, ServiceJoints, PrepareParts, Units4, ThenSeq DEF FromFabricManager
<1>3. Beyond(t, u) \in Seq(Steps) BY <1>1, Joints DEF Beyond
<1>4. FromPrepared(t, u) \in Seq(Steps) BY <1>3, Joints, ServiceJoints, Units4 DEF FromPrepared
<1>5. FromChecking(t, u) \in Seq(Steps)
  BY <1>4, StepSeq, OpsNamed, TargetFacts, ThenSeq DEF FromChecking
<1> QED BY <1>1, <1>2, <1>3, <1>4, <1>5

LEMMA Chain3 ==
  ASSUME NEW a \in Seq(Steps), NEW b \in Seq(Steps), NEW c \in Seq(Steps), NEW r \in Seq(Steps)
  PROVE  Then(Then(Then(a, b), c), r) = Then(a, Then(b, Then(c, r)))
BY ThenSeq, ThenAssoc

(* The service's part of the script, and what comes after it. *)
LEMMA StagedScript ==
  ASSUME NEW t \in Targets, NEW u \in Nvidia, NEW r \in Seq(Steps)
  PROVE  Then(Staged(t, u), r) = Then(Prepare(t, u), FromProof(t, u, r))
<1> DEFINE p == Prepare(t, u)
           a == Testing(t, u)
           b == Set(u, t[u].active, Prepared(t, u))
           c == Finalize(t, u)
<1>1. u \in Units /\ Prepared(t, u) \in UnitFileStates BY Units4, TargetFacts
<1>2. p \in Seq(Steps) /\ a \in Seq(Steps) /\ b \in Seq(Steps) /\ c \in Seq(Steps)
  BY <1>1, PrepareParts, ServiceJoints, SetParts, Booleans, FinalizeParts
<1>3. Staged(t, u) = Then(Then(Then(p, a), b), c) BY DEF Staged, Testing, Then
<1>4. FromProof(t, u, r) = Then(a, Then(b, Then(c, r))) BY DEF FromProof, FromActivity, FromState
<1>5. Prepare(t, u) = p OBVIOUS
<1> HIDE DEF p, a, b, c
<1>6. Then(p, a) \in Seq(Steps) /\ Then(c, r) \in Seq(Steps) BY <1>2, ThenSeq
<1>7. Then(Then(Then(Then(p, a), b), c), r) = Then(Then(p, a), Then(b, Then(c, r)))
  BY <1>2, <1>6, Chain3
<1>8. Then(b, Then(c, r)) \in Seq(Steps) BY <1>2, <1>6, ThenSeq
<1>9. Then(Then(p, a), Then(b, Then(c, r))) = Then(p, Then(a, Then(b, Then(c, r))))
  BY <1>2, <1>8, ThenAssoc
<1> QED BY <1>3, <1>4, <1>5, <1>7, <1>9

LEMMA DockerScript ==
  ASSUME NEW t \in Targets
  PROVE  Then(DockerActivity(t), FromDockerState(t)) = FromSocketUnit(t)
<1> DEFINE a == Prepare(t, Socket)
           b == Prepare(t, Docker)
           c == Trying(t)
           d == Set(Docker, ProveDocker(t), Prepared(t, Docker))
           e == Gating(t)
           f == Stopping(t)
           g == Do("settle", Socket)
           h == Set(Socket, t[Socket].active, PreparedState(t[Socket].state))
           k == Do("compare", Docker)
           r == FromDockerState(t)
<1>1. a \in Seq(Steps) /\ b \in Seq(Steps) BY PrepareParts, Units4, ThenNone
<1>2. c \in Seq(Steps) /\ e \in Seq(Steps) /\ f \in Seq(Steps) /\ r \in Seq(Steps) BY Joints
<1>3. d \in Seq(Steps) /\ h \in Seq(Steps) BY SetParts, TargetFacts, Booleans, Units4, ThenNone
<1>4. g \in Seq(Steps) /\ k \in Seq(Steps) BY DoSeq, OpsNamed, Units4
<1> DEFINE x == Then(Then(Then(Then(a, b), c), d), e)
<1>5. DockerActivity(t) = Then(Then(Then(Then(x, f), g), h), k)
  BY DEF DockerActivity, Trying, Gating, Stopping, Then
<1>6. FromSocketUnit(t) =
        Then(a, Then(b, Then(c, Then(d, Then(e, Then(f, Then(g, Then(h, Then(k, r)))))))))
  BY DEF FromSocketUnit, FromDockerUnit, FromSocket, FromDocker, FromGate, FromStop, FromSettle,
         FromReset, FromCompare
<1>7. FromDockerState(t) = r OBVIOUS
<1> HIDE DEF a, b, c, d, e, f, g, h, k, r
<1>8. \A v \in Seq(Steps) : Then(x, v) = Then(a, Then(b, Then(c, Then(d, Then(e, v)))))
  <2> SUFFICES ASSUME NEW v \in Seq(Steps)
               PROVE  Then(x, v) = Then(a, Then(b, Then(c, Then(d, Then(e, v)))))
    OBVIOUS
  <2>1. Then(Then(a, b), c) \in Seq(Steps) /\ Then(d, Then(e, v)) \in Seq(Steps)
    BY <1>1, <1>2, <1>3, ThenSeq
  <2>2. Then(x, v) = Then(Then(Then(a, b), c), Then(d, Then(e, v)))
    BY <1>2, <1>3, <2>1, Chain3
  <2> QED BY <1>1, <1>2, <2>1, <2>2, Chain3
<1>9. x \in Seq(Steps) BY <1>1, <1>2, <1>3, ThenSeq
<1> HIDE DEF x
<1>10. Then(h, Then(k, r)) \in Seq(Steps) /\ Then(x, f) \in Seq(Steps)
  BY <1>2, <1>3, <1>4, <1>9, ThenSeq
<1>11. Then(Then(x, f), g) \in Seq(Steps) /\ Then(g, Then(h, Then(k, r))) \in Seq(Steps)
  BY <1>4, <1>10, ThenSeq
<1>12. Then(Then(Then(Then(Then(x, f), g), h), k), r) =
         Then(Then(Then(x, f), g), Then(h, Then(k, r)))
  BY <1>2, <1>3, <1>4, <1>11, Chain3
<1>13. Then(Then(Then(x, f), g), Then(h, Then(k, r))) = Then(x, Then(f, Then(g, Then(h, Then(k, r)))))
  BY <1>2, <1>4, <1>9, <1>10, Chain3
<1>14. Then(f, Then(g, Then(h, Then(k, r)))) \in Seq(Steps) BY <1>2, <1>11, ThenSeq
<1> QED BY <1>5, <1>6, <1>7, <1>8, <1>12, <1>13, <1>14

LEMMA ClosingScript ==
  ASSUME NEW t \in Targets
  PROVE  Then(DockerEnablement(t), JointProof(t)) = FromDockerState(t)
<1> DEFINE a == Finalize(t, Docker)
           b == SocketState(t)
           i == Do("identify", Docker)
           g == When(FinalGateRequired(t), Do("gate", Docker))
           u == Do("audit", Docker)
           c == Do("conclude", Docker)
<1>1. a \in Seq(Steps) /\ b \in Seq(Steps) BY FinalizeParts, Joints, Units4, ThenNone
<1>2. /\ i \in Seq(Steps) /\ u \in Seq(Steps) /\ c \in Seq(Steps) /\ Do("gate", Docker) \in Seq(Steps)
  BY DoSeq, OpsNamed, Units4
<1>3. g \in Seq(Steps) BY <1>2, WhenParts, Booleans
<1>4. FromConclude = c
  <2>1. Then(c, <<>>) = c
    <3> HIDE DEF c
    <3> QED BY <1>2 DEF Then
  <2> QED BY <2>1 DEF FromConclude
<1>5. DockerEnablement(t) = Then(a, b) /\ JointProof(t) = Then(Then(Then(i, g), u), c)
  BY DEF DockerEnablement, SocketState, JointProof, Then
<1>6. FromDockerState(t) = Then(a, Then(b, Then(i, Then(g, Then(u, FromConclude)))))
  BY DEF FromDockerState, FromSocketState, FromJoint, FromLastGate, FromAudit
<1> HIDE DEF a, b, i, g, u, c
<1>7. Then(Then(Then(i, g), u), c) = Then(i, Then(g, Then(u, c))) BY <1>2, <1>3, Chain3
<1>8. Then(i, Then(g, Then(u, c))) \in Seq(Steps) BY <1>2, <1>3, ThenSeq
<1>9. Then(Then(a, b), Then(i, Then(g, Then(u, c)))) = Then(a, Then(b, Then(i, Then(g, Then(u, c)))))
  BY <1>1, <1>8, ThenAssoc
<1> QED BY <1>4, <1>5, <1>6, <1>7, <1>9

(* The commit begins with the fabric manager and has no other parts. *)
LEMMA WholeScript ==
  ASSUME NEW t \in Targets PROVE CommitScript(t) = FromFabricManager(t)
<1> DEFINE a == Staged(t, FabricManager)
           b == Staged(t, Persistenced)
           c == DockerActivity(t)
           d == DockerEnablement(t)
           e == JointProof(t)
<1>1. CommitScript(t) = Then(Then(Then(Then(a, b), c), d), e) BY DEF CommitScript, Then
<1>2. a \in Seq(Steps) /\ b \in Seq(Steps) BY StagedFacts, Units4 DEF Within
<1>3. c \in Seq(Steps) /\ d \in Seq(Steps) /\ e \in Seq(Steps)
  BY ActivityFacts, EnablementFacts, JointFacts DEF Within
<1>4. Then(d, e) = FromDockerState(t) /\ Then(c, FromDockerState(t)) = FromSocketUnit(t)
  BY ClosingScript, DockerScript
<1>5. FromSocketUnit(t) \in Seq(Steps) BY Joints
<1>6. Then(b, FromSocketUnit(t)) = FromPersistenced(t)
  BY <1>5, StagedScript, Units4 DEF FromPersistenced
<1>7. FromPersistenced(t) \in Seq(Steps) BY OtherJoints, Units4
<1>8. Then(a, FromPersistenced(t)) = FromFabricManager(t)
  BY <1>7, StagedScript, Units4 DEF FromFabricManager
<1> HIDE DEF a, b, c, d, e
<1>9. Then(a, b) \in Seq(Steps) BY <1>2, ThenSeq
<1>10. Then(Then(Then(Then(a, b), c), d), e) = Then(Then(a, b), Then(c, Then(d, e)))
  BY <1>3, <1>9, Chain3
<1>11. Then(Then(a, b), FromSocketUnit(t)) = Then(a, Then(b, FromSocketUnit(t)))
  BY <1>2, <1>5, ThenAssoc
<1> QED BY <1>1, <1>4, <1>6, <1>8, <1>10, <1>11

-----------------------------------------------------------------------------
(* The step that is next, and what is left after it. *)

LEMMA LeftNow ==
  ASSUME NEW op \in Ops, NEW u \in Units, NEW on \in BOOLEAN, NEW s \in UnitFileStates,
         NEW r \in Seq(Steps), Left(Then(Step(op, u, on, s), r))
  PROVE  /\ Current.op = op /\ Unit = u /\ Current.on = on /\ Current.state = s
         /\ mode' = mode /\ target' = target /\ step' = step + 1 => Left(r)'
<1> DEFINE x == Step(op, u, on, s)
<1>1. /\ x \in Seq(Steps) /\ Len(x) = 1 /\ x[1].op = op /\ x[1].unit = u /\ x[1].on = on
      /\ x[1].state = s
  BY Single
<1>2. PICK p \in Seq(Steps) : Script = Then(p, Then(x, r)) /\ step = Len(p) + 1 BY DEF Left
<1> HIDE DEF x
<1>3. Then(x, r) \in Seq(Steps) /\ Then(p, x) \in Seq(Steps) BY <1>1, ThenSeq
<1>4. Current = x[1]
  <2>1. Then(x, r)[1] = x[1] /\ 1 \in 1 .. Len(Then(x, r))
    <3>1. (x \o r)[1] = x[1] /\ 1 \in 1 .. Len(x \o r) BY <1>1, Concat
    <3> QED BY <3>1 DEF Then
  <2> DEFINE y == Then(x, r)
  <2>2. y \in Seq(Steps) /\ y[1] = x[1] /\ 1 \in 1 .. Len(y) BY <1>3, <2>1
  <2>3. Script = Then(p, y) BY <1>2
  <2> HIDE DEF y
  <2>4. (p \o y)[Len(p) + 1] = y[1] BY <2>2, Concat
  <2> QED BY <1>2, <2>2, <2>3, <2>4 DEF Then, Current
<1>5. ASSUME mode' = mode, target' = target, step' = step + 1 PROVE Left(r)'
  <2>1. Script' = Script BY <1>5 DEF Script
  <2>2. Script = Then(Then(p, x), r) BY <1>1, <1>2, ThenAssoc
  <2>3. Len(Then(p, x)) = Len(p) + 1 /\ Len(p) \in Nat BY <1>1, ThenLen
  <2> QED BY <1>2, <1>3, <1>5, <2>1, <2>2, <2>3 DEF Left
<1> QED BY <1>1, <1>4, <1>5 DEF Unit

LEMMA LeftDo ==
  ASSUME NEW op \in Ops, NEW u \in Units, NEW r \in Seq(Steps), Left(Then(Do(op, u), r))
  PROVE  /\ Current.op = op /\ Unit = u
         /\ mode' = mode /\ target' = target /\ step' = step + 1 => Left(r)'
<1>1. Do(op, u) = Step(op, u, FALSE, "masked") /\ "masked" \in UnitFileStates
  BY DEF Do, UnitFileStates
<1> QED BY <1>1, LeftNow

LEMMA LeftSkip ==
  ASSUME NEW x \in Seq(Steps), NEW y \in Seq(Steps), NEW z \in Seq(Steps), NEW r \in Seq(Steps),
         Len(x) = 1, Len(y) = 1, Len(z) = 1, Left(Then(x, Then(y, Then(z, r)))),
         mode' = mode, target' = target, step' = step + 3
  PROVE  Left(r)'
<1>1. PICK p \in Seq(Steps) : Script = Then(p, Then(x, Then(y, Then(z, r)))) /\ step = Len(p) + 1
  BY DEF Left
<1> DEFINE q == Then(Then(Then(p, x), y), z)
<1>2. Then(p, x) \in Seq(Steps) /\ Len(Then(p, x)) = Len(p) + 1 /\ Len(p) \in Nat
  BY ThenSeq, ThenLen
<1>3. Then(Then(p, x), y) \in Seq(Steps) /\ Len(Then(Then(p, x), y)) = Len(Then(p, x)) + 1
  <2> DEFINE a == Then(p, x)
  <2>1. a \in Seq(Steps) BY <1>2
  <2> HIDE DEF a
  <2>2. Then(a, y) \in Seq(Steps) /\ Len(Then(a, y)) = Len(a) + 1 BY <2>1, ThenSeq, ThenLen
  <2> QED BY <2>2 DEF a
<1>4. q \in Seq(Steps) /\ Len(q) = Len(Then(Then(p, x), y)) + 1 BY <1>3, ThenSeq, ThenLen
<1>5. Len(q) = Len(p) + 3 BY <1>2, <1>3, <1>4
<1>6. Script = Then(q, r)
  <2>1. Then(z, r) \in Seq(Steps) BY ThenSeq
  <2>2. Then(Then(Then(p, x), y), Then(z, r)) = Then(p, Then(x, Then(y, Then(z, r))))
    BY <2>1, Chain3
  <2>3. Then(q, r) = Then(Then(Then(p, x), y), Then(z, r)) BY <1>3, ThenAssoc
  <2> QED BY <1>1, <2>2, <2>3
<1>7. Script' = Script BY DEF Script
<1>8. step' = Len(q) + 1 BY <1>1, <1>2, <1>5
<1> HIDE DEF q
<1> QED BY <1>4, <1>6, <1>7, <1>8 DEF Left

-----------------------------------------------------------------------------
(* One step of an undisturbed commit. *)

Ready(t) ==
  /\ Undisturbed /\ Typed /\ mode = "commit" /\ Trusting /\ t = target /\ Next

Onto(r) == mode' = "commit" /\ target' = target /\ requires' = requires /\ Left(r)'
Refused == mode' = "quarantine" /\ target' = target /\ requires' = requires

(* The script alone decides which step is taken. *)
LEMMA Acting ==
  ASSUME Undisturbed, Next
  PROVE  /\ Current.op = "unmask"   => Unmask
         /\ Current.op = "disable"  => Disable
         /\ Current.op = "prepared" => CheckPrepared
         /\ Current.op = "activity" => Activate
         /\ Current.op = "check"    => Check
         /\ Current.op = "gate"     => Gate
         /\ Current.op = "settle"   => Settle
         /\ Current.op = "compare"  => Compare
         /\ Current.op = "enable"   => Enable
         /\ Current.op = "final"    => CheckFinal
         /\ Current.op = "identify" => Identify
         /\ Current.op = "audit"    => JointAudit
         /\ Current.op = "conclude" => Conclude
<1>1. ~ World
  BY DEF World, Undisturbed, ClientConnects, ServiceRestarts, UnitExits, WorkloadChanges, PowerLoss
<1>2. Program BY <1>1 DEF Next
<1>3. /\ Unmask => Current.op = "unmask"
      /\ Disable => Current.op = "disable"
      /\ CheckPrepared => Current.op = "prepared"
      /\ CheckFinal => Current.op = "final"
      /\ Identify => Current.op = "identify"
      /\ JointAudit => Current.op = "audit"
      /\ Authenticate => Current.op = "authenticate"
      /\ Verify => Current.op = "verify"
      /\ Mask => Current.op = "mask"
      /\ EmergencyMask => Current.op = "emergency"
      /\ Enable => Current.op = "enable"
  BY DEF Unmask, Disable, CheckPrepared, CheckFinal, Identify, JointAudit, Authenticate, Verify, Mask,
         EmergencyMask, Enable, Inspect, Attempt, Doing
<1>4. /\ Activate => Current.op = "activity"
      /\ Check => Current.op = "check"
      /\ Gate => Current.op = "gate"
      /\ Observe => Current.op = "observe"
      /\ Halt => Current.op = "halt"
  BY DEF Activate, Check, Gate, Observe, Halt, Inspect, Attempt, Doing
<1>5. /\ Settle => Current.op = "settle"
      /\ Compare => Current.op = "compare"
      /\ Conclude => Current.op = "conclude"
      /\ Requiesce => Current.op = "requiesce"
      /\ Probe => Current.op = "probe"
      /\ Raise => Current.op = "raise"
  BY DEF Settle, Compare, Conclude, Requiesce, Probe, Raise, Doing
<1> QED BY <1>2, <1>3, <1>4, <1>5 DEF Program

(* Without faults a step does what it is for, or refuses. *)
LEMMA Tried ==
  ASSUME NEW t, Ready(t), NEW op, NEW ok \in BOOLEAN, NEW after, Attempt(op, ok, after)
  PROVE  /\ target' = target /\ requires' = requires /\ workload' = workload
         /\ \/ ok /\ units' = after /\ mode' = "commit" /\ step' = step + 1
            \/ ~ ok /\ units' = units /\ mode' = "quarantine"
<1>1. Faults = {} /\ mode = "commit" BY DEF Ready, Undisturbed
<1>2. target' = target /\ requires' = requires /\ workload' = workload BY DEF Attempt, request
<1>3. \/ ok /\ units' = after /\ Continue
      \/ ~ ok /\ units' = units /\ GiveUp
  BY <1>1 DEF Attempt
<1> QED BY <1>1, <1>2, <1>3 DEF Continue, GiveUp, Goto

(* The processes known stay known while no other trusted service runs. *)
LEMMA TrustingStays ==
  ASSUME NEW t, Ready(t), NEW ids \in [Trusted -> {"none", "current", "stale"}], NEW g, Keep(ids, g),
         workload' = workload,
         \A u \in Trusted : u \in units'.active => ids[u] = "current"
  PROVE  Trusting'
<1>1. \A u \in Trusted : identity'[u] =
        IF ids[u] = "current" /\ u \notin units'.active THEN "stale" ELSE ids[u]
  BY DEF Keep
<1>2. workload' = FALSE BY DEF Ready, Trusting
<1> QED BY <1>1, <1>2 DEF Trusting

LEMMA TrustingKept ==
  ASSUME NEW t, Ready(t), KeepAll, workload' = workload,
         \A u \in Trusted : u \in units'.active => u \in units.active
  PROVE  Trusting'
<1>1. Keep(identity, gated) BY DEF KeepAll
<1>2. identity \in [Trusted -> {"none", "current", "stale"}] BY DEF Ready, Typed, Data
<1>3. \A u \in Trusted : u \in units'.active => identity[u] = "current" BY DEF Ready, Trusting
<1> QED BY <1>1, <1>2, <1>3, TrustingStays

(* How the host looks afterwards. *)
Still(w) == /\ w \in units'.active <=> w \in units.active
            /\ w \in units'.masked <=> w \in units.masked
            /\ StateOf(w)' = StateOf(w)

LEMMA NothingMoves == ASSUME units' = units, NEW w PROVE Still(w)
BY DEF Still, StateOf

LEMMA UnmaskMoves ==
  ASSUME Typed, NEW u \in Units, units' = Unmasked(u)
  PROVE  /\ \A w \in Units : w # u => Still(w)
         /\ units'.active = units.active /\ u \notin units'.masked /\ StateOf(u)' = units.link[u]
<1>1. units \in UnitRecords BY DEF Typed, Data
<1>2. /\ units'.masked = units.masked \ {u} /\ units'.link = units.link
      /\ units'.active = units.active
  BY <1>1 DEF Unmasked, UnitRecords
<1> QED BY <1>2 DEF Still, StateOf

LEMMA LinkMoves ==
  ASSUME Typed, NEW u \in Units, NEW s \in {"enabled", "disabled"}, units' = Linked(u, s)
  PROVE  /\ \A w \in Units : w # u => Still(w)
         /\ units'.active = units.active /\ units'.masked = units.masked
         /\ u \notin units.masked /\ units.link[u] \in {"enabled", "disabled"} => StateOf(u)' = s
<1>1. units \in UnitRecords /\ Data BY DEF Typed, Data
<1>2. /\ units'.masked = units.masked
      /\ units'.link = [units.link EXCEPT ![u] = IF @ \in {"enabled", "disabled"} THEN s ELSE @]
  BY <1>1, LinkFacts
<1>3. units'.active = units.active BY <1>1 DEF Linked, UnitRecords
<1>4. units.link \in [Units -> UnitFileStates \ {"masked"}] BY <1>1 DEF UnitRecords
<1>5. \A w \in Units : units'.link[w] =
        IF w = u /\ units.link[u] \in {"enabled", "disabled"} THEN s ELSE units.link[w]
  BY <1>2, <1>4
<1> QED BY <1>2, <1>3, <1>5 DEF Still, StateOf

LEMMA StartMoves ==
  ASSUME Typed, NEW u \in Units, units' = Started(u)
  PROVE  /\ \A w \in Units : w \notin Needed(u) => Still(w)
         /\ \A w \in Units : StateOf(w)' = StateOf(w) /\ (w \in Needed(u) => w \in units'.active)
<1>1. units \in UnitRecords /\ Data BY DEF Typed, Data
<1>2. units'.masked = units.masked /\ units'.link = units.link BY <1>1, UnitFacts
<1>3. units'.active = units.active \cup Needed(u) BY <1>1 DEF Started, UnitRecords
<1> QED BY <1>2, <1>3 DEF Still, StateOf

LEMMA StopMoves ==
  ASSUME Typed, NEW u \in Units, units' = Stopped(u)
  PROVE  /\ \A w \in Units : w \notin Dependent(u) => Still(w)
         /\ \A w \in Units : /\ StateOf(w)' = StateOf(w)
                             /\ w \in units'.active => w \in units.active
                             /\ w \in Dependent(u) => w \notin units'.active
<1>1. units \in UnitRecords /\ Data BY DEF Typed, Data
<1>2. units'.masked = units.masked /\ units'.link = units.link BY <1>1, UnitFacts
<1>3. units'.active = units.active \ Dependent(u) BY <1>1 DEF Stopped, UnitRecords
<1> QED BY <1>2, <1>3 DEF Still, StateOf

-----------------------------------------------------------------------------
(* Each kind of step, where the host allows it. *)

LEMMA CleanUnmask ==
  ASSUME NEW t \in Targets, Ready(t), NEW u \in Units, NEW r \in Seq(Steps),
         Left(Then(Do("unmask", u), r)), Known, u \in units.masked
  PROVE  Onto(r) /\ Trusting' /\ units' = Unmasked(u)
<1>1. Current.op = "unmask" /\ Unit = u BY LeftDo, OpsNamed
<1>2. Attempt("unmask", audit[u].state = "masked", Unmasked(u)) /\ KeepAll
  BY <1>1, Acting DEF Ready, Unmask, Plain
<1>3. audit[u].state = "masked" BY DEF Known, Observed, StateOf
<1>4. /\ target' = target /\ requires' = requires /\ workload' = workload
      /\ units' = Unmasked(u) /\ mode' = "commit" /\ step' = step + 1
  BY <1>2, <1>3, Tried
<1>5. Left(r)' BY <1>4, LeftDo, OpsNamed DEF Ready
<1>6. units'.active = units.active BY <1>4, UnmaskMoves DEF Ready
<1>7. Trusting' BY <1>2, <1>4, <1>6, TrustingKept
<1> QED BY <1>4, <1>5, <1>7 DEF Onto

LEMMA CleanDisable ==
  ASSUME NEW t \in Targets, Ready(t), NEW u \in Units, NEW r \in Seq(Steps),
         Left(Then(Do("disable", u), r)), units.link[u] # "not-found"
  PROVE  Onto(r) /\ Trusting' /\ units' = Linked(u, "disabled")
<1>1. Current.op = "disable" /\ Unit = u BY LeftDo, OpsNamed
<1>2. Attempt("disable", units.link[u] # "not-found", Linked(u, "disabled")) /\ KeepAll
  BY <1>1, Acting DEF Ready, Disable, Plain
<1>4. /\ target' = target /\ requires' = requires /\ workload' = workload
      /\ units' = Linked(u, "disabled") /\ mode' = "commit" /\ step' = step + 1
  BY <1>2, Tried
<1>5. Left(r)' BY <1>4, LeftDo, OpsNamed DEF Ready
<1>6. units'.active = units.active BY <1>4, LinkMoves DEF Ready
<1>7. Trusting' BY <1>2, <1>4, <1>6, TrustingKept
<1> QED BY <1>4, <1>5, <1>7 DEF Onto

LEMMA CleanEnable ==
  ASSUME NEW t \in Targets, Ready(t), NEW u \in Units, NEW s \in UnitFileStates, NEW r \in Seq(Steps),
         Left(Then(Step("enable", u, FALSE, s), r)), Known, StateOf(u) = s,
         units.link[u] # "not-found"
  PROVE  Onto(r) /\ Trusting' /\ units' = Linked(u, "enabled")
<1>1. Current.op = "enable" /\ Unit = u /\ Current.state = s BY LeftNow, OpsNamed
<1>2. /\ Attempt("enable", audit[u].state = s /\ units.link[u] # "not-found", Linked(u, "enabled"))
      /\ KeepAll
  BY <1>1, Acting DEF Ready, Enable, Plain
<1>3. audit[u].state = s BY DEF Known, Observed
<1>4. /\ target' = target /\ requires' = requires /\ workload' = workload
      /\ units' = Linked(u, "enabled") /\ mode' = "commit" /\ step' = step + 1
  BY <1>2, <1>3, Tried
<1>5. Left(r)' BY <1>4, LeftNow, OpsNamed DEF Ready
<1>6. units'.active = units.active BY <1>4, LinkMoves DEF Ready
<1>7. Trusting' BY <1>2, <1>4, <1>6, TrustingKept
<1> QED BY <1>4, <1>5, <1>7 DEF Onto

(* A look at the host that finds what it wants. *)
LEMMA Looking ==
  ASSUME NEW t, Ready(t), NEW op, NEW ok \in BOOLEAN, ok, Inspect(op, ok), KeepAll
  PROVE  /\ target' = target /\ requires' = requires /\ mode' = "commit" /\ step' = step + 1
         /\ units' = units /\ Known' /\ Trusting'
<1>1. Attempt(op, ok, units) /\ audit' = Observed BY Zenon DEF Inspect, Read
<1>2. /\ target' = target /\ requires' = requires /\ workload' = workload
      /\ units' = units /\ mode' = "commit" /\ step' = step + 1
  BY <1>1, Tried
<1>3. Known' BY <1>1, <1>2 DEF Known, Observed, StateOf
<1>4. Trusting' BY <1>2, TrustingKept
<1> QED BY <1>2, <1>3, <1>4

LEMMA CleanPrepared ==
  ASSUME NEW t \in Targets, Ready(t), NEW u \in Units, NEW s \in UnitFileStates, NEW r \in Seq(Steps),
         Left(Then(Step("prepared", u, FALSE, s), r)), u \notin units.active, StateOf(u) = s
  PROVE  Onto(r) /\ Trusting' /\ units' = units /\ Known'
<1>1. Current.op = "prepared" /\ Unit = u /\ Current.state = s BY LeftNow, OpsNamed
<1>2. Inspect("prepared", u \notin units.active /\ StateOf(u) = s) /\ KeepAll
  BY <1>1, Acting DEF Ready, CheckPrepared, Plain
<1>3. /\ target' = target /\ requires' = requires /\ mode' = "commit" /\ step' = step + 1
      /\ units' = units /\ Known' /\ Trusting'
  BY <1>2, Looking
<1>4. Left(r)' BY <1>3, LeftNow, OpsNamed DEF Ready
<1> QED BY <1>3, <1>4 DEF Onto

LEMMA CleanCheck ==
  ASSUME NEW t \in Targets, Ready(t), NEW u \in Units, NEW on \in BOOLEAN, NEW s \in UnitFileStates,
         NEW r \in Seq(Steps), Left(Then(Step("check", u, on, s), r)), u \in units.active <=> on
  PROVE  Onto(r) /\ Trusting' /\ units' = units /\ Known'
<1>1. Current.op = "check" /\ Unit = u /\ Current.on = on BY LeftNow, OpsNamed
<1> DEFINE ok == (u \in units.active) = on /\ (on /\ u \in Trusted => Identified(u))
<1>2. Inspect("check", ok) /\ KeepAll BY <1>1, Acting DEF Ready, Check
<1>3. ok BY DEF Ready, Trusting, Identified
<1> HIDE DEF ok
<1>4. /\ target' = target /\ requires' = requires /\ mode' = "commit" /\ step' = step + 1
      /\ units' = units /\ Known' /\ Trusting'
  BY <1>2, <1>3, Looking
<1>5. Left(r)' BY <1>4, LeftNow, OpsNamed DEF Ready
<1> QED BY <1>4, <1>5 DEF Onto

LEMMA CleanFinal ==
  ASSUME NEW t \in Targets, Ready(t), NEW u \in Units, NEW r \in Seq(Steps),
         Left(Then(Do("final", u), r)), Exact(t, u)
  PROVE  Onto(r) /\ Trusting' /\ units' = units /\ Known'
<1>1. Current.op = "final" /\ Unit = u BY LeftDo, OpsNamed
<1>2. Inspect("final", Exactly(u)) /\ KeepAll BY <1>1, Acting DEF Ready, CheckFinal, Plain
<1>3. Exactly(u)
  <2>1. t[u].active \in BOOLEAN /\ t = target BY TargetFacts DEF Ready
  <2> QED BY <2>1 DEF Exact, Exactly
<1>4. /\ target' = target /\ requires' = requires /\ mode' = "commit" /\ step' = step + 1
      /\ units' = units /\ Known' /\ Trusting'
  BY <1>2, <1>3, Looking
<1>5. Left(r)' BY <1>4, LeftDo, OpsNamed DEF Ready
<1> QED BY <1>4, <1>5 DEF Onto

LEMMA CleanAudit ==
  ASSUME NEW t \in Targets, Ready(t), NEW r \in Seq(Steps), Left(Then(Do("audit", Docker), r))
  PROVE  Onto(r) /\ Trusting' /\ units' = units /\ Known'
<1>1. Current.op = "audit" BY LeftDo, OpsNamed, Units4
<1>2. Inspect("audit", TRUE) /\ KeepAll BY <1>1, Acting DEF Ready, JointAudit, Plain
<1>3. /\ target' = target /\ requires' = requires /\ mode' = "commit" /\ step' = step + 1
      /\ units' = units /\ Known' /\ Trusting'
  BY <1>2, Looking
<1>4. Left(r)' BY <1>3, LeftDo, OpsNamed, Units4 DEF Ready
<1> QED BY <1>3, <1>4 DEF Onto

LEMMA CleanGate ==
  ASSUME NEW t \in Targets, Ready(t), NEW r \in Seq(Steps), Left(Then(Do("gate", Docker), r)),
         Docker \in units.active
  PROVE  Onto(r) /\ Trusting' /\ units' = units /\ Known'
<1>1. Current.op = "gate" BY LeftDo, OpsNamed, Units4
<1> DEFINE ok == Docker \in units.active /\ (workload => AllowActiveWorkloads)
<1>2. Inspect("gate", ok) /\ Keep(identity, gated \/ Succeeded) BY <1>1, Acting DEF Ready, Gate
<1>3. ok BY DEF Ready, Trusting
<1> HIDE DEF ok
<1>4. Attempt("gate", ok, units) /\ audit' = Observed BY <1>2 DEF Inspect, Read
<1>5. /\ target' = target /\ requires' = requires /\ workload' = workload
      /\ units' = units /\ mode' = "commit" /\ step' = step + 1
  BY <1>3, <1>4, Tried
<1>6. Known' BY <1>4, <1>5 DEF Known, Observed, StateOf
<1>7. Trusting'
  <2>1. identity \in [Trusted -> {"none", "current", "stale"}] BY DEF Ready, Typed, Data
  <2>2. \A u \in Trusted : u \in units'.active => identity[u] = "current"
    BY <1>5 DEF Ready, Trusting
  <2> QED BY <1>2, <1>5, <2>1, <2>2, TrustingStays
<1>8. Left(r)' BY <1>5, LeftDo, OpsNamed, Units4 DEF Ready
<1> QED BY <1>5, <1>6, <1>7, <1>8 DEF Onto

LEMMA CleanIdentify ==
  ASSUME NEW t \in Targets, Ready(t), NEW r \in Seq(Steps), Left(Then(Do("identify", Docker), r)),
         \A u \in Trusted : t[u].active => u \in units.active
  PROVE  Onto(r) /\ Trusting' /\ units' = units
<1>1. Current.op = "identify" BY LeftDo, OpsNamed, Units4
<1>2. Attempt("identify", IdentitiesHold, units) /\ KeepAll
  BY <1>1, Acting DEF Ready, Identify, Plain
<1>3. IdentitiesHold BY DEF IdentitiesHold, Identified, Ready, Trusting
<1>4. /\ target' = target /\ requires' = requires /\ workload' = workload
      /\ units' = units /\ mode' = "commit" /\ step' = step + 1
  BY <1>2, <1>3, Tried
<1>5. Left(r)' BY <1>4, LeftDo, OpsNamed, Units4 DEF Ready
<1>6. Trusting' BY <1>2, <1>4, TrustingKept
<1> QED BY <1>4, <1>5, <1>6 DEF Onto

(* The activity of a unit: a start needs what it requires. *)
LEMMA CleanActivity ==
  ASSUME NEW t \in Targets, Ready(t), NEW u \in Units, NEW on \in BOOLEAN, NEW s \in UnitFileStates,
         NEW r \in Seq(Steps), Left(Then(Step("activity", u, on, s), r)), Known
  PROVE  LET start == on /\ u \notin units.active
             stop  == ~ on /\ u \in units.active
             ok    == StateOf(u) = s /\ (start => Startable(u))
         IN  /\ ok => /\ Onto(r) /\ Trusting'
                      /\ start => units' = Started(u)
                      /\ stop  => units' = Stopped(u)
                      /\ ~ start /\ ~ stop => units' = units
             /\ ~ ok => Refused
<1> DEFINE start == on /\ u \notin units.active
           stop  == ~ on /\ u \in units.active
           ok    == StateOf(u) = s /\ (start => Startable(u))
           after == IF start THEN Started(u) ELSE IF stop THEN Stopped(u) ELSE units
<1>1. Current.op = "activity" /\ Unit = u /\ Current.on = on /\ Current.state = s
  BY LeftNow, OpsNamed
<1>2. (audit[u].active <=> u \in units.active) /\ audit[u].state = StateOf(u)
  BY DEF Known, Observed
<1> DEFINE seen == audit[u].active
           go   == /\ audit[u].state = s
                   /\ on /\ ~seen => Startable(u)
                   /\ u \in Trusted => (on /\ ~seen => ~(u \in units.active))
                                       /\ (seen => u \in units.active)
           end  == IF on /\ ~seen THEN Started(u) ELSE IF ~on /\ seen THEN Stopped(u) ELSE units
<1>3. /\ Attempt("activity", go, end)
      /\ IF on /\ u \in Trusted THEN Keep([identity EXCEPT ![u] = "current"], gated) ELSE KeepAll
  BY <1>1, Acting DEF Ready, Activate
<1>4. (go <=> ok) /\ end = after BY <1>2
<1>5. go \in BOOLEAN OBVIOUS
<1> HIDE DEF go, end
<1>6. /\ target' = target /\ requires' = requires /\ workload' = workload
      /\ \/ go /\ units' = end /\ mode' = "commit" /\ step' = step + 1
         \/ ~ go /\ units' = units /\ mode' = "quarantine"
  BY <1>3, <1>5, Tried
<1>7. ASSUME ~ ok PROVE Refused BY <1>4, <1>6, <1>7 DEF Refused
<1>8. ASSUME ok PROVE Onto(r) /\ Trusting' /\ units' = after
  <2>1. units' = after /\ mode' = "commit" /\ step' = step + 1 BY <1>4, <1>6, <1>8
  <2>2. Left(r)' BY <1>6, <2>1, LeftNow, OpsNamed DEF Ready
  <2>3. ASSUME NEW w \in Trusted, w \in units'.active, w \notin units.active PROVE w = u /\ on
    <3>1. Typed BY DEF Ready
    <3>2. w \in Units BY DEF Units
    <3>3. CASE start
      <4>1. w \in Needed(u) BY <2>1, <2>3, <3>1, <3>2, <3>3, StartMoves DEF Still
      <4> QED BY <3>3, <4>1, Units4 DEF Needed
    <3>4. CASE stop BY <2>1, <2>3, <3>1, <3>2, <3>4, StopMoves
    <3>5. CASE ~ start /\ ~ stop BY <2>1, <2>3, <3>5
    <3> QED BY <3>3, <3>4, <3>5
  <2>4. identity \in [Trusted -> {"none", "current", "stale"}] BY DEF Ready, Typed, Data
  <2>5. \A w \in Trusted : w \in units.active => identity[w] = "current" BY DEF Ready, Trusting
  <2> HIDE DEF ok, after
  <2>6. CASE on /\ u \in Trusted
    <3> DEFINE ids == [identity EXCEPT ![u] = "current"]
    <3>1. ids \in [Trusted -> {"none", "current", "stale"}] BY <2>4
    <3>2. \A w \in Trusted : w \in units'.active => ids[w] = "current" BY <2>3, <2>4, <2>5
    <3>3. Keep(ids, gated) BY <1>3, <2>6
    <3> HIDE DEF ids
    <3>4. Trusting' BY <1>6, <3>1, <3>2, <3>3, TrustingStays
    <3> QED BY <1>6, <2>1, <2>2, <3>4 DEF Onto
  <2>7. CASE ~ (on /\ u \in Trusted)
    <3>1. \A w \in Trusted : w \in units'.active => w \in units.active BY <2>3, <2>7
    <3>2. KeepAll BY <1>3, <2>7
    <3>3. Trusting' BY <1>6, <3>1, <3>2, TrustingKept
    <3> QED BY <1>6, <2>1, <2>2, <3>3 DEF Onto
  <2> QED BY <2>6, <2>7
<1> QED BY <1>7, <1>8

(* The socket keeps its activity, or it is set back. *)
LEMMA CleanSettle ==
  ASSUME NEW t \in Targets, Ready(t), Known, Left(FromSettle(t))
  PROVE  /\ target' = target /\ requires' = requires /\ mode' = "commit"
         /\ Trusting' /\ units' = units /\ Known'
         /\ (Socket \in units.active <=> t[Socket].active) => Left(FromCompare(t))'
         /\ ~ (Socket \in units.active <=> t[Socket].active) => Left(FromReset(t))'
<1> DEFINE s == PreparedState(t[Socket].state)
           on == t[Socket].active
           x == Do("settle", Socket)
           y == Step("activity", Socket, on, s)
           z == Step("check", Socket, on, s)
<1>1. on \in BOOLEAN /\ s \in UnitFileStates BY TargetFacts, Units4
<1>2. FromReset(t) \in Seq(Steps) /\ FromCompare(t) \in Seq(Steps) BY Joints
<1>3. Left(Then(x, FromReset(t))) BY DEF FromSettle
<1>4. Current.op = "settle" BY <1>2, <1>3, LeftDo, OpsNamed, Units4
<1>5. /\ IF audit[Socket].active = target[Socket].active THEN Skip(3) ELSE Continue
      /\ Silent
  BY <1>4, Acting DEF Ready, Settle
<1>6. audit[Socket].active = (Socket \in units.active) /\ t = target /\ mode = "commit"
  BY Units4 DEF Known, Observed, Ready
<1>7. /\ target' = target /\ requires' = requires /\ units' = units /\ audit' = audit
      /\ workload' = workload /\ KeepAll
  BY <1>5 DEF Silent, Plain, request
<1>8. Known' BY <1>7 DEF Known, Observed, StateOf
<1>9. Trusting' BY <1>7, TrustingKept
<1>10. mode' = "commit" BY <1>5, <1>6 DEF Skip, Continue
<1>11. ASSUME Socket \in units.active <=> on PROVE Left(FromCompare(t))'
  <2>1. step' = step + 3 BY <1>1, <1>5, <1>6, <1>11 DEF Skip
  <2>2. /\ x \in Seq(Steps) /\ y \in Seq(Steps) /\ z \in Seq(Steps)
        /\ Len(x) = 1 /\ Len(y) = 1 /\ Len(z) = 1
    <3>1. x \in Seq(Steps) /\ Len(x) = 1 BY DoFacts, OpsNamed, Units4
    <3>2. y \in Seq(Steps) /\ Len(y) = 1 BY <1>1, Single, OpsNamed, Units4
    <3>3. z \in Seq(Steps) /\ Len(z) = 1 BY <1>1, Single, OpsNamed, Units4
    <3> QED BY <3>1, <3>2, <3>3
  <2>3. FromReset(t) = Then(y, Then(z, FromCompare(t)))
    BY <1>1, <1>2, SetParts, Units4 DEF FromReset
  <2>4. Left(Then(x, Then(y, Then(z, FromCompare(t))))) BY <1>3, <2>3
  <2> HIDE DEF x, y, z
  <2> QED BY <1>2, <1>6, <1>7, <1>10, <2>1, <2>2, <2>4, LeftSkip
<1>12. ASSUME ~ (Socket \in units.active <=> on) PROVE Left(FromReset(t))'
  <2>1. step' = step + 1 BY <1>5, <1>6, <1>12 DEF Continue
  <2> QED BY <1>2, <1>3, <1>6, <1>7, <1>10, <2>1, LeftDo, OpsNamed, Units4
<1> QED BY <1>7, <1>8, <1>9, <1>10, <1>11, <1>12

Matching(t, u) == (u \in units.active <=> t[u].active) /\ StateOf(u) = Prepared(t, u)

LEMMA CleanCompare ==
  ASSUME NEW t \in Targets, Ready(t), Known, NEW r \in Seq(Steps), Left(Then(Do("compare", Docker), r))
  PROVE  LET ok == Matching(t, Socket) /\ Matching(t, Docker)
         IN  /\ ok => Onto(r) /\ Trusting' /\ units' = units /\ Known'
             /\ ~ ok => Refused
<1> DEFINE ok == Matching(t, Socket) /\ Matching(t, Docker)
           matches(u) == audit[u] = [active |-> t[u].active, state |-> Prepared(t, u)]
<1>1. Current.op = "compare" BY LeftDo, OpsNamed, Units4
<1>2. t = target /\ mode = "commit" BY DEF Ready
<1>3. /\ \/ matches(Socket) /\ matches(Docker) /\ Continue
         \/ ~(matches(Socket) /\ matches(Docker)) /\ GiveUp
      /\ Silent
  BY <1>1, <1>2, Acting DEF Ready, Compare
<1>4. ASSUME NEW u \in Units PROVE matches(u) <=> Matching(t, u)
  <2>1. audit[u] = [active |-> u \in units.active, state |-> StateOf(u)] BY DEF Known, Observed
  <2>2. t[u].active \in BOOLEAN BY TargetFacts
  <2> QED BY <2>1, <2>2 DEF Matching
<1>5. (matches(Socket) /\ matches(Docker)) <=> ok BY <1>4, Units4
<1> HIDE DEF matches
<1>6. /\ target' = target /\ requires' = requires /\ units' = units /\ audit' = audit
      /\ workload' = workload /\ KeepAll
  BY <1>3 DEF Silent, Plain, request
<1>7. Known' BY <1>6 DEF Known, Observed, StateOf
<1>8. Trusting' BY <1>6, TrustingKept
<1>9. ASSUME ok PROVE Onto(r)
  <2>1. Continue BY <1>3, <1>5, <1>9
  <2>2. mode' = mode /\ step' = step + 1 BY <2>1 DEF Continue
  <2>3. Left(r)' BY <1>6, <2>2, LeftDo, OpsNamed, Units4
  <2> QED BY <1>2, <1>6, <2>2, <2>3 DEF Onto
<1>10. ASSUME ~ ok PROVE Refused
  <2>1. GiveUp BY <1>3, <1>5, <1>10
  <2>2. mode' = "quarantine" BY <1>2, <2>1 DEF GiveUp, Goto
  <2> QED BY <1>6, <2>2 DEF Refused
<1> QED BY <1>6, <1>7, <1>8, <1>9, <1>10

LEMMA CleanConclude ==
  ASSUME NEW t \in Targets, Ready(t), Known, Left(FromConclude), \A u \in Units : Exact(t, u)
  PROVE  mode' = "committed" /\ target' = target /\ requires' = requires
<1>1. Current.op = "conclude" BY LeftDo, OpsNamed, Units4, ThenNone DEF FromConclude
<1>2. t = target /\ mode = "commit" /\ Faults = {} BY DEF Ready, Undisturbed
<1>3. Conclude BY <1>1, Acting DEF Ready
<1>4. audit = target
  <2>1. t \in [Units -> Target] BY TargetsAssumption
  <2>2. ASSUME NEW u \in Units PROVE Observed[u] = t[u]
    <3>1. t[u] \in Target BY <2>1
    <3>2. t[u] = [active |-> t[u].active, state |-> t[u].state] BY <3>1 DEF Target
    <3>3. t[u].active \in BOOLEAN BY <3>1 DEF Target
    <3>4. (u \in units.active) = t[u].active /\ StateOf(u) = t[u].state BY <3>3 DEF Exact
    <3> QED BY <3>2, <3>4 DEF Observed
  <2>3. Observed = t BY <2>1, <2>2 DEF Observed
  <2> QED BY <1>2, <2>3 DEF Known
<1>5. IdentitiesHold
  <2>1. \A u \in Trusted : t[u].active => u \in units.active BY DEF Exact, Units
  <2> QED BY <1>2, <2>1 DEF IdentitiesHold, Identified, Ready, Trusting
<1>6. Goto("committed", step) /\ Silent BY <1>2, <1>3, <1>4, <1>5 DEF Conclude
<1> QED BY <1>6 DEF Goto, Silent, request

-----------------------------------------------------------------------------
(* From place to place. *)

LEMMA PreparedFacts ==
  ASSUME NEW t \in Targets, NEW u \in Units, Typed, Hidden, t = target
  PROVE  /\ Prepared(t, u) \in UnitFileStates \ {"enabled"}
         /\ Prepared(t, u) = "disabled" => units.link[u] \in {"enabled", "disabled"}
         /\ Prepared(t, u) \notin {"disabled", "masked"} => units.link[u] = Prepared(t, u)
         /\ t[u].state = "enabled" => Prepared(t, u) = "disabled"
         /\ t[u].state # "enabled" /\ ~ (u = Socket /\ TemporarySocket(t)) =>
              Prepared(t, u) = t[u].state
         /\ t[u].active \/ NeedsActivationProof(t, u) => Prepared(t, u) \notin Inert
         /\ Prepared(t, u) \in Inert => Prepared(t, u) = t[u].state
         /\ t[u].state \in Inert => Prepared(t, u) = t[u].state \/ (u = Socket /\ TemporarySocket(t))
<1>1. t[u].state \in UnitFileStates /\ t[u].active \in BOOLEAN BY TargetFacts
<1>2. units.link[u] \in HiddenLinks(t[u].state) BY DEF Hidden
<1>3. t[u].active => t[u].state \notin Inert BY TargetsAssumption DEF Consistent
<1>4. CASE u = Socket /\ TemporarySocket(t)
  <2>1. Prepared(t, u) = "disabled" BY <1>4 DEF Prepared
  <2>2. t[u].state = "masked" BY <1>4 DEF TemporarySocket
  <2> QED BY <1>2, <1>4, <2>1, <2>2 DEF HiddenLinks, Inert, UnitFileStates
<1>5. CASE ~ (u = Socket /\ TemporarySocket(t))
  <2>1. Prepared(t, u) = IF t[u].state = "enabled" THEN "disabled" ELSE t[u].state
    BY <1>5 DEF Prepared, PreparedState
  <2>2. NeedsActivationProof(t, u) => t[u].state \notin Inert BY DEF NeedsActivationProof, Inert
  <2> QED BY <1>1, <1>2, <1>3, <1>5, <2>1, <2>2 DEF HiddenLinks, Inert, UnitFileStates
<1> QED BY <1>4, <1>5

LEMMA Loads ==
  ASSUME Typed, NEW u \in Units
  PROVE  Loadable(u) <=> StateOf(u) \notin Inert
<1>1. units.link[u] # "masked" BY DEF Typed, Data, UnitRecords
<1> QED BY <1>1 DEF Loadable, StateOf, Inert

LEMMA Frame ==
  ASSUME NEW t, NEW w, NEW on, Still(w)
  PROVE  /\ Held(t, w, on)' <=> Held(t, w, on)
         /\ Exact(t, w)' <=> Exact(t, w)
         /\ Shut(w)' <=> Shut(w)
BY DEF Still, Held, Exact, Shut

LEMMA AroundFrame ==
  ASSUME NEW t, NEW u \in Units, \A w \in Units : w # u => Still(w), Around(t, u)
  PROVE  Around(t, u)'
<1>1. ASSUME u # FabricManager PROVE Exact(t, FabricManager)' BY <1>1, Frame, Units4 DEF Around
<1>2. ASSUME u \in DockerUnits PROVE Exact(t, Persistenced)' BY <1>2, Frame, Units4 DEF Around
<1>3. ASSUME u = Docker PROVE Held(t, Socket, FALSE)' BY <1>3, Frame, Units4 DEF Around
<1>4. ASSUME u = FabricManager PROVE Shut(Persistenced)' BY <1>4, Frame, Units4 DEF Around
<1>5. ASSUME u \in Nvidia PROVE Shut(Socket)' BY <1>5, Frame, Units4 DEF Around
<1>6. ASSUME u # Docker PROVE Shut(Docker)' BY <1>6, Frame, Units4 DEF Around
<1> QED BY <1>1, <1>2, <1>3, <1>4, <1>5, <1>6 DEF Around

LEMMA ServedFrame ==
  ASSUME NEW t, \A w \in Nvidia : Still(w), Served(t) PROVE Served(t)'
<1> SUFFICES ASSUME NEW u \in Nvidia PROVE Exact(t, u)' BY DEF Served
<1> QED BY Frame DEF Served

(* What a step may come to. *)
Advances(t) == mode' = "commit" /\ target' = target /\ Trusting' /\ Place(t)'
Goes(t) ==
  \/ Advances(t)
  \/ Refused /\ ~ Releasable(t)
  \/ mode' = "committed" /\ target' = target /\ requires' = requires /\ Releasable(t)

(* Where the process is, and what is known of the steps before. *)
Stand(t) == Ready(t) /\ Hidden

LEMMA StandFacts ==
  ASSUME NEW t, Stand(t)
  PROVE  Ready(t) /\ Hidden /\ Typed /\ t = target /\ mode = "commit"
BY DEF Stand, Ready

LEMMA PreparedStep ==
  ASSUME NEW t \in Targets, Stand(t), NEW u \in Units, AtPrepared(t, u)
  PROVE  Goes(t)
<1>1. Ready(t) /\ Hidden /\ Typed /\ t = target BY StandFacts
<1>2. /\ Around(t, u) /\ u \notin units.active /\ StateOf(u) = Prepared(t, u)
      /\ Left(FromChecking(t, u))
  BY DEF AtPrepared
<1>3. FromPrepared(t, u) \in Seq(Steps) /\ Prepared(t, u) \in UnitFileStates
  BY OtherJoints, TargetFacts
<1>4. Onto(FromPrepared(t, u)) /\ Trusting' /\ units' = units /\ Known'
  BY <1>1, <1>2, <1>3, CleanPrepared DEF FromChecking
<1>5. \A w \in Units : Still(w) BY <1>4, NothingMoves
<1>6. Around(t, u)' BY <1>2, <1>5, AroundFrame
<1>7. Held(t, u, FALSE)'
  <2>1. Held(t, u, FALSE) BY <1>2 DEF Held
  <2> QED BY <1>5, <2>1, Frame
<1>8. Left(FromPrepared(t, u))' /\ mode' = "commit" /\ target' = target BY <1>4 DEF Onto
<1>9. CASE u \in Nvidia
  <2>1. FromPrepared(t, u) = FromProof(t, u, Beyond(t, u)) BY <1>9, Units4 DEF FromPrepared
  <2>2. AtProof(t, u)' BY <1>4, <1>6, <1>7, <1>8, <2>1 DEF AtProof
  <2> QED BY <1>4, <1>8, <1>9, <2>2 DEF Goes, Advances, Place, Serving
<1>10. CASE u = Socket
  <2>1. FromPrepared(t, u) = Then(Prepare(t, Docker), FromPrepared(t, Docker))
    BY <1>10, Units4 DEF FromPrepared, FromDockerUnit
  <2>2. Shut(Docker)' /\ Around(t, Docker)' BY <1>6, <1>7, <1>10, Units4 DEF Around
  <2>3. Left(Then(Prepare(t, Docker), FromPrepared(t, Docker)))' BY <1>8, <2>1
  <2>4. AtPrepare(t, Docker)' BY <1>4, <2>2, <2>3 DEF AtPrepare
  <2> QED BY <1>4, <1>8, <2>4, Units4 DEF Goes, Advances, Place, Preparing
<1>11. CASE u = Docker
  <2>1. FromPrepared(t, u) = FromSocket(t) BY <1>11, Units4 DEF FromPrepared
  <2>2. Served(t)' /\ Held(t, Socket, FALSE)' BY <1>6, <1>11, Units4 DEF Around, Served
  <2>3. AtSocket(t)' BY <1>4, <1>7, <1>8, <1>11, <2>1, <2>2 DEF AtSocket, Waiting
  <2> QED BY <1>4, <1>8, <2>3 DEF Goes, Advances, Place, Opening
<1> QED BY <1>9, <1>10, <1>11, Units4

LEMMA DisableStep ==
  ASSUME NEW t \in Targets, Stand(t), NEW u \in Units, AtDisable(t, u)
  PROVE  Goes(t)
<1>1. Ready(t) /\ Hidden /\ Typed /\ t = target BY StandFacts
<1>2. /\ Around(t, u) /\ u \notin units.active /\ u \notin units.masked
      /\ Prepared(t, u) = "disabled" /\ Left(Then(Do("disable", u), FromChecking(t, u)))
  BY DEF AtDisable
<1>3. units.link[u] \in {"enabled", "disabled"} BY <1>1, <1>2, PreparedFacts
<1>4. FromChecking(t, u) \in Seq(Steps) BY OtherJoints
<1>5. Onto(FromChecking(t, u)) /\ Trusting' /\ units' = Linked(u, "disabled")
  BY <1>1, <1>2, <1>3, <1>4, CleanDisable
<1>6. /\ \A w \in Units : w # u => Still(w)
      /\ u \notin units'.active /\ StateOf(u)' = "disabled"
  BY <1>1, <1>2, <1>3, <1>5, LinkMoves
<1>7. Around(t, u)' BY <1>2, <1>6, AroundFrame
<1>8. AtPrepared(t, u)' BY <1>2, <1>5, <1>6, <1>7 DEF AtPrepared, Onto
<1> QED BY <1>5, <1>8 DEF Goes, Advances, Onto, Place, Preparing

LEMMA PrepareStep ==
  ASSUME NEW t \in Targets, Stand(t), NEW u \in Units, AtPrepare(t, u)
  PROVE  Goes(t)
<1>1. Ready(t) /\ Hidden /\ Typed /\ t = target BY StandFacts
<1>2. Around(t, u) /\ Known /\ Shut(u) /\ Left(Then(Prepare(t, u), FromPrepared(t, u)))
  BY DEF AtPrepare
<1>3. FromPrepared(t, u) \in Seq(Steps) /\ FromChecking(t, u) \in Seq(Steps) BY OtherJoints
<1>4. u \in units.masked /\ u \notin units.active BY <1>2 DEF Shut
<1>5. CASE Prepared(t, u) = "masked"
  <2>1. Left(FromChecking(t, u)) BY <1>2, <1>3, <1>5, PrepareParts DEF FromChecking
  <2>2. StateOf(u) = Prepared(t, u) BY <1>4, <1>5 DEF StateOf
  <2>3. AtPrepared(t, u) BY <1>2, <1>4, <2>1, <2>2 DEF AtPrepared
  <2> QED BY <2>3, PreparedStep DEF Stand
<1>6. CASE Prepared(t, u) = "disabled"
  <2> DEFINE r == Then(Do("disable", u), FromChecking(t, u))
  <2>1. r \in Seq(Steps) BY <1>3, DoSeq, OpsNamed, ThenSeq
  <2>2. Left(Then(Do("unmask", u), r)) BY <1>2, <1>3, <1>6, PrepareParts DEF FromChecking
  <2> HIDE DEF r
  <2>3. Onto(r) /\ Trusting' /\ units' = Unmasked(u) BY <1>1, <1>2, <1>4, <2>1, <2>2, CleanUnmask
  <2>4. /\ \A w \in Units : w # u => Still(w)
        /\ u \notin units'.active /\ u \notin units'.masked
    BY <1>1, <1>4, <2>3, UnmaskMoves
  <2>5. Around(t, u)' BY <1>2, <2>4, AroundFrame
  <2>6. AtDisable(t, u)' BY <1>6, <2>3, <2>4, <2>5 DEF AtDisable, Onto, r
  <2> QED BY <2>3, <2>6 DEF Goes, Advances, Onto, Place, Preparing
<1>7. CASE Prepared(t, u) \notin {"masked", "disabled"}
  <2>1. Left(Then(Do("unmask", u), FromChecking(t, u)))
    BY <1>2, <1>3, <1>7, PrepareParts DEF FromChecking
  <2>2. Onto(FromChecking(t, u)) /\ Trusting' /\ units' = Unmasked(u)
    BY <1>1, <1>2, <1>3, <1>4, <2>1, CleanUnmask
  <2>3. /\ \A w \in Units : w # u => Still(w)
        /\ u \notin units'.active /\ StateOf(u)' = units.link[u]
    BY <1>1, <1>4, <2>2, UnmaskMoves
  <2>4. Around(t, u)' BY <1>2, <2>3, AroundFrame
  <2>5. units.link[u] = Prepared(t, u) BY <1>1, <1>7, PreparedFacts
  <2>6. AtPrepared(t, u)' BY <2>2, <2>3, <2>4, <2>5 DEF AtPrepared, Onto
  <2> QED BY <2>2, <2>6 DEF Goes, Advances, Onto, Place, Preparing
<1> QED BY <1>5, <1>6, <1>7

-----------------------------------------------------------------------------
(* The NVIDIA services: nothing of theirs has a reason to refuse. *)

LEMMA ServiceActivity ==
  ASSUME NEW t \in Targets, Stand(t), NEW u \in Nvidia, NEW on \in BOOLEAN, NEW r \in Seq(Steps),
         Around(t, u), Known, Held(t, u, TRUE) \/ Held(t, u, FALSE),
         on => Prepared(t, u) \notin Inert,
         Left(Then(Step("activity", u, on, Prepared(t, u)), r))
  PROVE  Onto(r) /\ Trusting' /\ Around(t, u)' /\ Held(t, u, on)'
<1>1. Ready(t) /\ Hidden /\ Typed /\ t = target BY StandFacts
<1>2. u \in Units /\ u # Docker /\ u # Socket BY Units4
<1>3. Prepared(t, u) \in UnitFileStates /\ StateOf(u) = Prepared(t, u)
  BY <1>2, TargetFacts DEF Held
<1> DEFINE start == on /\ u \notin units.active
           stop  == ~ on /\ u \in units.active
<1>4. Needed(u) = {u} /\ Dependent(u) = {u} BY <1>2 DEF Needed, Dependent
<1>5. start => Startable(u) BY <1>1, <1>2, <1>3, <1>4, Loads DEF Startable
<1>6. /\ Onto(r) /\ Trusting'
      /\ start => units' = Started(u)
      /\ stop  => units' = Stopped(u)
      /\ ~ start /\ ~ stop => units' = units
  BY <1>1, <1>2, <1>3, <1>5, CleanActivity
<1>7. /\ \A w \in Units : w # u => Still(w)
      /\ StateOf(u)' = StateOf(u) /\ (u \in units'.active <=> on)
  <2>1. CASE start BY <1>1, <1>2, <1>4, <1>6, <2>1, StartMoves
  <2>2. CASE stop BY <1>1, <1>2, <1>4, <1>6, <2>2, StopMoves
  <2>3. CASE ~ start /\ ~ stop
    <3>1. units' = units BY <1>6, <2>3
    <3>2. \A w \in Units : Still(w) BY <3>1, NothingMoves
    <3> QED BY <1>2, <2>3, <3>2 DEF Still
  <2> QED BY <2>1, <2>2, <2>3
<1>8. Around(t, u)' BY <1>2, <1>7, AroundFrame
<1>9. Held(t, u, on)' BY <1>3, <1>7 DEF Held
<1> QED BY <1>6, <1>8, <1>9

LEMMA ActivityStep ==
  ASSUME NEW t \in Targets, Stand(t), NEW u \in Nvidia, AtActivity(t, u)
  PROVE  Goes(t)
<1>1. Typed /\ Hidden /\ t = target BY StandFacts
<1>2. u \in Units BY Units4
<1>3. /\ Around(t, u) /\ Known /\ (Held(t, u, TRUE) \/ Held(t, u, FALSE))
      /\ Left(FromActivity(t, u, Beyond(t, u)))
  BY DEF AtActivity
<1> DEFINE rest == FromState(t, u, Beyond(t, u))
           s == Prepared(t, u)
           on == t[u].active
           r == Then(Step("check", u, on, s), rest)
<1>4. s \in UnitFileStates /\ on \in BOOLEAN BY <1>2, TargetFacts
<1>5. rest \in Seq(Steps) BY <1>2, OtherJoints, ServiceJoints
<1>6. r \in Seq(Steps) BY <1>2, <1>4, <1>5, StepSeq, OpsNamed, ThenSeq
<1>7. Left(Then(Step("activity", u, on, s), r))
  BY <1>2, <1>3, <1>4, <1>5, SetParts DEF FromActivity
<1>8. on => s \notin Inert BY <1>1, <1>2, PreparedFacts
<1> HIDE DEF r
<1>9. Onto(r) /\ Trusting' /\ Around(t, u)' /\ Held(t, u, on)'
  BY <1>3, <1>4, <1>6, <1>7, <1>8, ServiceActivity
<1>10. AtActivityCheck(t, u)' BY <1>9 DEF AtActivityCheck, Onto, Checking, r
<1> QED BY <1>9, <1>10 DEF Goes, Advances, Onto, Place, Serving

LEMMA ProofStep ==
  ASSUME NEW t \in Targets, Stand(t), NEW u \in Nvidia, AtProof(t, u)
  PROVE  Goes(t)
<1>1. Typed /\ Hidden /\ t = target BY StandFacts
<1>2. u \in Units BY Units4
<1>3. /\ Around(t, u) /\ Known /\ Held(t, u, FALSE)
      /\ Left(Then(Testing(t, u), FromActivity(t, u, Beyond(t, u))))
  BY DEF AtProof, FromProof
<1> DEFINE rest == FromActivity(t, u, Beyond(t, u))
           s == Prepared(t, u)
           r == Then(Step("check", u, TRUE, s), rest)
<1>4. s \in UnitFileStates /\ NeedsActivationProof(t, u) \in BOOLEAN
  BY <1>2, TargetFacts, Booleans
<1>5. rest \in Seq(Steps) BY <1>2, OtherJoints, ServiceJoints
<1>6. r \in Seq(Steps) BY <1>2, <1>4, <1>5, StepSeq, OpsNamed, ThenSeq
<1>7. CASE NeedsActivationProof(t, u)
  <2>1. /\ Set(u, TRUE, s) \in Seq(Steps)
        /\ Then(Set(u, TRUE, s), rest) = Then(Step("activity", u, TRUE, s), r)
    BY <1>2, <1>4, <1>5, SetParts
  <2> HIDE DEF rest, s, r
  <2>2. Then(Testing(t, u), rest) = Then(Set(u, TRUE, s), rest)
    BY <1>4, <1>5, <1>7, <2>1, WhenParts DEF Testing, s
  <2>3. Left(Then(Step("activity", u, TRUE, s), r)) BY <1>3, <2>1, <2>2 DEF rest
  <2>4. s \notin Inert BY <1>1, <1>2, <1>7, PreparedFacts DEF s
  <2>5. Onto(r) /\ Trusting' /\ Around(t, u)' /\ Held(t, u, TRUE)'
    BY <1>3, <1>6, <2>3, <2>4, ServiceActivity DEF s
  <2>6. AtProofCheck(t, u)' BY <2>5 DEF AtProofCheck, Onto, Checking, r, s, rest
  <2> QED BY <2>5, <2>6 DEF Goes, Advances, Onto, Place, Serving
<1>8. CASE ~ NeedsActivationProof(t, u)
  <2>1. Set(u, TRUE, s) \in Seq(Steps) BY <1>2, <1>4, <1>5, SetParts
  <2> HIDE DEF rest, s
  <2> DEFINE x == Set(u, TRUE, s)
             b == NeedsActivationProof(t, u)
  <2>4. x \in Seq(Steps) /\ b \in BOOLEAN /\ Testing(t, u) = When(b, x)
    BY <1>4, <2>1 DEF Testing, s
  <2>5. ~ b BY <1>8
  <2> HIDE DEF x, b
  <2>2. Then(Testing(t, u), rest) = rest BY <1>5, <2>4, <2>5, WhenParts
  <2>3. AtActivity(t, u) BY <1>3, <2>2 DEF AtActivity, rest
  <2> QED BY <2>3, ActivityStep
<1> QED BY <1>7, <1>8

(* A look that finds what it wants leaves the host as it is. *)
LEMMA ServiceLook ==
  ASSUME NEW t \in Targets, Stand(t), NEW u \in Nvidia, NEW on \in BOOLEAN, NEW r \in Seq(Steps),
         Around(t, u), Held(t, u, on), Checking(t, u, on, r)
  PROVE  Onto(r) /\ Trusting' /\ Known' /\ Around(t, u)' /\ Held(t, u, on)'
<1>1. Ready(t) BY StandFacts
<1>2. u \in Units BY Units4
<1>3. Prepared(t, u) \in UnitFileStates BY <1>2, TargetFacts
<1>4. u \in units.active <=> on BY DEF Held
<1>5. Left(Then(Step("check", u, on, Prepared(t, u)), r)) BY DEF Checking
<1>6. Onto(r) /\ Trusting' /\ units' = units /\ Known' BY <1>1, <1>2, <1>3, <1>4, <1>5, CleanCheck
<1>7. \A w \in Units : Still(w) BY <1>6, NothingMoves
<1>8. Around(t, u)' BY <1>2, <1>7, AroundFrame
<1>9. Held(t, u, on)' BY <1>2, <1>7 DEF Held, Still
<1> QED BY <1>6, <1>8, <1>9

LEMMA ProofCheckStep ==
  ASSUME NEW t \in Targets, Stand(t), NEW u \in Nvidia, AtProofCheck(t, u)
  PROVE  Goes(t)
<1> DEFINE r == FromActivity(t, u, Beyond(t, u))
<1>1. r \in Seq(Steps) BY Units4, OtherJoints, ServiceJoints
<1>2. Around(t, u) /\ Held(t, u, TRUE) /\ Checking(t, u, TRUE, r) BY DEF AtProofCheck
<1> HIDE DEF r
<1>3. Onto(r) /\ Trusting' /\ Known' /\ Around(t, u)' /\ Held(t, u, TRUE)'
  BY <1>1, <1>2, ServiceLook
<1>4. AtActivity(t, u)' BY <1>3 DEF AtActivity, Onto, r
<1> QED BY <1>3, <1>4 DEF Goes, Advances, Onto, Place, Serving

LEMMA ActivityCheckStep ==
  ASSUME NEW t \in Targets, Stand(t), NEW u \in Nvidia, AtActivityCheck(t, u)
  PROVE  Goes(t)
<1> DEFINE r == FromState(t, u, Beyond(t, u))
           on == t[u].active
<1>1. r \in Seq(Steps) /\ on \in BOOLEAN BY Units4, OtherJoints, ServiceJoints, Booleans
<1>2. Around(t, u) /\ Held(t, u, on) /\ Checking(t, u, on, r) BY DEF AtActivityCheck
<1> HIDE DEF r
<1>3. Onto(r) /\ Trusting' /\ Known' /\ Around(t, u)' /\ Held(t, u, on)'
  BY <1>1, <1>2, ServiceLook
<1>4. AtState(t, u)' BY <1>3 DEF AtState, Onto, r
<1> QED BY <1>3, <1>4 DEF Goes, Advances, Onto, Place, Serving

LEMMA FinalStep ==
  ASSUME NEW t \in Targets, Stand(t), NEW u \in Nvidia, AtFinal(t, u)
  PROVE  Goes(t)
<1>1. Ready(t) BY StandFacts
<1>2. u \in Units BY Units4
<1> DEFINE r == Beyond(t, u)
<1>3. r \in Seq(Steps) BY <1>2, OtherJoints
<1>4. Around(t, u) /\ Exact(t, u) /\ Left(Then(Do("final", u), r)) BY DEF AtFinal
<1> HIDE DEF r
<1>5. Onto(r) /\ Trusting' /\ units' = units /\ Known' BY <1>1, <1>2, <1>3, <1>4, CleanFinal
<1>6. \A w \in Units : Still(w) BY <1>5, NothingMoves
<1>7. Around(t, u)' BY <1>2, <1>4, <1>6, AroundFrame
<1>8. Exact(t, u)' BY <1>2, <1>4, <1>6, Frame
<1>9. Left(r)' /\ mode' = "commit" /\ target' = target BY <1>5 DEF Onto
<1>10. CASE u = FabricManager
  <2>1. r = Then(Prepare(t, Persistenced), FromPrepared(t, Persistenced))
    BY <1>10, Units4 DEF r, Beyond, FromPersistenced, FromPrepared
  <2>2. Around(t, Persistenced)' /\ Shut(Persistenced)'
    BY <1>7, <1>8, <1>10, Units4 DEF Around
  <2>3. AtPrepare(t, Persistenced)' BY <1>5, <1>9, <2>1, <2>2 DEF AtPrepare
  <2> QED BY <1>5, <1>9, <2>3, Units4 DEF Goes, Advances, Place, Preparing
<1>11. CASE u = Persistenced
  <2>1. r = Then(Prepare(t, Socket), FromPrepared(t, Socket))
    BY <1>11, Units4 DEF r, Beyond, FromSocketUnit, FromPrepared
  <2>2. Around(t, Socket)' /\ Shut(Socket)' BY <1>7, <1>8, <1>11, Units4 DEF Around
  <2>3. AtPrepare(t, Socket)' BY <1>5, <1>9, <2>1, <2>2 DEF AtPrepare
  <2> QED BY <1>5, <1>9, <2>3, Units4 DEF Goes, Advances, Place, Preparing
<1> QED BY <1>10, <1>11, Units4

LEMMA StateStep ==
  ASSUME NEW t \in Targets, Stand(t), NEW u \in Nvidia, AtState(t, u)
  PROVE  Goes(t)
<1>1. Ready(t) /\ Hidden /\ Typed /\ t = target BY StandFacts
<1>2. u \in Units /\ u # Socket BY Units4
<1>3. /\ Around(t, u) /\ Known /\ Held(t, u, t[u].active)
      /\ Left(Then(Finalize(t, u), Beyond(t, u)))
  BY DEF AtState, FromState
<1> DEFINE rest == Beyond(t, u)
           r == Then(Do("final", u), rest)
<1>4. rest \in Seq(Steps) /\ r \in Seq(Steps) BY <1>2, OtherJoints, DoSeq, OpsNamed, ThenSeq
<1>5. Prepared(t, u) \in UnitFileStates /\ StateOf(u) = Prepared(t, u)
      /\ (u \in units.active <=> t[u].active)
  BY <1>2, <1>3, TargetFacts DEF Held
<1>6. CASE t[u].state = "enabled"
  <2>1. Left(Then(Step("enable", u, FALSE, Prepared(t, u)), r))
    BY <1>2, <1>3, <1>4, <1>6, FinalizeParts
  <2>2. Prepared(t, u) = "disabled" /\ units.link[u] \in {"enabled", "disabled"}
    BY <1>1, <1>2, <1>6, PreparedFacts
  <2> HIDE DEF r
  <2>3. Onto(r) /\ Trusting' /\ units' = Linked(u, "enabled")
    BY <1>1, <1>2, <1>3, <1>4, <1>5, <2>1, <2>2, CleanEnable
  <2>4. u \notin units.masked BY <1>5, <2>2 DEF StateOf
  <2>5. /\ \A w \in Units : w # u => Still(w)
        /\ units'.active = units.active /\ StateOf(u)' = "enabled"
    BY <1>1, <1>2, <2>2, <2>3, <2>4, LinkMoves
  <2>6. Around(t, u)' BY <1>2, <1>3, <2>5, AroundFrame
  <2>7. Exact(t, u)' BY <1>5, <1>6, <2>5 DEF Exact
  <2>8. AtFinal(t, u)' BY <2>3, <2>6, <2>7 DEF AtFinal, Onto, r
  <2> QED BY <2>3, <2>8 DEF Goes, Advances, Onto, Place, Serving
<1>7. CASE t[u].state # "enabled"
  <2>1. Left(r) BY <1>2, <1>3, <1>4, <1>7, FinalizeParts
  <2>2. Prepared(t, u) = t[u].state BY <1>1, <1>2, <1>7, PreparedFacts
  <2>3. Exact(t, u) BY <1>5, <2>2 DEF Exact
  <2>4. AtFinal(t, u) BY <1>3, <2>1, <2>3 DEF AtFinal
  <2> QED BY <2>4, FinalStep
<1> QED BY <1>6, <1>7
-----------------------------------------------------------------------------
(* The socket, and then Docker, is started to be proved. *)

(* What is started needs no more than itself, but for a daemon that requires its socket. *)
LEMMA Wants ==
  ASSUME NEW u \in Units
  PROVE  /\ u # Docker \/ ~ requires => Needed(u) = {u}
         /\ Docker \in Needed(Docker) /\ (Socket \in Needed(Docker) <=> requires)
         /\ Needed(Docker) \subseteq {Docker, Socket}
         /\ u # Socket \/ ~ requires => Dependent(u) = {u}
         /\ Socket \in Dependent(Socket) /\ (Docker \in Dependent(Socket) <=> requires)
         /\ Dependent(Socket) \subseteq {Docker, Socket}
BY Units4 DEF Needed, Dependent

LEMMA Proofs ==
  ASSUME NEW t \in Targets, Typed, Hidden, t = target
  PROVE  /\ ProveSocket(t) => Prepared(t, Socket) \notin Inert
         /\ Prepared(t, Docker) \in Inert <=> t[Docker].state \in Inert
         /\ Prepared(t, Socket) \in Inert => t[Socket].state \in Inert
         /\ ~ TemporarySocket(t) =>
              (Prepared(t, Socket) \in Inert <=> t[Socket].state \in Inert)
<1>1. Docker \in Units /\ Socket \in Units /\ Docker # Socket BY Units4
<1>2. TemporarySocket(t) => Prepared(t, Socket) = "disabled" BY DEF Prepared
<1>3. ASSUME ProveSocket(t) PROVE Prepared(t, Socket) \notin Inert
  <2>1. CASE TemporarySocket(t) BY <1>2, <2>1 DEF Inert
  <2>2. CASE ~ TemporarySocket(t)
    <3>1. t[Socket].active \/ NeedsActivationProof(t, Socket) BY <1>3, <2>2 DEF ProveSocket
    <3> QED BY <1>1, <3>1, PreparedFacts
  <2> QED BY <2>1, <2>2
<1>4. Prepared(t, Docker) \in Inert <=> t[Docker].state \in Inert BY <1>1, PreparedFacts
<1>5. Prepared(t, Socket) \in Inert => t[Socket].state \in Inert BY <1>1, PreparedFacts
<1>6. ASSUME ~ TemporarySocket(t), t[Socket].state \in Inert PROVE Prepared(t, Socket) \in Inert
  BY <1>1, <1>6, PreparedFacts
<1> QED BY <1>3, <1>4, <1>5, <1>6

LEMMA DockerStep ==
  ASSUME NEW t \in Targets, Stand(t), AtDocker(t)
  PROVE  Goes(t)
<1>1. Ready(t) /\ Hidden /\ Typed /\ t = target BY StandFacts
<1> DEFINE s == Prepared(t, Docker)
           on == ProveDocker(t)
           r == Then(Step("check", Docker, on, s), FromGate(t))
<1>2. /\ Served(t) /\ Held(t, Docker, FALSE) /\ Known /\ Held(t, Socket, ProveSocket(t))
      /\ Left(Then(Set(Docker, on, s), FromGate(t)))
  BY DEF AtDocker, Waiting, FromDocker
<1>3. /\ s \in UnitFileStates /\ on \in BOOLEAN /\ FromGate(t) \in Seq(Steps)
      /\ Docker \in Units /\ Socket \in Units /\ Docker # Socket /\ Docker \notin Nvidia
      /\ Socket \notin Nvidia /\ Nvidia \subseteq Units
  BY TargetFacts, Booleans, Joints, Units4
<1>4. r \in Seq(Steps) BY <1>3, StepSeq, OpsNamed, ThenSeq
<1>5. Left(Then(Step("activity", Docker, on, s), r)) BY <1>2, <1>3, SetParts
<1>6. /\ StateOf(Docker) = s /\ Docker \notin units.active
      /\ StateOf(Socket) = Prepared(t, Socket) /\ (Socket \in units.active <=> ProveSocket(t))
  BY <1>2 DEF Held
<1>7. Startable(Docker) <=> s \notin Inert /\ (requires => Prepared(t, Socket) \notin Inert)
  BY <1>1, <1>3, <1>6, Loads, Wants DEF Startable
<1> HIDE DEF r
<1>8. /\ (on => Startable(Docker)) => /\ Onto(r) /\ Trusting'
                                      /\ on => units' = Started(Docker)
                                      /\ ~ on => units' = units
      /\ ~ (on => Startable(Docker)) => Refused
  BY <1>1, <1>2, <1>3, <1>4, <1>5, <1>6, CleanActivity
<1>9. CASE ~ (on => Startable(Docker))
  <2>1. ~ Releasable(t) BY <1>1, <1>7, <1>9, Proofs DEF Releasable
  <2> QED BY <1>8, <1>9, <2>1 DEF Goes
<1>10. CASE on => Startable(Docker)
  <2>1. Onto(r) /\ Trusting' BY <1>8, <1>10
  <2>2. requires' = requires /\ mode' = "commit" /\ target' = target /\ Left(r)'
    BY <2>1 DEF Onto
  <2>3. Openable(t)' BY <1>1, <1>7, <1>10, <2>2, Proofs DEF Openable
  <2>4. /\ \A w \in Nvidia : Still(w)
        /\ StateOf(Docker)' = s /\ (Docker \in units'.active <=> on)
        /\ StateOf(Socket)' = Prepared(t, Socket)
        /\ Socket \in units'.active <=> Pulled(t)
    <3>1. CASE on
      <4>1. units' = Started(Docker) BY <1>8, <1>10, <3>1
      <4>2. Pulled(t) <=> ProveSocket(t) \/ requires BY <3>1 DEF Pulled
      <4>3. \A w \in Units : w \notin Needed(Docker) => Still(w) BY <1>1, <1>3, <4>1, StartMoves
      <4>4. \A w \in Units : StateOf(w)' = StateOf(w) /\ (w \in Needed(Docker) => w \in units'.active)
        BY <1>1, <1>3, <4>1, StartMoves
      <4>5. Socket \in units'.active <=> ProveSocket(t) \/ requires
        BY <1>3, <1>6, <4>3, <4>4, Wants DEF Still
      <4> QED BY <1>3, <1>6, <3>1, <4>2, <4>3, <4>4, <4>5, Wants
    <3>2. CASE ~ on
      <4>1. units' = units BY <1>8, <1>10, <3>2
      <4>2. Pulled(t) <=> ProveSocket(t) BY <3>2 DEF Pulled
      <4>3. \A w \in Units : Still(w) BY <4>1, NothingMoves
      <4> QED BY <1>3, <1>6, <3>2, <4>2, <4>3 DEF Still
    <3> QED BY <3>1, <3>2
  <2>5. Served(t)' BY <1>2, <2>4, ServedFrame
  <2>6. Held(t, Docker, on)' BY <2>4 DEF Held
  <2>7. Held(t, Socket, Pulled(t))'
    <3>1. Pulled(t)' = Pulled(t) BY <2>2 DEF Pulled
    <3> QED BY <2>4, <3>1 DEF Held
  <2>8. AtDockerCheck(t)' BY <2>2, <2>3, <2>5, <2>6, <2>7 DEF AtDockerCheck, Shown, Checking, r
  <2> QED BY <2>1, <2>2, <2>8 DEF Goes, Advances, Place, Gated
<1> QED BY <1>9, <1>10

LEMMA SocketStep ==
  ASSUME NEW t \in Targets, Stand(t), AtSocket(t)
  PROVE  Goes(t)
<1>1. Ready(t) /\ Hidden /\ Typed /\ t = target BY StandFacts
<1> DEFINE s == Prepared(t, Socket)
           rest == FromDocker(t)
           r == Then(Step("check", Socket, TRUE, s), rest)
           x == Set(Socket, TRUE, s)
           b == ProveSocket(t)
<1>2. /\ Served(t) /\ Held(t, Docker, FALSE) /\ Known /\ Held(t, Socket, FALSE)
      /\ Left(Then(Trying(t), rest))
  BY DEF AtSocket, Waiting, FromSocket
<1>3. /\ s \in UnitFileStates /\ b \in BOOLEAN /\ rest \in Seq(Steps)
      /\ Docker \in Units /\ Socket \in Units /\ Docker # Socket /\ Docker \notin Nvidia
      /\ Socket \notin Nvidia /\ Nvidia \subseteq Units
  BY TargetFacts, Booleans, Joints, Units4
<1>4. /\ r \in Seq(Steps) /\ x \in Seq(Steps)
      /\ Then(x, rest) = Then(Step("activity", Socket, TRUE, s), r)
  BY <1>3, StepSeq, OpsNamed, ThenSeq, SetParts
<1>5. Trying(t) = When(b, x) BY DEF Trying
<1>6. CASE b
  <2> HIDE DEF r, x, b, rest
  <2>12. b \in BOOLEAN /\ x \in Seq(Steps) /\ rest \in Seq(Steps) BY <1>3, <1>4
  <2>13. Then(When(b, x), rest) = Then(x, rest) BY <1>6, <2>12, WhenParts
  <2>11. Then(Trying(t), rest) = Then(x, rest) BY <1>5, <2>13
  <2>1. Left(Then(Step("activity", Socket, TRUE, s), r)) BY <1>2, <1>4, <2>11
  <2>2. s \notin Inert BY <1>1, <1>6, Proofs DEF b
  <2>3. StateOf(Socket) = s /\ Socket \notin units.active BY <1>2 DEF Held
  <2>4. Startable(Socket) BY <1>1, <1>3, <2>2, <2>3, Loads, Wants DEF Startable
  <2>5. Onto(r) /\ Trusting' /\ units' = Started(Socket)
    BY <1>1, <1>2, <1>3, <1>4, <2>1, <2>3, <2>4, CleanActivity
  <2>6. /\ \A w \in Units : w # Socket => Still(w)
        /\ StateOf(Socket)' = s /\ Socket \in units'.active
    BY <1>1, <1>3, <2>3, <2>5, StartMoves, Wants
  <2>7. Served(t)' BY <1>2, <1>3, <2>6, ServedFrame
  <2>8. Held(t, Docker, FALSE)' BY <1>2, <1>3, <2>6 DEF Held, Still
  <2>9. Held(t, Socket, TRUE)' BY <2>6 DEF Held
  <2>10. AtSocketCheck(t)'
    BY <1>6, <2>5, <2>7, <2>8, <2>9 DEF AtSocketCheck, Waiting, Checking, Onto, r, rest, b
  <2> QED BY <2>5, <2>10 DEF Goes, Advances, Onto, Place, Opening
<1>7. CASE ~ b
  <2> HIDE DEF r, x, b, rest
  <2>1. Left(rest) BY <1>2, <1>3, <1>4, <1>5, <1>7, WhenParts
  <2>2. Held(t, Socket, ProveSocket(t)) BY <1>2, <1>7 DEF Held, b
  <2>3. AtDocker(t) BY <1>2, <2>1, <2>2 DEF AtDocker, Waiting, rest
  <2> QED BY <2>3, DockerStep
<1> QED BY <1>3, <1>6, <1>7

LEMMA SocketCheckStep ==
  ASSUME NEW t \in Targets, Stand(t), AtSocketCheck(t)
  PROVE  Goes(t)
<1>1. Ready(t) BY StandFacts
<1> DEFINE s == Prepared(t, Socket)
<1>2. /\ Served(t) /\ Held(t, Docker, FALSE) /\ ProveSocket(t) /\ Held(t, Socket, TRUE)
      /\ Left(Then(Step("check", Socket, TRUE, s), FromDocker(t)))
  BY DEF AtSocketCheck, Waiting, Checking
<1>3. s \in UnitFileStates /\ FromDocker(t) \in Seq(Steps) /\ Socket \in Units
  BY TargetFacts, Joints, Units4
<1>4. Socket \in units.active BY <1>2 DEF Held
<1>5. Onto(FromDocker(t)) /\ Trusting' /\ units' = units /\ Known'
  BY <1>1, <1>2, <1>3, <1>4, CleanCheck
<1>6. \A w : Still(w) BY <1>5, NothingMoves
<1>7. Served(t)' BY <1>2, <1>6, ServedFrame
<1>8. Held(t, Docker, FALSE)' BY <1>2, <1>6 DEF Held, Still
<1>9. Held(t, Socket, ProveSocket(t))' BY <1>2, <1>6 DEF Held, Still
<1>10. AtDocker(t)' BY <1>5, <1>7, <1>8, <1>9 DEF AtDocker, Waiting, Onto
<1> QED BY <1>5, <1>10 DEF Goes, Advances, Onto, Place, Opening
-----------------------------------------------------------------------------
(* Docker is gated and set to its activity, and then the socket to its own. *)

LEMMA ShownFrame ==
  ASSUME NEW t \in Targets, NEW on \in BOOLEAN, Shown(t, on), \A w \in Units : Still(w),
         requires' = requires
  PROVE  Shown(t, on)'
<1>1. Docker \in Units /\ Socket \in Units /\ Nvidia \subseteq Units BY Units4
<1>2. Served(t)' BY <1>1, ServedFrame DEF Shown
<1>3. Openable(t)' BY DEF Shown, Openable
<1>4. Held(t, Docker, on)' BY <1>1 DEF Held, Still, Shown
<1>5. Pulled(t)' = Pulled(t) BY DEF Pulled
<1>6. Held(t, Socket, Pulled(t))' BY <1>1, <1>5 DEF Held, Still, Shown
<1> QED BY <1>2, <1>3, <1>4, <1>6 DEF Shown

LEMMA ShownCheck ==
  ASSUME NEW t \in Targets, Stand(t), NEW on \in BOOLEAN, NEW r \in Seq(Steps), Shown(t, on),
         Checking(t, Docker, on, r)
  PROVE  Onto(r) /\ Trusting' /\ Known' /\ Shown(t, on)'
<1>1. Ready(t) BY StandFacts
<1>2. Docker \in Units /\ Prepared(t, Docker) \in UnitFileStates BY TargetFacts, Units4
<1>3. Docker \in units.active <=> on BY DEF Shown, Held
<1>4. Left(Then(Step("check", Docker, on, Prepared(t, Docker)), r)) BY DEF Checking
<1>5. Onto(r) /\ Trusting' /\ units' = units /\ Known' BY <1>1, <1>2, <1>3, <1>4, CleanCheck
<1>6. \A w \in Units : Still(w) BY <1>5, NothingMoves
<1>7. requires' = requires BY <1>5 DEF Onto
<1> QED BY <1>5, <1>6, <1>7, ShownFrame

LEMMA DockerCheckStep ==
  ASSUME NEW t \in Targets, Stand(t), AtDockerCheck(t)
  PROVE  Goes(t)
<1>1. FromGate(t) \in Seq(Steps) /\ ProveDocker(t) \in BOOLEAN BY Joints, Booleans
<1>2. Shown(t, ProveDocker(t)) /\ Checking(t, Docker, ProveDocker(t), FromGate(t))
  BY DEF AtDockerCheck
<1>3. Onto(FromGate(t)) /\ Trusting' /\ Known' /\ Shown(t, ProveDocker(t))'
  BY <1>1, <1>2, ShownCheck
<1>4. AtGate(t)' BY <1>3 DEF AtGate, Onto
<1> QED BY <1>3, <1>4 DEF Goes, Advances, Onto, Place, Gated

LEMMA StopCheckStep ==
  ASSUME NEW t \in Targets, Stand(t), AtStopCheck(t)
  PROVE  Goes(t)
<1>1. FromSettle(t) \in Seq(Steps) /\ t[Docker].active = FALSE
  BY Joints, Booleans, Units4 DEF AtStopCheck
<1>2. Shown(t, FALSE) /\ Checking(t, Docker, FALSE, FromSettle(t)) BY DEF AtStopCheck
<1>3. Onto(FromSettle(t)) /\ Trusting' /\ Known' /\ Shown(t, FALSE)' BY <1>1, <1>2, ShownCheck
<1>4. AtSettle(t)' BY <1>1, <1>3 DEF AtSettle, Onto
<1> QED BY <1>3, <1>4 DEF Goes, Advances, Onto, Place, Gated

(* A daemon that was proved and is not to run is stopped. *)
LEMMA SettleStep ==
  ASSUME NEW t \in Targets, Stand(t), AtSettle(t)
  PROVE  Goes(t)
<1>1. Ready(t) /\ Hidden /\ Typed /\ t = target BY StandFacts
<1>2. Shown(t, t[Docker].active) /\ Known /\ Left(FromSettle(t)) BY DEF AtSettle
<1>3. /\ target' = target /\ requires' = requires /\ mode' = "commit"
      /\ Trusting' /\ units' = units /\ Known'
      /\ (Socket \in units.active <=> t[Socket].active) => Left(FromCompare(t))'
      /\ ~ (Socket \in units.active <=> t[Socket].active) => Left(FromReset(t))'
  BY <1>1, <1>2, CleanSettle
<1>4. t[Docker].active \in BOOLEAN /\ t[Socket].active \in BOOLEAN BY Booleans, Units4
<1>5. \A w \in Units : Still(w) BY <1>3, NothingMoves
<1>6. Shown(t, t[Docker].active)' BY <1>2, <1>3, <1>4, <1>5, ShownFrame
<1>7. Pulled(t)' = Pulled(t) BY <1>3 DEF Pulled
<1>8. Socket \in units.active <=> Pulled(t) BY <1>2 DEF Shown, Held
<1>9. CASE Socket \in units.active <=> t[Socket].active
  <2>1. Pulled(t) <=> t[Socket].active BY <1>8, <1>9
  <2>2. ~ TemporarySocket(t) BY <2>1 DEF Pulled, ProveSocket, TemporarySocket
  <2>3. /\ Served(t)' /\ Openable(t)' /\ Held(t, Socket, Pulled(t))'
        /\ Held(t, Docker, t[Docker].active)'
    BY <1>6 DEF Shown
  <2>4. Held(t, Socket, t[Socket].active)' BY <1>7, <2>1, <2>3 DEF Held
  <2>5. t[Docker].active /\ requires => t[Socket].active
    BY <2>1 DEF Pulled, ProveDocker
  <2>6. Held(t, Docker, t[Docker].active /\ (requires => t[Socket].active))'
    BY <1>3, <2>3, <2>5 DEF Held
  <2>7. AtCompare(t)' BY <1>3, <1>9, <2>2, <2>3, <2>4, <2>6 DEF AtCompare, Settled
  <2> QED BY <1>3, <2>7 DEF Goes, Advances, Place, Settling
<1>10. CASE ~ (Socket \in units.active <=> t[Socket].active)
  <2>1. AtReset(t)' BY <1>3, <1>6, <1>7, <1>8, <1>10 DEF AtReset
  <2> QED BY <1>3, <2>1 DEF Goes, Advances, Place, Gated
<1> QED BY <1>9, <1>10

LEMMA StopStep ==
  ASSUME NEW t \in Targets, Stand(t), AtStop(t)
  PROVE  Goes(t)
<1>1. Ready(t) /\ Hidden /\ Typed /\ t = target BY StandFacts
<1> DEFINE s == Prepared(t, Docker)
           rest == FromSettle(t)
           r == Then(Step("check", Docker, FALSE, s), rest)
           x == Set(Docker, FALSE, s)
           b == ~ t[Docker].active /\ ProveDocker(t)
<1>2. Shown(t, ProveDocker(t)) /\ Known /\ Left(Then(Stopping(t), rest)) BY DEF AtStop, FromStop
<1>3. /\ s \in UnitFileStates /\ b \in BOOLEAN /\ rest \in Seq(Steps)
      /\ ProveDocker(t) \in BOOLEAN /\ t[Docker].active \in BOOLEAN
      /\ Docker \in Units /\ Socket \in Units /\ Docker # Socket /\ Docker \notin Nvidia
      /\ Socket \notin Nvidia /\ Nvidia \subseteq Units
  BY TargetFacts, Booleans, Joints, Units4
<1>4. /\ r \in Seq(Steps) /\ x \in Seq(Steps)
      /\ Then(x, rest) = Then(Step("activity", Docker, FALSE, s), r)
  BY <1>3, StepSeq, OpsNamed, ThenSeq, SetParts
<1>5. Stopping(t) = When(b, x) BY DEF Stopping
<1>6. CASE b
  <2>1. ProveDocker(t) = TRUE /\ t[Docker].active = FALSE BY <1>3, <1>6
  <2> HIDE DEF r, x, b, rest
  <2>13. b \in BOOLEAN /\ x \in Seq(Steps) /\ rest \in Seq(Steps) BY <1>3, <1>4
  <2>14. Then(When(b, x), rest) = Then(x, rest) BY <1>6, <2>13, WhenParts
  <2>2. Then(Stopping(t), rest) = Then(x, rest) BY <1>5, <2>14
  <2>3. Left(Then(Step("activity", Docker, FALSE, s), r)) BY <1>2, <1>4, <2>2
  <2>4. StateOf(Docker) = s /\ Docker \in units.active BY <1>2, <2>1 DEF Held, Shown
  <2>5. Onto(r) /\ Trusting' /\ units' = Stopped(Docker)
    BY <1>1, <1>2, <1>3, <1>4, <2>3, <2>4, CleanActivity
  <2>6. Dependent(Docker) = {Docker} BY <1>3, Wants
  <2>7. /\ \A w \in Units : w # Docker => Still(w)
        /\ StateOf(Docker)' = s /\ Docker \notin units'.active
    BY <1>1, <1>3, <2>4, <2>5, <2>6, StopMoves
  <2>8. Served(t)' BY <1>2, <1>3, <2>7, ServedFrame DEF Shown
  <2>9. Held(t, Docker, FALSE)' BY <2>7 DEF Held
  <2>10. requires' = requires /\ Openable(t)' /\ Pulled(t)' = Pulled(t)
    BY <1>2, <2>5 DEF Onto, Openable, Shown, Pulled
  <2>11. Held(t, Socket, Pulled(t))' BY <1>2, <1>3, <2>7, <2>10 DEF Held, Still, Shown
  <2>12. AtStopCheck(t)'
    BY <2>1, <2>5, <2>8, <2>9, <2>10, <2>11 DEF AtStopCheck, Shown, Checking, Onto, r, rest
  <2> QED BY <2>5, <2>12 DEF Goes, Advances, Onto, Place, Gated
<1>7. CASE ~ b
  <2>1. ProveDocker(t) = t[Docker].active BY <1>3, <1>7 DEF ProveDocker
  <2> HIDE DEF r, x, b, rest
  <2>2. Then(Stopping(t), rest) = rest BY <1>3, <1>4, <1>5, <1>7, WhenParts
  <2>3. AtSettle(t) BY <1>2, <2>1, <2>2 DEF AtSettle, rest
  <2> QED BY <2>3, SettleStep
<1> QED BY <1>3, <1>6, <1>7

LEMMA GatingStep ==
  ASSUME NEW t \in Targets, Stand(t), AtGate(t)
  PROVE  Goes(t)
<1>1. Ready(t) BY StandFacts
<1> DEFINE x == Do("gate", Docker)
           b == ProveDocker(t)
<1>2. Shown(t, ProveDocker(t)) /\ Known /\ Left(Then(Gating(t), FromStop(t))) BY DEF AtGate, FromGate
<1>3. b \in BOOLEAN /\ FromStop(t) \in Seq(Steps) /\ x \in Seq(Steps) /\ Gating(t) = When(b, x)
  BY Booleans, Joints, DoSeq, OpsNamed, Units4 DEF Gating
<1>4. CASE b
  <2>1. Docker \in units.active BY <1>2, <1>4 DEF Shown, Held
  <2> HIDE DEF x, b
  <2>2. Then(Gating(t), FromStop(t)) = Then(x, FromStop(t)) BY <1>3, <1>4, WhenParts
  <2>3. Onto(FromStop(t)) /\ Trusting' /\ units' = units /\ Known'
    BY <1>1, <1>2, <1>3, <2>1, <2>2, CleanGate DEF x
  <2>4. \A w \in Units : Still(w) BY <2>3, NothingMoves
  <2>5. Shown(t, ProveDocker(t))' BY <1>2, <1>3, <2>3, <2>4, ShownFrame DEF Onto, b
  <2>6. AtStop(t)' BY <2>3, <2>5 DEF AtStop, Onto
  <2> QED BY <2>3, <2>6 DEF Goes, Advances, Onto, Place, Gated
<1>5. CASE ~ b
  <2> HIDE DEF x, b
  <2>1. Then(Gating(t), FromStop(t)) = FromStop(t) BY <1>3, <1>5, WhenParts
  <2>2. AtStop(t) BY <1>2, <2>1 DEF AtStop
  <2> QED BY <2>2, StopStep
<1> QED BY <1>3, <1>4, <1>5

(* The socket is set back: never a temporary one, which is not what the snapshot has. *)
LEMMA ResetStep ==
  ASSUME NEW t \in Targets, Stand(t), AtReset(t)
  PROVE  Goes(t)
<1>1. Ready(t) /\ Hidden /\ Typed /\ t = target BY StandFacts
<1> DEFINE s == PreparedState(t[Socket].state)
           on == t[Socket].active
           rest == FromCompare(t)
           r == Then(Step("check", Socket, on, s), rest)
<1>2. /\ Shown(t, t[Docker].active) /\ Known /\ ~ (Pulled(t) <=> on)
      /\ Left(Then(Set(Socket, on, s), rest))
  BY DEF AtReset, FromReset
<1>3. /\ s \in UnitFileStates /\ on \in BOOLEAN /\ rest \in Seq(Steps)
      /\ t[Docker].active \in BOOLEAN
      /\ Docker \in Units /\ Socket \in Units /\ Docker # Socket /\ Docker \notin Nvidia
      /\ Socket \notin Nvidia /\ Nvidia \subseteq Units
  BY TargetFacts, Booleans, Joints, Units4
<1>4. r \in Seq(Steps) BY <1>3, StepSeq, OpsNamed, ThenSeq
<1>5. Left(Then(Step("activity", Socket, on, s), r)) BY <1>2, <1>3, SetParts
<1>6. on = FALSE /\ Pulled(t) BY <1>2, <1>3 DEF Pulled, ProveSocket
<1>7. /\ StateOf(Socket) = Prepared(t, Socket) /\ Socket \in units.active
      /\ StateOf(Docker) = Prepared(t, Docker) /\ (Docker \in units.active <=> t[Docker].active)
  BY <1>2, <1>6 DEF Shown, Held
<1> HIDE DEF r
<1>8. /\ StateOf(Socket) = s => Onto(r) /\ Trusting' /\ units' = Stopped(Socket)
      /\ StateOf(Socket) # s => Refused
  BY <1>1, <1>2, <1>3, <1>4, <1>5, <1>6, <1>7, CleanActivity
<1>9. CASE TemporarySocket(t)
  <2>1. s = "masked" /\ Prepared(t, Socket) = "disabled"
    BY <1>9 DEF TemporarySocket, PreparedState, Prepared
  <2>2. Refused /\ ~ Releasable(t) BY <1>7, <1>8, <1>9, <2>1 DEF Releasable
  <2> QED BY <2>2 DEF Goes
<1>10. CASE ~ TemporarySocket(t)
  <2>1. Prepared(t, Socket) = s BY <1>10 DEF Prepared
  <2>2. Onto(r) /\ Trusting' /\ units' = Stopped(Socket) BY <1>7, <1>8, <2>1
  <2>3. requires' = requires BY <2>2 DEF Onto
  <2>4. /\ \A w \in Units : w \notin Dependent(Socket) => Still(w)
        /\ \A w \in Units : /\ StateOf(w)' = StateOf(w)
                            /\ w \in units'.active => w \in units.active
                            /\ w \in Dependent(Socket) => w \notin units'.active
    BY <1>1, <1>3, <2>2, StopMoves
  <2>5. /\ \A w \in Nvidia : Still(w)
        /\ StateOf(Socket)' = s /\ Socket \notin units'.active
        /\ StateOf(Docker)' = Prepared(t, Docker)
    BY <1>3, <1>7, <2>1, <2>4, Wants
  <2>6. Docker \in units'.active <=> t[Docker].active /\ ~ requires
    BY <1>3, <1>7, <2>4, Wants DEF Still
  <2>7. Served(t)' BY <1>2, <2>5, ServedFrame DEF Shown
  <2>8. Openable(t)' BY <1>2, <2>3 DEF Openable, Shown
  <2>9. Held(t, Socket, t[Socket].active)' BY <1>6, <2>1, <2>5 DEF Held
  <2>10. Held(t, Docker, t[Docker].active /\ (requires => t[Socket].active))'
    BY <1>6, <2>3, <2>5, <2>6 DEF Held
  <2>11. Settled(t)' BY <1>10, <2>7, <2>8, <2>9, <2>10 DEF Settled
  <2>12. AtResetCheck(t)' BY <2>2, <2>11 DEF AtResetCheck, Onto, r
  <2> QED BY <2>2, <2>12 DEF Goes, Advances, Onto, Place, Settling
<1> QED BY <1>9, <1>10
-----------------------------------------------------------------------------
(* What the two have come to is compared with the snapshot. *)

LEMMA SettledFrame ==
  ASSUME NEW t \in Targets, Settled(t), \A w : Still(w), requires' = requires
  PROVE  Settled(t)'
<1>1. Served(t)' BY ServedFrame DEF Settled
<1>2. Openable(t)' BY DEF Settled, Openable
<1>3. Held(t, Socket, t[Socket].active)' BY DEF Held, Still, Settled
<1>4. Held(t, Docker, t[Docker].active /\ (requires => t[Socket].active))'
  BY DEF Held, Still, Settled
<1> QED BY <1>1, <1>2, <1>3, <1>4 DEF Settled

LEMMA ResetCheckStep ==
  ASSUME NEW t \in Targets, Stand(t), AtResetCheck(t)
  PROVE  Goes(t)
<1>1. Ready(t) BY StandFacts
<1> DEFINE s == PreparedState(t[Socket].state)
<1>2. Settled(t) /\ Left(Then(Step("check", Socket, t[Socket].active, s), FromCompare(t)))
  BY DEF AtResetCheck
<1>3. /\ s \in UnitFileStates /\ FromCompare(t) \in Seq(Steps) /\ Socket \in Units
      /\ t[Socket].active \in BOOLEAN
  BY TargetFacts, Joints, Booleans, Units4
<1>4. Socket \in units.active <=> t[Socket].active BY <1>2 DEF Settled, Held
<1> HIDE DEF s
<1>5. Onto(FromCompare(t)) /\ Trusting' /\ units' = units /\ Known'
  BY <1>1, <1>2, <1>3, <1>4, CleanCheck
<1>6. \A w : Still(w) BY <1>5, NothingMoves
<1>7. Settled(t)' BY <1>2, <1>5, <1>6, SettledFrame DEF Onto
<1>8. AtCompare(t)' BY <1>5, <1>7 DEF AtCompare, Onto
<1> QED BY <1>5, <1>8 DEF Goes, Advances, Onto, Place, Settling

LEMMA CompareStep ==
  ASSUME NEW t \in Targets, Stand(t), AtCompare(t)
  PROVE  Goes(t)
<1>1. Ready(t) BY StandFacts
<1>2. Settled(t) /\ Known /\ Left(Then(Do("compare", Docker), FromDockerState(t)))
  BY DEF AtCompare, FromCompare
<1>3. FromDockerState(t) \in Seq(Steps) BY Joints
<1>4. /\ ~ TemporarySocket(t) /\ Openable(t) /\ Served(t)
      /\ Held(t, Socket, t[Socket].active)
      /\ Held(t, Docker, t[Docker].active /\ (requires => t[Socket].active))
  BY <1>2 DEF Settled
<1>5. Matching(t, Socket) BY <1>4 DEF Matching, Held
<1>6. Matching(t, Docker) <=> (t[Docker].active /\ requires => t[Socket].active)
  BY <1>4 DEF Matching, Held
<1>7. CASE t[Docker].active /\ requires => t[Socket].active
  <2>1. Onto(FromDockerState(t)) /\ Trusting' /\ units' = units /\ Known'
    BY <1>1, <1>2, <1>3, <1>5, <1>6, <1>7, CleanCompare
  <2>2. \A w : Still(w) BY <2>1, NothingMoves
  <2>3. Releasable(t)' BY <1>4, <1>7, <2>1 DEF Releasable, Openable, Onto
  <2>4. Served(t)' BY <1>4, <2>2, ServedFrame
  <2>5. Held(t, Socket, t[Socket].active)' BY <1>4, <2>2 DEF Held, Still
  <2>6. Held(t, Docker, t[Docker].active)' BY <1>4, <1>7, <2>2 DEF Held, Still
  <2>7. AtDockerState(t)' BY <2>1, <2>3, <2>4, <2>5, <2>6 DEF AtDockerState, Releasing, Onto
  <2> QED BY <2>1, <2>7 DEF Goes, Advances, Onto, Place, Closing
<1>8. CASE ~ (t[Docker].active /\ requires => t[Socket].active)
  <2>1. Refused BY <1>1, <1>2, <1>3, <1>5, <1>6, <1>8, CleanCompare
  <2>2. ~ Releasable(t) BY <1>8 DEF Releasable
  <2> QED BY <2>1, <2>2 DEF Goes
<1> QED BY <1>7, <1>8

-----------------------------------------------------------------------------
(* From here on every step does what it is for. *)

LEMMA ReleasingFrame ==
  ASSUME NEW t \in Targets, Releasing(t), \A w \in Nvidia : Still(w), requires' = requires
  PROVE  Releasing(t)'
<1>1. Served(t)' BY ServedFrame DEF Releasing
<1>2. Releasable(t)' BY DEF Releasing, Releasable
<1> QED BY <1>1, <1>2 DEF Releasing

LEMMA AllExactFrame ==
  ASSUME NEW t \in Targets, AllExact(t), \A w : Still(w), requires' = requires
  PROVE  AllExact(t)'
<1>1. Releasing(t)' BY ReleasingFrame DEF AllExact
<1>2. Exact(t, Docker)' /\ Exact(t, Socket)' BY DEF Exact, Still, AllExact
<1> QED BY <1>1, <1>2 DEF AllExact

LEMMA ConcludeStep ==
  ASSUME NEW t \in Targets, Stand(t), AtConclude(t)
  PROVE  Goes(t)
<1>1. Ready(t) BY StandFacts
<1>2. AllExact(t) /\ Known /\ Left(FromConclude) BY DEF AtConclude
<1>3. \A u \in Units : Exact(t, u) BY <1>2, Units4 DEF AllExact, Releasing, Served
<1>4. mode' = "committed" /\ target' = target /\ requires' = requires
  BY <1>1, <1>2, <1>3, CleanConclude
<1>5. Releasable(t) BY <1>2 DEF AllExact, Releasing
<1> QED BY <1>4, <1>5 DEF Goes

LEMMA AuditStep ==
  ASSUME NEW t \in Targets, Stand(t), AtAudit(t)
  PROVE  Goes(t)
<1>1. Ready(t) BY StandFacts
<1>2. AllExact(t) /\ Left(Then(Do("audit", Docker), FromConclude)) BY DEF AtAudit, FromAudit
<1>3. FromConclude \in Seq(Steps) BY Joints
<1>4. Onto(FromConclude) /\ Trusting' /\ units' = units /\ Known' BY <1>1, <1>2, <1>3, CleanAudit
<1>5. \A w : Still(w) BY <1>4, NothingMoves
<1>6. AllExact(t)' BY <1>2, <1>4, <1>5, AllExactFrame DEF Onto
<1>7. AtConclude(t)' BY <1>4, <1>6 DEF AtConclude, Onto
<1> QED BY <1>4, <1>7 DEF Goes, Advances, Onto, Place, Closing

LEMMA LastGateStep ==
  ASSUME NEW t \in Targets, Stand(t), AtLastGate(t)
  PROVE  Goes(t)
<1>1. Ready(t) BY StandFacts
<1> DEFINE x == Do("gate", Docker)
           b == FinalGateRequired(t)
<1>2. AllExact(t) /\ Left(Then(When(b, x), FromAudit)) BY DEF AtLastGate, FromLastGate
<1>3. b \in BOOLEAN /\ FromAudit \in Seq(Steps) /\ x \in Seq(Steps)
  BY Booleans, Joints, DoSeq, OpsNamed, Units4
<1>4. CASE b
  <2>1. Docker \in units.active BY <1>2, <1>4 DEF AllExact, Exact, FinalGateRequired
  <2> HIDE DEF x, b
  <2>2. Then(When(b, x), FromAudit) = Then(x, FromAudit) BY <1>3, <1>4, WhenParts
  <2>3. Onto(FromAudit) /\ Trusting' /\ units' = units /\ Known'
    BY <1>1, <1>2, <1>3, <2>1, <2>2, CleanGate DEF x
  <2>4. \A w : Still(w) BY <2>3, NothingMoves
  <2>5. AllExact(t)' BY <1>2, <2>3, <2>4, AllExactFrame DEF Onto
  <2>6. AtAudit(t)' BY <2>3, <2>5 DEF AtAudit, Onto
  <2> QED BY <2>3, <2>6 DEF Goes, Advances, Onto, Place, Closing
<1>5. CASE ~ b
  <2> HIDE DEF x, b
  <2>1. Then(When(b, x), FromAudit) = FromAudit BY <1>3, <1>5, WhenParts
  <2>2. AtAudit(t) BY <1>2, <2>1 DEF AtAudit
  <2> QED BY <2>2, AuditStep
<1> QED BY <1>3, <1>4, <1>5

LEMMA JointStep ==
  ASSUME NEW t \in Targets, Stand(t), AtJoint(t)
  PROVE  Goes(t)
<1>1. Ready(t) BY StandFacts
<1>2. AllExact(t) /\ Left(Then(Do("identify", Docker), FromLastGate(t))) BY DEF AtJoint, FromJoint
<1>3. FromLastGate(t) \in Seq(Steps) BY Joints
<1>4. \A u \in Trusted : t[u].active => u \in units.active
  BY <1>2, Units4 DEF AllExact, Exact, Releasing, Served
<1>5. Onto(FromLastGate(t)) /\ Trusting' /\ units' = units
  BY <1>1, <1>2, <1>3, <1>4, CleanIdentify
<1>6. \A w : Still(w) BY <1>5, NothingMoves
<1>7. AllExact(t)' BY <1>2, <1>5, <1>6, AllExactFrame DEF Onto
<1>8. AtLastGate(t)' BY <1>5, <1>7 DEF AtLastGate, Onto
<1> QED BY <1>5, <1>8 DEF Goes, Advances, Onto, Place, Closing

LEMMA SocketFinalStep ==
  ASSUME NEW t \in Targets, Stand(t), AtSocketFinal(t)
  PROVE  Goes(t)
<1>1. Ready(t) BY StandFacts
<1>2. AllExact(t) /\ Left(Then(Do("final", Socket), FromJoint(t))) BY DEF AtSocketFinal
<1>3. FromJoint(t) \in Seq(Steps) /\ Socket \in Units BY Joints, Units4
<1>4. Exact(t, Socket) BY <1>2 DEF AllExact
<1>5. Onto(FromJoint(t)) /\ Trusting' /\ units' = units BY <1>1, <1>2, <1>3, <1>4, CleanFinal
<1>6. \A w : Still(w) BY <1>5, NothingMoves
<1>7. AllExact(t)' BY <1>2, <1>5, <1>6, AllExactFrame DEF Onto
<1>8. AtJoint(t)' BY <1>5, <1>7 DEF AtJoint, Onto
<1> QED BY <1>5, <1>8 DEF Goes, Advances, Onto, Place, Closing

LEMMA DockerFinalStep ==
  ASSUME NEW t \in Targets, Stand(t), AtDockerFinal(t)
  PROVE  Goes(t)
<1>1. Ready(t) BY StandFacts
<1>2. /\ Releasing(t) /\ Exact(t, Docker) /\ Held(t, Socket, t[Socket].active)
      /\ Left(Then(Do("final", Docker), FromSocketState(t)))
  BY DEF AtDockerFinal
<1>3. FromSocketState(t) \in Seq(Steps) /\ Docker \in Units BY Joints, Units4
<1>4. Onto(FromSocketState(t)) /\ Trusting' /\ units' = units /\ Known'
  BY <1>1, <1>2, <1>3, CleanFinal
<1>5. \A w : Still(w) BY <1>4, NothingMoves
<1>6. Releasing(t)' BY <1>2, <1>4, <1>5, ReleasingFrame DEF Onto
<1>7. Exact(t, Docker)' BY <1>2, <1>5 DEF Exact, Still
<1>8. Held(t, Socket, t[Socket].active)' BY <1>2, <1>5 DEF Held, Still
<1>9. AtSocketState(t)' BY <1>4, <1>6, <1>7, <1>8 DEF AtSocketState, Onto
<1> QED BY <1>4, <1>9 DEF Goes, Advances, Onto, Place, Closing

(* The enablement of a Docker unit, behind the activity it has. *)
LEMMA EnableUnit ==
  ASSUME NEW t \in Targets, Stand(t), NEW u \in DockerUnits, NEW rest \in Seq(Steps), Known,
         ~ TemporarySocket(t), Held(t, u, t[u].active), Left(Then(Finalize(t, u), rest))
  PROVE  \/ /\ Onto(Then(Do("final", u), rest)) /\ Trusting' /\ Exact(t, u)'
            /\ \A w \in Units : w # u => Still(w)
         \/ Exact(t, u) /\ Left(Then(Do("final", u), rest))
<1>1. Ready(t) /\ Hidden /\ Typed /\ t = target BY StandFacts
<1>2. u \in Units BY Units4
<1> DEFINE r == Then(Do("final", u), rest)
<1>3. r \in Seq(Steps) BY <1>2, DoSeq, OpsNamed, ThenSeq
<1>4. Prepared(t, u) \in UnitFileStates /\ StateOf(u) = Prepared(t, u)
      /\ (u \in units.active <=> t[u].active)
  BY <1>2, TargetFacts DEF Held
<1>5. CASE t[u].state = "enabled"
  <2>1. Left(Then(Step("enable", u, FALSE, Prepared(t, u)), r)) BY <1>2, <1>5, FinalizeParts
  <2>2. Prepared(t, u) = "disabled" /\ units.link[u] \in {"enabled", "disabled"}
    BY <1>1, <1>2, <1>5, PreparedFacts
  <2> HIDE DEF r
  <2>3. Onto(r) /\ Trusting' /\ units' = Linked(u, "enabled")
    BY <1>1, <1>2, <1>3, <1>4, <2>1, <2>2, CleanEnable
  <2>4. u \notin units.masked BY <1>4, <2>2 DEF StateOf
  <2>5. /\ \A w \in Units : w # u => Still(w)
        /\ units'.active = units.active /\ StateOf(u)' = "enabled"
    BY <1>1, <1>2, <2>2, <2>3, <2>4, LinkMoves
  <2>6. Exact(t, u)' BY <1>4, <1>5, <2>5 DEF Exact
  <2> QED BY <2>3, <2>5, <2>6 DEF r
<1>6. CASE t[u].state # "enabled"
  <2>1. Left(r) BY <1>2, <1>3, <1>6, FinalizeParts
  <2>2. Prepared(t, u) = t[u].state BY <1>1, <1>2, <1>6, PreparedFacts
  <2>3. Exact(t, u) BY <1>4, <2>2 DEF Exact
  <2> QED BY <2>1, <2>3
<1> QED BY <1>5, <1>6

LEMMA SocketStateStep ==
  ASSUME NEW t \in Targets, Stand(t), AtSocketState(t)
  PROVE  Goes(t)
<1>1. /\ Releasing(t) /\ Known /\ Exact(t, Docker) /\ Held(t, Socket, t[Socket].active)
      /\ Left(FromSocketState(t))
  BY DEF AtSocketState
<1>2. ~ TemporarySocket(t) BY <1>1 DEF Releasing, Releasable
<1>3. Left(Then(Finalize(t, Socket), FromJoint(t))) BY <1>1, <1>2 DEF FromSocketState, SocketState
<1>4. FromJoint(t) \in Seq(Steps) /\ Socket \in DockerUnits BY Joints, Units4
<1> DEFINE r == Then(Do("final", Socket), FromJoint(t))
<1>5. \/ /\ Onto(r) /\ Trusting' /\ Exact(t, Socket)'
         /\ \A w \in Units : w # Socket => Still(w)
      \/ Exact(t, Socket) /\ Left(r)
  BY <1>1, <1>2, <1>3, <1>4, EnableUnit
<1> HIDE DEF r
<1>6. CASE /\ Onto(r) /\ Trusting' /\ Exact(t, Socket)'
           /\ \A w \in Units : w # Socket => Still(w)
  <2>1. Still(Docker) /\ \A w \in Nvidia : Still(w) BY <1>6, Units4
  <2>2. Releasing(t)' BY <1>1, <1>6, <2>1, ReleasingFrame DEF Onto
  <2>3. Exact(t, Docker)' BY <1>1, <2>1 DEF Exact, Still
  <2>4. AtSocketFinal(t)' BY <1>6, <2>2, <2>3 DEF AtSocketFinal, AllExact, Onto, r
  <2> QED BY <1>6, <2>4 DEF Goes, Advances, Onto, Place, Closing
<1>7. CASE Exact(t, Socket) /\ Left(r)
  <2>1. AtSocketFinal(t) BY <1>1, <1>7 DEF AtSocketFinal, AllExact, r
  <2> QED BY <2>1, SocketFinalStep
<1> QED BY <1>5, <1>6, <1>7

LEMMA DockerStateStep ==
  ASSUME NEW t \in Targets, Stand(t), AtDockerState(t)
  PROVE  Goes(t)
<1>1. /\ Releasing(t) /\ Known /\ Held(t, Docker, t[Docker].active)
      /\ Held(t, Socket, t[Socket].active) /\ Left(Then(Finalize(t, Docker), FromSocketState(t)))
  BY DEF AtDockerState, FromDockerState
<1>2. ~ TemporarySocket(t) BY <1>1 DEF Releasing, Releasable
<1>3. FromSocketState(t) \in Seq(Steps) /\ Docker \in DockerUnits BY Joints, Units4
<1> DEFINE r == Then(Do("final", Docker), FromSocketState(t))
<1>4. \/ /\ Onto(r) /\ Trusting' /\ Exact(t, Docker)'
         /\ \A w \in Units : w # Docker => Still(w)
      \/ Exact(t, Docker) /\ Left(r)
  BY <1>1, <1>2, <1>3, EnableUnit
<1> HIDE DEF r
<1>5. CASE /\ Onto(r) /\ Trusting' /\ Exact(t, Docker)'
           /\ \A w \in Units : w # Docker => Still(w)
  <2>1. Still(Socket) /\ \A w \in Nvidia : Still(w) BY <1>5, Units4
  <2>2. Releasing(t)' BY <1>1, <1>5, <2>1, ReleasingFrame DEF Onto
  <2>3. Held(t, Socket, t[Socket].active)' BY <1>1, <2>1 DEF Held, Still
  <2>4. AtDockerFinal(t)' BY <1>5, <2>2, <2>3 DEF AtDockerFinal, Onto, r
  <2> QED BY <1>5, <2>4 DEF Goes, Advances, Onto, Place, Closing
<1>6. CASE Exact(t, Docker) /\ Left(r)
  <2>1. AtDockerFinal(t) BY <1>1, <1>6 DEF AtDockerFinal, r
  <2> QED BY <2>1, DockerFinalStep
<1> QED BY <1>4, <1>5, <1>6
-----------------------------------------------------------------------------
(* Every place leads on. *)

LEMMA PlaceSteps == ASSUME NEW t \in Targets, Stand(t), Place(t) PROVE Goes(t)
<1>1. ASSUME NEW u \in Units, Preparing(t, u) PROVE Goes(t)
  BY <1>1, PrepareStep, DisableStep, PreparedStep DEF Preparing
<1>2. ASSUME NEW u \in Nvidia, Serving(t, u) PROVE Goes(t)
  BY <1>2, ProofStep, ProofCheckStep, ActivityStep, ActivityCheckStep, StateStep, FinalStep
     DEF Serving
<1>3. ASSUME Opening(t) PROVE Goes(t)
  BY <1>3, SocketStep, SocketCheckStep, DockerStep DEF Opening
<1>4. ASSUME Gated(t) PROVE Goes(t)
  BY <1>4, DockerCheckStep, GatingStep, StopStep, StopCheckStep, SettleStep, ResetStep DEF Gated
<1>5. ASSUME Settling(t) PROVE Goes(t) BY <1>5, ResetCheckStep, CompareStep DEF Settling
<1>6. ASSUME Closing(t) PROVE Goes(t)
  BY <1>6, DockerStateStep, DockerFinalStep, SocketStateStep, SocketFinalStep, JointStep,
     LastGateStep, AuditStep, ConcludeStep DEF Closing
<1> QED BY <1>1, <1>2, <1>3, <1>4, <1>5, <1>6 DEF Place

LEMMA CleanInit == ASSUME Init PROVE CleanInv
<1>1. /\ target \in Targets /\ audit = Observed /\ identity = [u \in Trusted |-> "none"]
      /\ workload = FALSE /\ mode = "commit" /\ step = 1
  BY DEF Init
<1>2. units.active = {} /\ units.masked = Units BY DEF Init
<1>3. Trusting BY <1>1, <1>2 DEF Trusting
<1>4. \A u \in Units : Shut(u) BY <1>2 DEF Shut
<1>5. Known BY <1>1 DEF Known
<1>6. FromFabricManager(target) = Then(Prepare(target, FabricManager),
                                       FromPrepared(target, FabricManager))
  BY Units4 DEF FromFabricManager, FromPrepared, Beyond
<1>7. Left(FromFabricManager(target))
  <2> DEFINE r == FromFabricManager(target)
  <2>1. Script = r BY <1>1, WholeScript DEF Script, Commits
  <2>2. r \in Seq(Steps) BY <1>1, Units4, OtherJoints
  <2> HIDE DEF r
  <2> DEFINE p == <<>>
  <2>3. p \in Seq(Steps) /\ Then(p, r) = r BY <2>2, ThenNone
  <2>4. step = Len(p) + 1 BY <1>1
  <2> HIDE DEF p
  <2>5. Left(r) BY <2>1, <2>3, <2>4 DEF Left
  <2> QED BY <2>5 DEF r
<1>8. Around(target, FabricManager) BY <1>4, Units4 DEF Around
<1>9. AtPrepare(target, FabricManager) BY <1>4, <1>5, <1>6, <1>7, <1>8, Units4 DEF AtPrepare
<1>10. Place(target) BY <1>9, Units4 DEF Place, Preparing
<1> QED BY <1>1, <1>3, <1>10 DEF CleanInv, CleanCommitSucceeds

(* A place does not depend on the history. *)
LEMMA PlaceStays == ASSUME NEW t \in Targets, Place(t), UNCHANGED vars PROVE Place(t)'
<1>1. /\ target' = target /\ requires' = requires /\ units' = units /\ audit' = audit
      /\ mode' = mode /\ step' = step
  BY DEF vars, request, control
<1>2. \A r : Left(r)' <=> Left(r)
  <2>1. Script' = Script BY <1>1 DEF Script
  <2> QED BY <1>1, <2>1 DEF Left
<1>3. /\ \A u, on : Held(t, u, on)' <=> Held(t, u, on)
      /\ \A u : Exact(t, u)' <=> Exact(t, u)
      /\ \A u : Shut(u)' <=> Shut(u)
      /\ \A u : u \in units'.active <=> u \in units.active
      /\ \A u : u \in units'.masked <=> u \in units.masked
      /\ \A u : StateOf(u)' = StateOf(u)
  BY <1>1 DEF Held, Exact, Shut, StateOf
<1>4. Known' <=> Known BY <1>1 DEF Known, Observed, StateOf
<1>5. /\ Openable(t)' <=> Openable(t)
      /\ Pulled(t)' = Pulled(t) /\ (Releasable(t)' <=> Releasable(t))
  BY <1>1 DEF Openable, Pulled, Releasable
<1>6. Served(t)' <=> Served(t) BY <1>3 DEF Served
<1>7. \A u : Around(t, u)' <=> Around(t, u) BY <1>3 DEF Around
<1>8. \A u \in Units : Preparing(t, u)' <=> Preparing(t, u)
  BY <1>2, <1>3, <1>4, <1>7 DEF Preparing, AtPrepare, AtDisable, AtPrepared
<1>9. \A u \in Nvidia : Serving(t, u)' <=> Serving(t, u)
  BY <1>2, <1>3, <1>4, <1>7
     DEF Serving, AtProof, AtProofCheck, AtActivity, AtActivityCheck, AtState, AtFinal, Checking
<1>10. Opening(t)' <=> Opening(t)
  BY <1>2, <1>3, <1>4, <1>6 DEF Opening, AtSocket, AtSocketCheck, AtDocker, Waiting, Checking
<1>11. Gated(t)' <=> Gated(t)
  <2>1. \A on : Shown(t, on)' <=> Shown(t, on) BY <1>3, <1>5, <1>6 DEF Shown
  <2> QED BY <1>2, <1>4, <1>5, <2>1
          DEF Gated, AtDockerCheck, AtGate, AtStop, AtStopCheck, AtSettle, AtReset, Checking
<1>12. Settling(t)' <=> Settling(t)
  <2>1. Settled(t)' <=> Settled(t) BY <1>1, <1>3, <1>5, <1>6 DEF Settled
  <2> QED BY <1>2, <1>4, <2>1 DEF Settling, AtResetCheck, AtCompare
<1>13. Closing(t)' <=> Closing(t)
  <2>1. /\ Releasing(t)' <=> Releasing(t)
        /\ AllExact(t)' <=> AllExact(t)
    BY <1>3, <1>5, <1>6 DEF Releasing, AllExact
  <2> QED BY <1>2, <1>3, <1>4, <2>1
          DEF Closing, AtDockerState, AtDockerFinal, AtSocketState, AtSocketFinal, AtJoint,
              AtLastGate, AtAudit, AtConclude
<1> QED BY <1>8, <1>9, <1>10, <1>11, <1>12, <1>13 DEF Place

LEMMA CleanNext ==
  ASSUME Undisturbed, IInv, CleanInv, [Next]_vars PROVE CleanInv'
<1>1. Typed /\ Hidden /\ target \in Targets BY DEF IInv, Typed, Control
<1>2. CleanCommitSucceeds BY DEF CleanInv
<1>3. ASSUME target' = target, requires' = requires
      PROVE  Releasable(target)' <=> Releasable(target)
  BY <1>3 DEF Releasable
<1>4. CASE UNCHANGED vars
  <2>1. /\ target' = target /\ requires' = requires /\ units' = units /\ mode' = mode
        /\ identity' = identity /\ workload' = workload
    BY <1>4 DEF vars, request, control
  <2>2. CleanCommitSucceeds' BY <1>2, <1>3, <2>1 DEF CleanCommitSucceeds
  <2>3. ASSUME mode' = "commit" PROVE Trusting' /\ \E t \in Targets : t = target' /\ Place(t)'
    <3>1. Trusting /\ Place(target) BY <2>1, <2>3 DEF CleanInv
    <3>2. Trusting' BY <2>1, <3>1 DEF Trusting
    <3>3. \A t \in Targets : Place(t) => Place(t)' BY <1>4, PlaceStays
    <3> QED BY <1>1, <2>1, <3>1, <3>2, <3>3
  <2> QED BY <2>2, <2>3 DEF CleanInv
<1>5. CASE Next /\ mode = "commit"
  <2>1. PICK t \in Targets : t = target /\ Place(t) BY <1>5 DEF CleanInv
  <2>2. Trusting BY <1>5 DEF CleanInv
  <2>3. Stand(t) BY <1>1, <1>5, <2>1, <2>2 DEF Stand, Ready
  <2>4. Goes(t) BY <2>1, <2>3, PlaceSteps
  <2>5. CASE Advances(t)
    <3>1. mode' = "commit" /\ target' = target /\ Trusting' /\ Place(t)' BY <2>5 DEF Advances
    <3>2. CleanCommitSucceeds' BY <3>1 DEF CleanCommitSucceeds
    <3> QED BY <2>1, <3>1, <3>2 DEF CleanInv
  <2>6. CASE Refused /\ ~ Releasable(t)
    <3>1. mode' = "quarantine" /\ target' = target /\ requires' = requires BY <2>6 DEF Refused
    <3>2. ~ Releasable(target)' BY <1>3, <2>1, <2>6, <3>1
    <3> QED BY <3>1, <3>2 DEF CleanInv, CleanCommitSucceeds
  <2>7. CASE mode' = "committed" /\ target' = target /\ requires' = requires /\ Releasable(t)
    <3>1. Releasable(target)' BY <1>3, <2>1, <2>7
    <3> QED BY <2>7, <3>1 DEF CleanInv, CleanCommitSucceeds
  <2> QED BY <2>4, <2>5, <2>6, <2>7 DEF Goes
<1>6. CASE Next /\ mode # "commit"
  <2>1. ~ World
    BY DEF World, Undisturbed, ClientConnects, ServiceRestarts, UnitExits, WorkloadChanges,
           PowerLoss
  <2>2. Shape BY <1>1, <1>6, <2>1, ProgramSteps DEF Next, Outcome
  <2>3. Working /\ target' = target /\ requires' = requires BY <2>2 DEF Shape
  <2>4. mode # "committed" BY <2>3 DEF Working
  <2>5. mode' # "committed" BY <1>6, <2>4, Committing
  <2>6. mode' # "commit" BY <1>6, <2>2, Stays
  <2>7. ~ Releasable(target) BY <1>2, <1>6, <2>4 DEF CleanCommitSucceeds
  <2>8. ~ Releasable(target)' BY <1>3, <2>3, <2>7
  <2> QED BY <2>5, <2>6, <2>8 DEF CleanInv, CleanCommitSucceeds
<1> QED BY <1>4, <1>5, <1>6

(* A commit that nothing fails or disturbs succeeds for exactly the releasable *)
(* snapshots (_commit_rollback_service_activity): no step refuses what an      *)
(* earlier one left, whatever enablement the masks hide.                       *)
THEOREM CleanCommit == Undisturbed => (Spec => []CleanCommitSucceeds)
<1> SUFFICES ASSUME Undisturbed PROVE Spec => []CleanCommitSucceeds OBVIOUS
<1>1. Init => CleanInv BY CleanInit
<1>2. IInv /\ CleanInv /\ [Next]_vars => CleanInv' BY CleanNext
<1>3. CleanInv => CleanCommitSucceeds BY DEF CleanInv
<1> QED BY <1>1, <1>2, <1>3, Invariance, PTL DEF Spec
=============================================================================
