-------------------------- MODULE DeploymentPlan_proofs --------------------------
(***************************************************************************)
(* For every profile, whatever people write and edit, and however long the *)
(* plan: a plan of a v2 candidate stands on the audit of that candidate and *)
(* on one build, and an execution that came to its end deployed it.        *)
(***************************************************************************)
EXTENDS DeploymentPlan, TLAPS

\* What every candidate has, whatever people got wrong in it: the libraries of the profile,
\* each implemented by itself, and the dependencies its links and arguments give.
WellWritten(body) ==
    /\ body.libraries = Libraries /\ body.instances \in Seq(Range(Instances))
    /\ \A n \in Range(Libraries) : body.rows[n].target.name = n
    /\ \A n \in Names : body.rows[n].depends_on = LinksOf[n] \cup BindsTo[n]

\* What the audit of a v2 candidate established of its content, which no later edit of the
\* tree can take back.
Audited(c) ==
    /\ c.bound.identity = c.body /\ c.body.status = "complete"
    /\ Range(c.body.instances) = Range(Instances)
    /\ \A n \in Names : /\ c.body.rows[n].reviewed
                        /\ c.body.rows[n].on_chain.status = "observed"
                        /\ c.body.rows[n].target.name = n
                        /\ \A l \in DOMAIN c.body.rows[n].links : reference_stands(c.body, n, l)

InOrder(body) == AfterItsDependencies(body, Ordered(body))

\* The library that deployment i is linked to stands earlier in the plan, at the address linked.
Linked(plan, i) ==
    LET links == plan.rows[i].initcode.creation.links
    IN \A l \in DOMAIN links :
          \E j \in 1 .. (i - 1) : plan.rows[j].name = l /\ links[l] = plan.rows[j].address

\* Deployment i is code of the build that the candidate of the plan names.
Built(plan, i) ==
    LET body == plan.candidate.body
        code == plan.rows[i].initcode.creation
    IN /\ code.source = body.build.source /\ code.foundry = body.build.foundry
       /\ code.name = plan.rows[i].name

Sound(plan) ==
    /\ plan.rows \in Seq(Range(plan.rows))
    /\ IsV2(plan) => /\ Audited(plan.candidate)
                     /\ \A i \in DOMAIN plan.rows : Built(plan, i) /\ Linked(plan, i)

\* Candidates: on disk, and in the materialization under way.
CandidateInv ==
    /\ candidate = [body |-> candidate.body, bound |-> candidate.bound]
    /\ WellWritten(candidate.body)

\* The materialization: what the steps so far have established, and the run it is for still
\* waits where it was read.
MatInv ==
    /\ mat.step \in {"audited", "validated"} =>
          WellWritten(mat.candidate.body)
    /\ mat.step \in {"audited", "validated"} /\ mat.candidate.body.schema = "v2" =>
          Audited(mat.candidate)
    /\ mat.step = "validated" /\ mat.candidate.body.schema = "v2" => InOrder(mat.candidate.body)
    /\ Sound(mat.plan)
    /\ mat.step # "idle" /\ mat.purpose = "start" => exec.step = "starting"
    /\ mat.step # "idle" /\ mat.purpose = "recheck" => exec.step \in {"simulated", "verified"}

\* The run e, over the creations made so far: which deployments have landed, and where its
\* nonce came from.
Addressed(plan, nonce) ==
    \A i \in DOMAIN plan.rows : plan.rows[i].address = create_address(nonce + i - 1)
Landed(created, plan, nonce, i) ==
    nonce + i <= Len(created) /\ CodeOf(created[nonce + i]) = plan.rows[i].runtime

BeforeLoop == {"idle", "starting", "staged", "simulated"}
Running == {"staged", "simulated", "ready", "sending", "sent", "verified", "done"}

Shaped(e) == e = [step |-> e.step, call |-> e.call, plan |-> e.plan, script |-> e.script,
                  rpc |-> e.rpc, nonce |-> e.nonce, count |-> e.count]
ExecOK(e, created) ==
    /\ Shaped(e) /\ e.nonce \in Nat /\ e.count \in Nat /\ Sound(e.plan)
    /\ e.step \in BeforeLoop => e.count = 0
    /\ e.step \in Running =>
          /\ IsV2(e.plan) => Addressed(e.plan, e.nonce)
          /\ \A i \in 1 .. e.count : Landed(created, e.plan, e.nonce, i)
    /\ e.step = "done" => e.count = Len(e.plan.rows)
ExecInv == ExecOK(exec, chain.created)

ChainInv ==
    /\ chain = [created |-> chain.created, rpc |-> chain.rpc]
    /\ chain.created \in Seq(Range(chain.created))

PInv == CandidateInv /\ MatInv /\ ExecInv /\ ChainInv

-----------------------------------------------------------------------------
(* Sequences.                                                              *)

\* A sequence is one of its own elements.
LEMMA OwnElements ==
    ASSUME NEW S, NEW s \in Seq(S)
    PROVE  s \in Seq(Range(s)) /\ Len(s) \in Nat /\ DOMAIN s = 1 .. Len(s)
<1>1. /\ Len(s) \in Nat /\ DOMAIN s = 1 .. Len(s)
      /\ s = [i \in 1 .. Len(s) |-> s[i]]
  OBVIOUS
<1>2. \A i \in 1 .. Len(s) : s[i] \in Range(s)
  BY <1>1 DEF Range
<1>3. [i \in 1 .. Len(s) |-> s[i]] \in Seq(Range(s))
  BY <1>1, <1>2
<1> QED  BY <1>1, <1>3

\* Appending keeps a sequence's elements where they are.
LEMMA Appended ==
    ASSUME NEW s, s \in Seq(Range(s)), NEW e
    PROVE  /\ Append(s, e) \in Seq(Range(Append(s, e))) /\ Len(Append(s, e)) = Len(s) + 1
           /\ Len(s) \in Nat /\ \A i \in 1 .. Len(s) : Append(s, e)[i] = s[i]
<1> DEFINE S == Range(s) \cup {e}
<1>1. s \in Seq(S) /\ e \in S
  BY DEF Range
<1> HIDE DEF S
<1>2. Append(s, e) \in Seq(S) /\ Len(Append(s, e)) = Len(s) + 1 /\ Len(s) \in Nat
  BY <1>1
<1>3. \A i \in 1 .. Len(s) : Append(s, e)[i] = s[i]
  BY <1>1
<1>4. Append(s, e) \in Seq(Range(Append(s, e)))
  BY <1>2, OwnElements
<1> QED  BY <1>2, <1>3, <1>4

\* The profile: its names, and that its last instance is no library.
LEMMA Profile ==
    /\ Names = Range(Libraries) \cup Range(Instances)
    /\ Len(Instances) \in Nat \ {0} /\ Len(Libraries) \in Nat
    /\ Last(Instances) \notin Range(Libraries)
<1>1. Len(Instances) \in Nat \ {0} /\ Len(Libraries) \in Nat
  BY PlanConstants
<1> DEFINE a == Len(Libraries)
           b == Len(Instances)
<1>2. /\ DOMAIN Deployables = 1 .. (a + b)
      /\ \A i \in 1 .. a : Deployables[i] = Libraries[i]
      /\ \A i \in 1 .. b : Deployables[a + i] = Instances[i]
  BY PlanConstants DEF Deployables
<1>3. \A i \in 1 .. (a + b) : i \in 1 .. a \/ (i - a \in 1 .. b /\ Deployables[i] = Instances[i - a])
  <2> SUFFICES ASSUME NEW i \in 1 .. (a + b), i \notin 1 .. a
               PROVE  i - a \in 1 .. b /\ Deployables[i] = Instances[i - a]
    OBVIOUS
  <2>1. i - a \in 1 .. b /\ a + (i - a) = i
    BY <1>1
  <2> QED  BY <1>2, <2>1
<1>4. DOMAIN Libraries = 1 .. a /\ DOMAIN Instances = 1 .. b
  BY PlanConstants
<1>5. Names \subseteq Range(Libraries) \cup Range(Instances)
  BY <1>2, <1>3, <1>4 DEF Names, Range
<1>6. \A i \in 1 .. a : i \in 1 .. (a + b)
  BY <1>1
<1>7. \A i \in 1 .. b : a + i \in 1 .. (a + b)
  BY <1>1
<1>8. Range(Libraries) \cup Range(Instances) \subseteq Names
  BY <1>2, <1>4, <1>6, <1>7 DEF Names, Range
<1>9. Last(Instances) \notin Range(Libraries)
  <2> SUFFICES ASSUME NEW j \in 1 .. a, Libraries[j] = Last(Instances)
               PROVE  FALSE
    BY <1>4 DEF Range
  <2>1. Deployables[a + b] = Deployables[j] /\ b \in 1 .. b
    BY <1>1, <1>2 DEF Last
  <2>2. a + b = j
    BY <1>1, <1>2, <1>6, <1>7, <2>1, PlanConstants DEF IsInjective
  <2> QED  BY <1>1, <2>2
<1> QED  BY <1>1, <1>5, <1>8, <1>9

-----------------------------------------------------------------------------
(* Candidates.                                                             *)

\* Whatever draft a candidate is written from, it is well written.
LEMMA BodiesAreWellWritten ==
    ASSUME NEW d, NEW b
    PROVE  WellWritten(Body(d, b))
<1> DEFINE body == Body(d, b)
<1>1. body.libraries = Libraries
  BY DEF Body
<1>2. \A n \in Names : body.rows[n] = Row(d, b, n)
  BY DEF Body
<1>3. ASSUME NEW n \in Names
      PROVE  body.rows[n].depends_on = LinksOf[n] \cup BindsTo[n]
  <2>1. Row(d, b, n).depends_on = LinksOf[n] \cup BindsTo[n]
    BY DEF Row
  <2> QED  BY <1>2, <2>1
<1>4. ASSUME NEW n \in Range(Libraries)
      PROVE  body.rows[n].target.name = n
  <2>1. n \in Names /\ n # Last(Instances)
    BY Profile
  <2>2. Row(d, b, n).target = Artifact(n, b)
    BY <2>1 DEF Row
  <2> QED  BY <1>2, <2>1, <2>2 DEF Artifact
<1>5. body.instances \in Seq(Range(Instances))
  <2>1. Instances \in Seq(Range(Instances)) /\ Len(Instances) \in Nat \ {0}
    BY PlanConstants, Profile
  <2>2. Front(Instances) \in Seq(Range(Instances))
    BY <2>1 DEF Front
  <2>3. Reverse(Instances) \in Seq(Range(Instances))
    <3>1. \A i \in 1 .. Len(Instances) : Len(Instances) - i + 1 \in 1 .. Len(Instances)
      BY <2>1
    <3>2. \A i \in 1 .. Len(Instances) : Instances[Len(Instances) - i + 1] \in Range(Instances)
      BY <2>1, <3>1
    <3> QED  BY <2>1, <3>2 DEF Reverse
  <2>4. body.instances \in {Front(Instances), Reverse(Instances), Instances}
    BY DEF Body
  <2> QED  BY <2>1, <2>2, <2>3, <2>4
<1> QED  BY <1>1, <1>3, <1>4, <1>5 DEF WellWritten

\* What is deployed of a well-written candidate: names of the profile, in a sequence.
LEMMA OrderedNames ==
    ASSUME NEW body, WellWritten(body)
    PROVE  /\ Ordered(body) \in Seq(Names) /\ Len(Ordered(body)) \in Nat
           /\ DOMAIN Ordered(body) = 1 .. Len(Ordered(body))
           /\ \A i \in DOMAIN Ordered(body) : Ordered(body)[i] \in Names
<1>1. Libraries \in Seq(Names) /\ body.instances \in Seq(Names)
  BY PlanConstants, Profile DEF WellWritten
<1> QED  BY <1>1 DEF Ordered, WellWritten

\* The audit: a complete candidate is audited for every name of the profile.
LEMMA AuditEstablishes ==
    ASSUME NEW c, WellWritten(c.body), require_complete_candidate(c)
    PROVE  Audited(c)
<1> USE DEF require_complete_candidate
<1>1. c.bound.identity = c.body /\ c.body.status = "complete"
  BY DEF audit_candidate, validate_retained_evidence, top_level_unblocked, candidate_identity
<1>2. Range(c.body.instances) = Range(Instances)
  BY DEF instances_unblocked
<1>3. \A n \in Range(Instances) : /\ c.body.rows[n].reviewed
                                 /\ c.body.rows[n].on_chain.status = "observed"
                                 /\ c.body.rows[n].target.name = n
  BY <1>2 DEF instances_unblocked, implementation_unblocked
<1>4. \A n \in Range(Libraries) : /\ c.body.rows[n].reviewed
                                 /\ c.body.rows[n].on_chain.status = "observed"
                                 /\ c.body.rows[n].target.name = n
  BY DEF libraries_unblocked, WellWritten
<1>5. Names \subseteq Range(Ordered(c.body))
  <2> DEFINE a == Len(Libraries)
             b == Len(c.body.instances)
  <2>1. /\ Libraries \in Seq(Range(Libraries)) /\ c.body.instances \in Seq(Range(Instances))
        /\ Ordered(c.body) = Libraries \o c.body.instances
    BY PlanConstants DEF WellWritten, Ordered
  <2>2. /\ a \in Nat /\ b \in Nat /\ DOMAIN Ordered(c.body) = 1 .. (a + b)
        /\ DOMAIN Libraries = 1 .. a /\ DOMAIN c.body.instances = 1 .. b
        /\ \A i \in 1 .. a : Ordered(c.body)[i] = Libraries[i]
        /\ \A i \in 1 .. b : Ordered(c.body)[a + i] = c.body.instances[i]
    BY <2>1
  <2>3. \A i \in 1 .. a : i \in 1 .. (a + b)
    BY <2>2
  <2>4. \A i \in 1 .. b : a + i \in 1 .. (a + b)
    BY <2>2
  <2>5. Range(Libraries) \subseteq Range(Ordered(c.body))
    BY <2>2, <2>3 DEF Range
  <2>6. Range(c.body.instances) \subseteq Range(Ordered(c.body))
    BY <2>2, <2>4 DEF Range
  <2> QED  BY <1>2, <2>5, <2>6, Profile
<1>6. \A n \in Names : \A l \in DOMAIN c.body.rows[n].links : reference_stands(c.body, n, l)
  BY <1>5 DEF libraries_unblocked
<1> QED  BY <1>1, <1>2, <1>3, <1>4, <1>6, Profile DEF Audited

\* One build: what is made of an audited candidate in order is sound.
LEMMA MadeIsSound ==
    ASSUME NEW c, WellWritten(c.body),
           c.body.schema = "v2" => Audited(c) /\ InOrder(c.body),
           validate_receipt_binding(c),
           \A n \in Range(Ordered(c.body)) : instance_materializes(c.body, n)
    PROVE  Sound(materialize_deployment_plan(c))
<1> DEFINE plan == materialize_deployment_plan(c)
           names == Ordered(c.body)
<1>1. /\ plan.candidate = c
      /\ plan.rows = [i \in DOMAIN names |-> materialize_instance(c.body, names[i])]
  BY DEF materialize_deployment_plan
<1>2. DOMAIN names = 1 .. Len(names) /\ Len(names) \in Nat /\ \A i \in DOMAIN names : names[i] \in Names
  BY OrderedNames
<1>3. plan.rows \in Seq(Range(plan.rows))
  BY <1>1, <1>2 DEF Range
<1>4. ASSUME c.body.schema = "v2", NEW i \in DOMAIN names
      PROVE  LET n == names[i]
                 links == plan.rows[i].initcode.creation.links
             IN  /\ plan.rows[i].name = n /\ plan.rows[i].address = c.body.rows[n].address
                 /\ plan.rows[i].initcode.creation
                      = materialize_bytecode(Artifact(n, c.body.build), c.body.rows[n].links)
                 /\ DOMAIN links = LinksOf[n] /\ links = c.body.rows[n].links
  <2> DEFINE n == names[i]
  <2>1. n \in Names /\ n \in Range(names)
    BY <1>2 DEF Range
  <2>2. c.body.rows[n].target.name = n
    BY <1>4, <2>1 DEF Audited
  <2>3. output.artifacts[n] = Artifact(n, c.body.build)
    BY <2>1 DEF validate_receipt_binding, validate_release_output
  <2>4. DOMAIN c.body.rows[n].links = LinksOf[n]
    BY <2>1, <2>2 DEF instance_materializes, link_references
  <2> HIDE DEF plan
  <2>5. plan.rows[i] = materialize_instance(c.body, n)
    BY <1>1
  <2>6. /\ plan.rows[i].name = n /\ plan.rows[i].address = c.body.rows[n].address
        /\ plan.rows[i].initcode.creation
             = materialize_bytecode(Artifact(n, c.body.build), c.body.rows[n].links)
    BY <1>4, <2>2, <2>3, <2>5 DEF materialize_instance, Initcode
  <2>7. plan.rows[i].initcode.creation.links = c.body.rows[n].links
    BY <2>6 DEF materialize_bytecode
  <2> QED  BY <2>4, <2>6, <2>7
<1> HIDE DEF plan
<1>5. ASSUME c.body.schema = "v2", NEW i \in DOMAIN plan.rows
      PROVE  Built(plan, i)
  <2> DEFINE n == names[i]
             code == plan.rows[i].initcode.creation
  <2>1. /\ plan.rows[i].name = n
        /\ code = materialize_bytecode(Artifact(n, c.body.build), c.body.rows[n].links)
    BY <1>1, <1>4, <1>5
  <2>2. /\ code.source = c.body.build.source /\ code.foundry = c.body.build.foundry
        /\ code.name = n
    BY <2>1 DEF materialize_bytecode, Artifact
  <2> QED  BY <1>1, <2>1, <2>2 DEF Built
<1>6. ASSUME c.body.schema = "v2", NEW i \in DOMAIN plan.rows
      PROVE  Linked(plan, i)
  <2> DEFINE n == names[i]
             links == plan.rows[i].initcode.creation.links
  <2>1. i \in DOMAIN names /\ n \in Names
    BY <1>1, <1>2
  <2> SUFFICES ASSUME NEW l \in DOMAIN links
               PROVE  \E j \in 1 .. (i - 1) : plan.rows[j].name = l /\ links[l] = plan.rows[j].address
    BY DEF Linked
  <2>2. l \in LinksOf[n] /\ links[l] = c.body.rows[n].links[l] /\ l \in DOMAIN c.body.rows[n].links
    BY <1>4, <1>6, <2>1
  <2>3. l \in Range(c.body.libraries) /\ links[l] = c.body.rows[l].address
    BY <1>6, <2>1, <2>2 DEF Audited, reference_stands
  <2>4. l \in Range(names)
    <3>1. /\ Libraries \in Seq(Range(Libraries)) /\ c.body.instances \in Seq(Range(Instances))
          /\ names = Libraries \o c.body.instances /\ c.body.libraries = Libraries
      BY PlanConstants DEF WellWritten, Ordered
    <3>2. \A k \in DOMAIN Libraries : k \in DOMAIN names /\ names[k] = Libraries[k]
      BY <3>1
    <3> QED  BY <2>3, <3>1, <3>2 DEF Range
  <2>5. l \in c.body.rows[n].depends_on
    BY <2>1, <2>2 DEF WellWritten
  <2>6. l \in Range(SubSeq(names, 1, i - 1))
    BY <1>6, <2>1, <2>4, <2>5 DEF InOrder, AfterItsDependencies
  <2>7. PICK j \in 1 .. (i - 1) : names[j] = l
    <3>1. i - 1 \in 0 .. Len(names) /\ names \in Seq(Names)
      BY <1>2, <2>1, OrderedNames
    <3>2. /\ DOMAIN SubSeq(names, 1, i - 1) = 1 .. (i - 1)
          /\ \A k \in 1 .. (i - 1) : SubSeq(names, 1, i - 1)[k] = names[k]
      BY <3>1
    <3> QED  BY <2>6, <3>2 DEF Range
  <2>8. j \in DOMAIN names
    BY <1>2, <2>1, <2>7
  <2> QED  BY <1>4, <1>6, <2>3, <2>7, <2>8
<1>7. Sound(plan)
  BY <1>1, <1>3, <1>5, <1>6 DEF Sound, IsV2
<1> QED  BY <1>7 DEF plan

-----------------------------------------------------------------------------
(* Steps.                                                                  *)

\* The invariant holds before anything is read.
LEMMA PlanInit == Init => PInv
<1> SUFFICES ASSUME Init
             PROVE  PInv
  OBVIOUS
<1>1. CandidateInv
  BY BodiesAreWellWritten DEF Init, CandidateInv
<1>2. Sound(NoPlan)
  BY DEF Sound, NoPlan, NoCandidate, IsV2, Range
<1>3. MatInv
  BY <1>2 DEF Init, MatInv, Idle
<1>4. ExecInv
  BY <1>2 DEF Init, ExecInv, ExecOK, Shaped, BeforeLoop, Running
<1>5. ChainInv
  BY DEF Init, ChainInv, Range
<1> QED  BY <1>1, <1>3, <1>4, <1>5 DEF PInv

\* What the chain holds stays where it is, so what landed stays landed.
LEMMA LandedStays ==
    ASSUME NEW s, s \in Seq(Range(s)), NEW t, NEW e, t = Append(s, e) \/ t = s,
           NEW plan, NEW n \in Nat, NEW i \in Nat \ {0}, Landed(s, plan, n, i)
    PROVE  Landed(t, plan, n, i)
<1>1. CASE t = s
  BY <1>1
<1>2. CASE t = Append(s, e)
  <2>1. Len(s) \in Nat /\ n + i \in 1 .. Len(s)
    BY Appended DEF Landed
  <2>2. Len(t) = Len(s) + 1 /\ t[n + i] = s[n + i]
    BY <1>2, <2>1, Appended
  <2>3. n + i <= Len(t)
    BY <2>1, <2>2
  <2> QED  BY <2>2, <2>3 DEF Landed
<1> QED  BY <1>1, <1>2

\* A run stays what it was while creations are added, when its new step asks no more of it.
LEMMA RunStays ==
    ASSUME NEW s, s \in Seq(Range(s)), NEW t, NEW a, t = Append(s, a) \/ t = s,
           NEW e, ExecOK(e, s), NEW step,
           step \in BeforeLoop => e.step \in BeforeLoop,
           step \in Running => e.step \in Running,
           step = "done" => e.count = Len(e.plan.rows)
    PROVE  ExecOK([e EXCEPT !.step = step], t)
<1> DEFINE f == [e EXCEPT !.step = step]
<1>1. f = [step |-> step, call |-> e.call, plan |-> e.plan, script |-> e.script,
           rpc |-> e.rpc, nonce |-> e.nonce, count |-> e.count]
  BY DEF ExecOK, Shaped
<1> HIDE DEF f
<1>2. /\ f.plan = e.plan /\ f.nonce = e.nonce /\ f.count = e.count /\ f.step = step /\ Shaped(f)
  BY <1>1 DEF Shaped
<1>3. ASSUME step \in Running, NEW i \in 1 .. e.count
      PROVE  Landed(t, e.plan, e.nonce, i)
  <2>1. e.nonce \in Nat /\ i \in Nat \ {0} /\ Landed(s, e.plan, e.nonce, i)
    BY <1>3 DEF ExecOK
  <2> QED  BY <2>1, LandedStays
<1>4. ExecOK(f, t)
  BY <1>2, <1>3 DEF ExecOK
<1> QED  BY <1>4 DEF f

\* The same of the run of the state.
LEMMA ExecKept ==
    ASSUME ExecInv, ChainInv,
           \E a : chain'.created = Append(chain.created, a) \/ chain'.created = chain.created,
           exec' = [exec EXCEPT !.step = exec'.step],
           exec'.step \in BeforeLoop => exec.step \in BeforeLoop,
           exec'.step \in Running => exec.step \in Running,
           exec'.step = "done" => exec.count = Len(exec.plan.rows)
    PROVE  ExecInv'
<1>1. PICK a : chain'.created = Append(chain.created, a) \/ chain'.created = chain.created
  OBVIOUS
<1>2. ExecOK([exec EXCEPT !.step = exec'.step], chain'.created)
  BY <1>1, RunStays DEF ExecInv, ChainInv
<1> QED  BY <1>2 DEF ExecInv

\* A run that does nothing, while others may send from its account.
LEMMA ExecWaits ==
    ASSUME ExecInv, ChainInv, UNCHANGED exec,
           \E a : chain'.created = Append(chain.created, a) \/ chain'.created = chain.created
    PROVE  ExecInv'
<1>1. exec' = [exec EXCEPT !.step = exec'.step]
  BY DEF ExecInv, ExecOK, Shaped
<1>2. exec.step = "done" => exec.count = Len(exec.plan.rows)
  BY DEF ExecInv, ExecOK
<1> QED  BY <1>1, <1>2, ExecKept

\* A run that takes a step and sends nothing.
LEMMA ExecSteps ==
    ASSUME ExecInv, ChainInv, UNCHANGED chain, NEW step, exec' = [exec EXCEPT !.step = step],
           step \in BeforeLoop => exec.step \in BeforeLoop,
           step \in Running => exec.step \in Running,
           step = "done" => exec.count = Len(exec.plan.rows)
    PROVE  ExecInv'
<1>1. exec'.step = step
  BY DEF ExecInv, ExecOK, Shaped
<1>2. \E a : chain'.created = Append(chain.created, a) \/ chain'.created = chain.created
  OBVIOUS
<1> QED  BY <1>1, <1>2, ExecKept

\* A run that fails.
LEMMA ExecFails ==
    ASSUME ExecInv, ChainInv, UNCHANGED chain, exec' = [exec EXCEPT !.step = "failed"]
    PROVE  ExecInv'
BY ExecSteps DEF BeforeLoop, Running

\* A materialization goes on, or refuses: neither touches candidates or the chain.
LEMMA StepKept ==
    ASSUME PInv, NEW step, NEW purpose, NEW c, NEW plan,
           UNCHANGED <<candidate, chain>>, Go(step, purpose, c, plan),
           step \in {"audited", "validated", "made"}, Sound(plan),
           step \in {"audited", "validated"} => WellWritten(c.body),
           step \in {"audited", "validated"} /\ c.body.schema = "v2" => Audited(c),
           step = "validated" /\ c.body.schema = "v2" => InOrder(c.body),
           purpose = "start" => exec.step = "starting",
           purpose = "recheck" => exec.step \in {"simulated", "verified"}
    PROVE  PInv'
<1>1. /\ mat' = [step |-> step, purpose |-> purpose, candidate |-> c, plan |-> plan]
      /\ exec' = exec
  BY DEF Go
<1>2. ExecInv'
  BY <1>1, ExecWaits DEF PInv
<1>3. MatInv'
  BY <1>1 DEF MatInv
<1> QED  BY <1>2, <1>3 DEF PInv, CandidateInv, ChainInv

\* A refusal.
LEMMA RefuseKept ==
    ASSUME PInv, NEW purpose, UNCHANGED <<candidate, chain>>, Refuse(purpose)
    PROVE  PInv'
<1>1. Sound(NoPlan)
  BY DEF Sound, NoPlan, NoCandidate, IsV2, Range
<1>2. MatInv'
  BY <1>1 DEF Refuse, MatInv, Idle
<1>3. ExecInv'
  BY ExecWaits, ExecFails DEF Refuse, PInv
<1> QED  BY <1>2, <1>3 DEF PInv, CandidateInv, ChainInv

\* The materializer: the first reading, the second snapshot, the build and the plan file.
LEMMA MaterializeKept ==
    ASSUME PInv,
           \/ \E purpose \in {"write", "start", "recheck"} : ReadCandidate(purpose)
           \/ validate_complete_v2_candidate \/ BindBuild \/ write_output
    PROVE  PInv'
<1>0. Sound(NoPlan)
  BY DEF Sound, NoPlan, NoCandidate, IsV2, Range
<1>1. ASSUME NEW purpose \in {"write", "start", "recheck"}, ReadCandidate(purpose)
      PROVE  PInv'
  <2>1. UNCHANGED <<candidate, chain>>
    BY <1>1 DEF ReadCandidate, files
  <2>2. CASE Refuse(purpose)
    BY <2>1, <2>2, RefuseKept
  <2>3. WellWritten(candidate.body)
    BY DEF PInv, CandidateInv
  <2>4. /\ purpose = "start" => exec.step = "starting"
        /\ purpose = "recheck" => exec.step \in {"simulated", "verified"}
    BY <1>1 DEF ReadCandidate, Due
  <2>5. CASE /\ candidate.body.schema = "v2" /\ require_complete_candidate(candidate)
             /\ Go("audited", purpose, candidate, NoPlan)
    <3>1. Audited(candidate)
      BY <2>3, <2>5, AuditEstablishes
    <3> QED  BY <1>0, <2>1, <2>3, <2>4, <2>5, <3>1, StepKept
  <2>6. CASE candidate.body.schema # "v2" /\ Go("validated", purpose, candidate, NoPlan)
    BY <1>0, <2>1, <2>3, <2>4, <2>6, StepKept
  <2> QED  BY <1>1, <2>2, <2>5, <2>6 DEF ReadCandidate
<1>2. CASE validate_complete_v2_candidate
  <2>1. UNCHANGED <<candidate, chain>> /\ mat.step = "audited"
    BY <1>2 DEF validate_complete_v2_candidate, files
  <2>2. CASE Refuse(mat.purpose)
    BY <2>1, <2>2, RefuseKept
  <2>3. CASE /\ candidate = mat.candidate /\ Go("validated", mat.purpose, candidate, NoPlan)
             /\ AfterItsDependencies(candidate.body, Ordered(candidate.body))
    <3>1. /\ WellWritten(candidate.body)
          /\ candidate.body.schema = "v2" => Audited(candidate)
          /\ InOrder(candidate.body)
          /\ mat.purpose = "start" => exec.step = "starting"
          /\ mat.purpose = "recheck" => exec.step \in {"simulated", "verified"}
      BY <2>1, <2>3 DEF PInv, MatInv, InOrder
    <3>2. Go("validated", mat.purpose, candidate, NoPlan)
      BY <2>3
    <3> QED  BY <1>0, <2>1, <3>1, <3>2, StepKept
  <2> QED  BY <1>2, <2>2, <2>3 DEF validate_complete_v2_candidate
<1>3. CASE BindBuild
  <2>1. UNCHANGED <<candidate, chain>> /\ mat.step = "validated"
    BY <1>3 DEF BindBuild, files
  <2>2. CASE Refuse(mat.purpose)
    BY <2>1, <2>2, RefuseKept
  <2>3. CASE /\ validate_receipt_binding(mat.candidate)
             /\ \A n \in Range(Ordered(mat.candidate.body)) : instance_materializes(mat.candidate.body, n)
             /\ Go("made", mat.purpose, mat.candidate, materialize_deployment_plan(mat.candidate))
    <3>1. /\ WellWritten(mat.candidate.body)
          /\ mat.candidate.body.schema = "v2" => Audited(mat.candidate) /\ InOrder(mat.candidate.body)
          /\ mat.purpose = "start" => exec.step = "starting"
          /\ mat.purpose = "recheck" => exec.step \in {"simulated", "verified"}
      BY <2>1 DEF PInv, MatInv
    <3>2. Sound(materialize_deployment_plan(mat.candidate))
      BY <2>3, <3>1, MadeIsSound
    <3> QED  BY <2>1, <2>3, <3>1, <3>2, StepKept
  <2> QED  BY <1>3, <2>2, <2>3 DEF BindBuild
<1>4. CASE write_output
  <2>1. mat' = Idle /\ UNCHANGED <<candidate, exec, chain>>
    BY <1>4 DEF write_output, files
  <2>2. MatInv'
    BY <1>0, <2>1 DEF MatInv, Idle
  <2>3. ExecInv'
    BY <2>1, ExecWaits DEF PInv
  <2> QED  BY <2>1, <2>2, <2>3 DEF PInv, CandidateInv, ChainInv
<1> QED  BY <1>1, <1>2, <1>3, <1>4

\* Starting a run: the plan it works by is the one just made, at the addresses of its nonce.
LEMMA StageKept ==
    ASSUME PInv, Stage
    PROVE  PInv'
<1>1. /\ mat.step = "made" /\ mat.purpose = "start" /\ mat' = Idle /\ UNCHANGED <<candidate, chain>>
      /\ Sound(NoPlan)
  BY DEF Stage, files, Sound, NoPlan, NoCandidate, IsV2, Range
<1>2. exec.step = "starting" /\ exec.count = 0 /\ Sound(mat.plan)
  BY <1>1 DEF PInv, MatInv, ExecInv, ExecOK, BeforeLoop
<1>3. MatInv'
  BY <1>1 DEF MatInv, Idle
<1>4. ExecInv'
  <2>1. CASE exec' = [exec EXCEPT !.step = "failed"]
    BY <1>1, <2>1, ExecFails DEF PInv
  <2>2. CASE /\ IsV2(mat.plan) => require_v2_expected_create_addresses(mat.plan, Nonce)
             /\ exec' = [exec EXCEPT !.step = "staged", !.plan = mat.plan, !.script = tree.script,
                                     !.rpc = chain.rpc, !.nonce = Nonce]
    <3>1. Nonce \in Nat
      BY DEF PInv, ChainInv, Nonce
    <3>2. /\ exec'.step = "staged" /\ exec'.plan = mat.plan /\ exec'.nonce = Nonce /\ exec'.count = 0
          /\ Shaped(exec')
      BY <1>2, <2>2 DEF PInv, ExecInv, ExecOK, Shaped
    <3>3. IsV2(mat.plan) => Addressed(mat.plan, Nonce)
      BY <2>2 DEF Addressed, require_v2_expected_create_addresses
    <3> QED  BY <1>2, <3>1, <3>2, <3>3 DEF ExecInv, ExecOK, BeforeLoop
  <2> QED  BY <2>1, <2>2 DEF Stage
<1> QED  BY <1>1, <1>3, <1>4 DEF PInv, CandidateInv, ChainInv

\* The rechecks: a v2 run goes on only from the nonce it was staged for.
LEMMA RecheckKept ==
    ASSUME PInv, assert_authority_unchanged
    PROVE  PInv'
<1>1. /\ mat.step = "made" /\ mat.purpose = "recheck" /\ mat' = Idle /\ UNCHANGED <<candidate, chain>>
      /\ Sound(NoPlan)
  BY DEF assert_authority_unchanged, files, Sound, NoPlan, NoCandidate, IsV2, Range
<1>2. exec.step \in {"simulated", "verified"}
  BY <1>1 DEF PInv, MatInv
<1>3. MatInv'
  BY <1>1 DEF MatInv, Idle
<1>4. ExecInv'
  <2>1. CASE exec' = [exec EXCEPT !.step = "failed"]
    BY <1>1, <2>1, ExecFails DEF PInv
  <2>2. CASE /\ exec.step = "simulated" /\ ~(IsV2(exec.plan) /\ Nonce # exec.nonce)
             /\ exec' = [exec EXCEPT !.step = "ready", !.nonce = Nonce]
    <3>1. Nonce \in Nat
      BY DEF PInv, ChainInv, Nonce
    <3>2. /\ exec'.step = "ready" /\ exec'.plan = exec.plan /\ exec'.nonce = Nonce
          /\ exec'.count = 0 /\ exec.count = 0
          /\ Shaped(exec')
      BY <2>2 DEF PInv, ExecInv, ExecOK, Shaped, BeforeLoop
    <3>3. IsV2(exec.plan) => Addressed(exec.plan, Nonce)
      BY <2>2 DEF PInv, ExecInv, ExecOK, Running
    <3>4. Sound(exec.plan)
      BY DEF PInv, ExecInv, ExecOK, Shaped
    <3> QED  BY <3>1, <3>2, <3>3, <3>4 DEF ExecInv, ExecOK, BeforeLoop
  <2>3. CASE /\ exec.step # "simulated"
             /\ exec' = [exec EXCEPT !.step = IF exec.count = Len(exec.plan.rows) THEN "done"
                                                                                 ELSE "ready"]
    <3> DEFINE step == IF exec.count = Len(exec.plan.rows) THEN "done" ELSE "ready"
    <3>1. /\ step \in Running /\ step \notin BeforeLoop /\ exec.step \in Running
          /\ step = "done" => exec.count = Len(exec.plan.rows)
      BY <1>2, <2>3 DEF BeforeLoop, Running
    <3>2. exec' = [exec EXCEPT !.step = step]
      BY <2>3
    <3> HIDE DEF step
    <3> QED  BY <1>1, <3>1, <3>2, ExecSteps DEF PInv
  <2> QED  BY <2>1, <2>2, <2>3 DEF assert_authority_unchanged
<1> QED  BY <1>1, <1>3, <1>4 DEF PInv, CandidateInv, ChainInv

\* A deployment that was verified has landed.
LEMMA VerifyKept ==
    ASSUME PInv, Verify
    PROVE  PInv'
<1>1. exec.step = "sent" /\ UNCHANGED <<candidate, mat, chain>>
  BY DEF Verify, files
<1>2. MatInv'
  BY <1>1 DEF PInv, MatInv
<1>3. ExecInv'
  <2>1. CASE exec' = [exec EXCEPT !.step = "failed"]
    BY <1>1, <2>1, ExecFails DEF PInv
  <2>2. CASE /\ Deployed(exec.plan.rows[exec.count + 1], exec.nonce + exec.count)
             /\ exec' = [exec EXCEPT !.step = "verified", !.count = exec.count + 1]
    <3>1. /\ exec'.step = "verified" /\ exec'.plan = exec.plan /\ exec'.nonce = exec.nonce
          /\ exec'.count = exec.count + 1
          /\ Shaped(exec')
      BY <2>2 DEF PInv, ExecInv, ExecOK, Shaped
    <3>2. exec.nonce \in Nat /\ exec.count \in Nat /\ Nonce \in Nat
      BY DEF PInv, ExecInv, ExecOK, ChainInv, Nonce
    <3>3. Landed(chain.created, exec.plan, exec.nonce, exec.count + 1)
      <4>1. /\ exec.nonce + exec.count < Nonce
            /\ CodeOf(chain.created[exec.nonce + exec.count + 1]) = exec.plan.rows[exec.count + 1].runtime
        BY <2>2 DEF Deployed
      <4>2. exec.nonce + (exec.count + 1) = exec.nonce + exec.count + 1
        BY <3>2
      <4>3. exec.nonce + (exec.count + 1) <= Nonce
        BY <3>2, <4>1
      <4> QED  BY <4>1, <4>2, <4>3 DEF Landed, Nonce
    <3>4. \A i \in 1 .. exec.count : Landed(chain.created, exec.plan, exec.nonce, i)
      BY <1>1 DEF PInv, ExecInv, ExecOK, Running
    <3>5. \A i \in 1 .. (exec.count + 1) : i \in 1 .. exec.count \/ i = exec.count + 1
      BY <3>2
    <3>6. \A i \in 1 .. exec'.count : Landed(chain'.created, exec'.plan, exec'.nonce, i)
      BY <1>1, <3>1, <3>3, <3>4, <3>5
    <3>7. Sound(exec.plan) /\ (IsV2(exec.plan) => Addressed(exec.plan, exec.nonce))
      BY <1>1 DEF PInv, ExecInv, ExecOK, Running
    <3> QED  BY <3>1, <3>2, <3>6, <3>7 DEF ExecInv, ExecOK, BeforeLoop
  <2> QED  BY <2>1, <2>2 DEF Verify
<1> QED  BY <1>1, <1>2, <1>3 DEF PInv, CandidateInv, ChainInv

\* The other steps of a run: none touches a candidate or a materialization, and none can come
\* while the run waits for one.
LEMMA RunKept ==
    ASSUME PInv, (\E call \in Calls : Main(call)) \/ Simulate \/ PrepareNext \/ RunForge
    PROVE  PInv'
<1>1. UNCHANGED <<candidate, mat>> /\ exec.step \in {"idle", "staged", "ready", "sending"}
  BY DEF Main, Simulate, PrepareNext, RunForge, files
<1>2. MatInv'
  BY <1>1 DEF PInv, MatInv
<1>3. CASE \E call \in Calls : Main(call)
  <2>1. PICK call \in Calls : exec' = [exec EXCEPT !.step = "starting", !.call = call]
    BY <1>3 DEF Main
  <2>2. /\ exec'.step = "starting" /\ exec'.plan = exec.plan /\ exec'.nonce = exec.nonce
        /\ exec'.count = exec.count /\ exec.count = 0
        /\ Shaped(exec')
    BY <1>3, <2>1 DEF Main, PInv, ExecInv, ExecOK, Shaped, BeforeLoop
  <2>3. ExecInv'
    BY <1>3, <2>2 DEF Main, PInv, ExecInv, ExecOK, Running, BeforeLoop
  <2> QED  BY <1>1, <1>2, <1>3, <2>3 DEF Main, PInv, CandidateInv, ChainInv
<1>4. CASE Simulate \/ PrepareNext
  <2>1. UNCHANGED chain
    BY <1>4 DEF Simulate, PrepareNext
  <2>2. ASSUME NEW step \in {"simulated", "sending", "failed"}, exec' = [exec EXCEPT !.step = step],
               step = "simulated" => exec.step = "staged", step = "sending" => exec.step = "ready"
        PROVE  ExecInv'
    BY <2>1, <2>2, ExecSteps DEF PInv, BeforeLoop, Running
  <2>3. ExecInv'
    <3>1. CASE exec' = [exec EXCEPT !.step = "failed"]
      BY <2>2, <3>1
    <3>2. CASE exec.step = "staged" /\ exec' = [exec EXCEPT !.step = "simulated"]
      BY <2>2, <3>2
    <3>3. CASE exec.step = "ready" /\ exec' = [exec EXCEPT !.step = "sending"]
      BY <2>2, <3>3
    <3> QED  BY <1>4, <3>1, <3>2, <3>3 DEF Simulate, PrepareNext
  <2> QED  BY <1>1, <1>2, <2>1, <2>3 DEF PInv, CandidateInv, ChainInv
<1>5. CASE RunForge
  <2>1. CASE UNCHANGED chain /\ exec' = [exec EXCEPT !.step = "failed"]
    <3>1. ExecInv'
      BY <2>1, ExecFails DEF PInv
    <3> QED  BY <1>1, <1>2, <2>1, <3>1 DEF PInv, CandidateInv, ChainInv
  <2>2. ASSUME NEW e, chain' = [chain EXCEPT !.created = Append(chain.created, e)],
               exec' = [exec EXCEPT !.step = "sent"]
        PROVE  PInv'
    <3>1. /\ chain'.created = Append(chain.created, e)
          /\ chain' = [created |-> chain'.created, rpc |-> chain'.rpc]
      BY <2>2 DEF PInv, ChainInv
    <3>2. ExecInv'
      <4>1. exec'.step = "sent" /\ exec.step = "sending" /\ exec' = [exec EXCEPT !.step = exec'.step]
        BY <1>5, <2>2 DEF RunForge, PInv, ExecInv, ExecOK, Shaped
      <4>2. \E a : chain'.created = Append(chain.created, a) \/ chain'.created = chain.created
        BY <3>1
      <4> QED  BY <4>1, <4>2, ExecKept DEF PInv, BeforeLoop, Running
    <3>3. ChainInv'
      BY <3>1, Appended DEF PInv, ChainInv
    <3> QED  BY <1>1, <1>2, <3>2, <3>3 DEF PInv, CandidateInv
  <2> QED  BY <1>5, <2>1, <2>2 DEF RunForge
<1> QED  BY <1>3, <1>4, <1>5

\* People, files and the network: a candidate is only ever replaced by one well written.
LEMMA PeopleKept ==
    ASSUME PInv, EditFiles \/ EditPlanFile \/ EditStaged \/ ChangeNetwork \/ Rebuild \/ RetainEvidence
    PROVE  PInv'
<1>1. UNCHANGED <<mat, exec>>
  BY DEF EditFiles, EditPlanFile, EditStaged, ChangeNetwork, Rebuild, RetainEvidence
<1>2. MatInv'
  BY <1>1 DEF PInv, MatInv
<1>3. CandidateInv'
  <2>1. CASE candidate' = candidate
    BY <2>1 DEF PInv, CandidateInv
  <2>2. CASE \E d \in Rewrites : candidate' = [body |-> Body(d, output.receipt), bound |-> candidate.bound]
    BY <2>2, BodiesAreWellWritten DEF CandidateInv
  <2>3. CASE RetainEvidence
    BY <2>3 DEF RetainEvidence, PInv, CandidateInv
  <2> QED  BY <2>1, <2>2, <2>3 DEF EditFiles, EditPlanFile, EditStaged, ChangeNetwork, Rebuild,
             EditTree, EditPolicy, DamageOutput, WriteCandidate, EditEvidence, files
<1>4. ChainInv' /\ \E e : \/ chain'.created = chain.created
                          \/ chain'.created = Append(chain.created, e)
  <2>1. CASE chain' = chain
    BY <2>1 DEF PInv, ChainInv
  <2>2. CASE chain' = [chain EXCEPT !.created = Append(chain.created, ForeignCode)]
    BY <2>2, Appended DEF PInv, ChainInv
  <2>3. CASE chain' = [chain EXCEPT !.rpc = 1 - chain.rpc]
    BY <2>3 DEF PInv, ChainInv
  <2> QED  BY <2>1, <2>2, <2>3 DEF EditFiles, EditPlanFile, EditStaged, ChangeNetwork, Rebuild,
             RetainEvidence
<1>5. ExecInv'
  BY <1>1, <1>4, ExecWaits DEF PInv
<1> QED  BY <1>2, <1>3, <1>4, <1>5 DEF PInv

\* Every step keeps the invariant.
LEMMA PlanNext ==
    ASSUME PInv, [Next]_vars
    PROVE  PInv'
<1>1. CASE UNCHANGED vars
  <2>1. UNCHANGED <<candidate, mat, exec, chain>>
    BY <1>1 DEF vars, files
  <2>2. ExecInv'
    BY <2>1, ExecWaits DEF PInv
  <2> QED  BY <2>1, <2>2 DEF PInv, CandidateInv, MatInv, ChainInv
<1>2. CASE Next
  BY <1>2, MaterializeKept, StageKept, RecheckKept, VerifyKept, RunKept, PeopleKept DEF Next
<1> QED  BY <1>1, <1>2

\* The invariant always holds.
LEMMA PlanAlways == Spec => []PInv
<1>1. PInv /\ [Next]_vars => PInv'
  BY PlanNext
<1> QED  BY <1>1, PlanInit, PTL DEF Spec

\* Whatever is edited between the audit, the second snapshot and the build, a plan of a v2
\* candidate was made from one candidate that is complete, reviewed, observed and bound to its
\* evidence, and all of its code comes from the build that candidate names.
THEOREM PlansStand == Spec => []PlansStandOnTheirAuthority
<1>1. PInv => PlansStandOnTheirAuthority
  <2> SUFFICES ASSUME PInv, NEW plan \in {mat.plan, exec.plan}, plan # NoPlan, IsV2(plan)
               PROVE  LET body == plan.candidate.body
                      IN  /\ plan.candidate.bound.identity = body /\ body.status = "complete"
                          /\ \A n \in Names : /\ body.rows[n].reviewed
                                              /\ body.rows[n].on_chain.status = "observed"
                          /\ \A i \in DOMAIN plan.rows :
                                LET code == plan.rows[i].initcode.creation
                                IN  /\ code.source = body.build.source
                                    /\ code.foundry = body.build.foundry
                                    /\ code.name = plan.rows[i].name
    BY DEF PlansStandOnTheirAuthority
  <2>1. Sound(plan)
    BY DEF PInv, MatInv, ExecInv, ExecOK
  <2> QED  BY <2>1 DEF Sound, Audited, Built
<1> QED  BY <1>1, PlanAlways, PTL

\* An execution that came to its end left the planned code at the addresses it retained, and a v2
\* plan's libraries at the addresses its instances were linked to: for every plan, whoever edits
\* the files and whatever else the account sends.
THEOREM ExecutionsDeployThePlan == Spec => []DeployedAsPlanned
<1>1. PInv => DeployedAsPlanned
  <2> SUFFICES ASSUME PInv, exec.step = "done", NEW i \in DOMAIN exec.plan.rows
               PROVE  LET row == exec.plan.rows[i]
                      IN  /\ CodeOf(chain.created[exec.nonce + i]) = row.runtime
                          /\ IsV2(exec.plan) =>
                               /\ row.address = create_address(exec.nonce + i - 1)
                               /\ \A l \in DOMAIN row.initcode.creation.links :
                                    \E j \in 1 .. (i - 1) :
                                       /\ exec.plan.rows[j].name = l
                                       /\ row.initcode.creation.links[l] = exec.nonce + j
    BY DEF DeployedAsPlanned
  <2>1. /\ exec.plan.rows \in Seq(Range(exec.plan.rows)) /\ exec.count = Len(exec.plan.rows)
        /\ exec.nonce \in Nat /\ \A k \in 1 .. exec.count : Landed(chain.created, exec.plan, exec.nonce, k)
        /\ IsV2(exec.plan) => Addressed(exec.plan, exec.nonce) /\ Linked(exec.plan, i)
    BY DEF PInv, ExecInv, ExecOK, Running, Sound
  <2>2. DOMAIN exec.plan.rows = 1 .. exec.count /\ i \in 1 .. exec.count /\ exec.count \in Nat
    BY <2>1
  <2>3. CodeOf(chain.created[exec.nonce + i]) = exec.plan.rows[i].runtime
    BY <2>1, <2>2 DEF Landed
  <2>4. ASSUME IsV2(exec.plan)
        PROVE  exec.plan.rows[i].address = create_address(exec.nonce + i - 1)
    BY <2>1, <2>4 DEF Addressed
  <2>5. ASSUME IsV2(exec.plan), NEW l \in DOMAIN exec.plan.rows[i].initcode.creation.links
        PROVE  \E j \in 1 .. (i - 1) :
                  /\ exec.plan.rows[j].name = l
                  /\ exec.plan.rows[i].initcode.creation.links[l] = exec.nonce + j
    <3>1. PICK j \in 1 .. (i - 1) :
             /\ exec.plan.rows[j].name = l
             /\ exec.plan.rows[i].initcode.creation.links[l] = exec.plan.rows[j].address
      BY <2>1, <2>5 DEF Linked
    <3>2. j \in DOMAIN exec.plan.rows
      BY <2>2
    <3>3. exec.plan.rows[j].address = create_address(exec.nonce + j - 1)
      BY <2>1, <2>5, <3>2 DEF Addressed
    <3>4. create_address(exec.nonce + j - 1) = exec.nonce + j
      BY <2>1, <2>2 DEF create_address
    <3> QED  BY <3>1, <3>3, <3>4
  <2> QED  BY <2>3, <2>4, <2>5
<1> QED  BY <1>1, PlanAlways, PTL
================================================================================
