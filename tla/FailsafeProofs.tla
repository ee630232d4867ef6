--------------------------- MODULE FailsafeProofs ---------------------------
(***************************************************************************)
(* Proofs about Failsafe, for any number of fabric indices.  The invariant *)
(* ties the table of fabrics to the context in charge and to the commands  *)
(* that are awaiting something; each action is shown to keep it.           *)
(***************************************************************************)
EXTENDS Failsafe, FiniteSetTheorems, WellFoundedInduction, TLAPS

\* The table: an unguarded fabric is in it, a committed one survives a crash, and any other
\* one is the context's.
Table ==
  /\ unguarded \subseteq fabrics
  /\ CommittedSurvives
  /\ UncommittedIsGuarded

\* AddNOC commands: one at a time, its index is still free, and it is the one of the context
\* exactly as long as that context exists.
Nocs ==
  /\ \A m, n \in noc : m = n
  /\ \A n \in noc :
       /\ n.index \notin fabrics
       /\ n.current <=> Armed /\ context.index = n.index

\* CommissioningComplete commands: one at a time, its fabric is stored or was added by an
\* AddNOC that nothing guards, and it is the fabric of the context if that reached the table.
Completions ==
  /\ \A c, d \in completion : c = d
  /\ \A c \in completion :
       /\ c.fabric \in fabrics => c.fabric \in unguarded \cup stored.fabrics
       /\ c.current => Armed
       /\ c.current /\ c.stage = "closing" => ~context.failsafe
       /\ c.current /\ context.index \in fabrics =>
            context.index \in unguarded \/ context.index = c.fabric

\* The context: the fabric it would revoke is not committed, and once the fail-safe is off
\* the fabric it has added is accounted for.
Contexts ==
  Armed =>
    /\ context.rollback # "no" => ~context.failsafe
    /\ context.index # NoFabric => ~context.forUpdateNoc
    /\ context.failsafe \/ context.rollback # "no" => context.index \notin committed
    /\ ~context.failsafe /\ context.index \in fabrics => context.index \in unguarded \cup committed
    /\ context.index \in fabrics =>
         /\ context.monitored
         /\ context.associated = context.index \/ context.index \in unguarded

\* CommissionedAgrees, and the same under a context that nobody listens to.
Known ==
  ~Armed \/ ~context.monitored =>
    (~missed /\ ~resetting /\ unguarded = {} => (commissioned <=> fabrics # {}))

\* The inductive invariant.
FailsafeInv ==
  /\ TypeOK
  /\ Table
  /\ Nocs
  /\ Completions
  /\ Contexts
  /\ ContextIsTimed
  /\ Known

-----------------------------------------------------------------------------
(* Helpers *)

LEMMA IndexFacts == MaxFabricIndex \in Nat /\ 1 \in Index /\ NoFabric \notin Index /\ PaseId \notin Index
BY FabricAssumption DEF Index, NoFabric, PaseId

LEMMA AfterIndex ==
  ASSUME NEW i \in Index
  PROVE  After(i) \in Index
BY FabricAssumption DEF Index, After

\* There is an index left as long as there are fewer fabrics than are supported ...
LEMMA FreeExists ==
  ASSUME TypeOK, Cardinality(fabrics) < SupportedFabrics
  PROVE  Index \ fabrics # {}
<1> SUFFICES ASSUME Index \subseteq fabrics
             PROVE  FALSE
  OBVIOUS
<1>1. fabrics = 1 .. MaxFabricIndex
  BY DEF TypeOK, Index
<1>2. Cardinality(1 .. MaxFabricIndex) = MaxFabricIndex
  <2>1. 1 \in Int /\ MaxFabricIndex \in Int /\ ~(1 > MaxFabricIndex)
    BY FabricAssumption
  <2>2. Cardinality(1 .. MaxFabricIndex) = MaxFabricIndex - 1 + 1
    BY <2>1, FS_Interval
  <2>3. QED
    BY <2>1, <2>2
<1>3. QED
  BY <1>1, <1>2, FabricAssumption

\* ... and getNextFabricIndex finds a free one.
LEMMA FreeIndexIsFree ==
  ASSUME TypeOK, Cardinality(fabrics) < SupportedFabrics
  PROVE  FreeIndex \in Index /\ FreeIndex \notin fabrics
<1> DEFINE S == Index \ fabrics
           T == {Tried(i) : i \in S}
           R == OpToRel(<, Nat)
<1>1. \A i \in S : Tried(i) \in Nat
  BY FabricAssumption DEF TypeOK, Tried, Index
<1>2. T \in SUBSET Nat /\ T # {}
  BY <1>1, FreeExists
<1>3. PICK t \in T : \A u \in T : ~(<<u, t>> \in R)
  BY <1>2, NatLessThanWellFounded, WFMin
<1>4. PICK i \in S : t = Tried(i)
  BY <1>3
<1>5. \A j \in S : Tried(i) <= Tried(j)
  <2> SUFFICES ASSUME NEW j \in S
               PROVE  Tried(i) <= Tried(j)
    OBVIOUS
  <2>1. Tried(j) \in T /\ Tried(j) \in Nat /\ Tried(i) \in Nat
    BY <1>1
  <2>2. ~(<<Tried(j), Tried(i)>> \in R)
    BY <1>3, <1>4, <2>1
  <2>3. ~(Tried(j) < Tried(i))
    BY <2>1, <2>2 DEF OpToRel
  <2>4. QED
    BY <2>1, <2>3
<1> HIDE DEF T, R
<1>6. \E k \in S : \A j \in S : Tried(k) <= Tried(j)
  BY <1>5
<1>7. QED
  BY <1>6 DEF FreeIndex

\* The fields of a context.
LEMMA ContextFields ==
  ASSUME TypeOK, Armed
  PROVE  /\ context \in Context
         /\ context.failsafe \in BOOLEAN
         /\ context.timer \in BOOLEAN
         /\ context.associated \in {NoFabric} \cup Index
         /\ context.index \in {NoFabric} \cup Index
         /\ context.rootCert \in BOOLEAN
         /\ context.csr \in {NoId, PaseId} \cup Index
         /\ context.forUpdateNoc \in BOOLEAN
         /\ context.rollback \in {"no", "sessions", "restore"}
         /\ context.found \in BOOLEAN
         /\ context.monitored \in BOOLEAN
<1>1. context \in Context
  BY DEF TypeOK, Armed
<1>2. QED
  BY <1>1 DEF Context

\* A session's fabric.
LEMMA SessionFields ==
  ASSUME TypeOK, NEW s \in Sessions
  PROVE  /\ ~resetting
         /\ s.pase \in BOOLEAN
         /\ s.fabric \in {NoFabric} \cup Index
         /\ ~s.pase => s.fabric \in fabrics
         /\ SessionId(s) \in {NoId, PaseId} \cup Index
BY DEF Sessions, TypeOK, SessionId

\* The context is the same to every part of the invariant.
SameContext ==
  /\ Armed' <=> Armed
  /\ Armed =>
       /\ context'.failsafe = context.failsafe
       /\ context'.timer = context.timer
       /\ context'.associated = context.associated
       /\ context'.index = context.index
       /\ context'.monitored = context.monitored
       /\ context'.rollback = "no" <=> context.rollback = "no"
       /\ context'.forUpdateNoc => context.forUpdateNoc \/ context.index = NoFabric

\* Steps that touch neither the fabrics nor the commands that wait.
LEMMA FrameStep ==
  ASSUME FailsafeInv, TypeOK', SameContext,
         UNCHANGED <<fabrics, noc, completion, committed, unguarded, storageFailed>>,
         stored' = stored \/ stored'.fabrics = fabrics,
         UNCHANGED node \/ (Known')
  PROVE  FailsafeInv'
<1>1. TypeOK /\ Table /\ Nocs /\ Completions /\ Contexts /\ ContextIsTimed /\ Known
  BY DEF FailsafeInv
<1>2. Table'
  BY <1>1 DEF Table, CommittedSurvives, UncommittedIsGuarded, SameContext
<1>3. Nocs'
  BY <1>1 DEF Nocs, SameContext
<1>4. Completions'
  BY <1>1, ContextFields DEF Completions, SameContext
<1>5. Contexts'
  BY <1>1, ContextFields DEF Contexts, SameContext
<1>6. ContextIsTimed'
  BY <1>1, ContextFields DEF ContextIsTimed, SameContext
<1>7. Known'
  BY <1>1, ContextFields DEF Known, SameContext, node
<1>8. QED
  BY <1>2, <1>3, <1>4, <1>5, <1>6, <1>7 DEF FailsafeInv

-----------------------------------------------------------------------------
(* Steps that leave fabrics and awaiting commands alone *)

USE DEF table, node, commissioning, history

\* A context that is changed stays a context.
LEMMA StaysArmed ==
  ASSUME context' \in Context
  PROVE  Armed' /\ context' \in {NoContext} \cup Context
BY ContextAssumption DEF Armed

LEMMA WindowStep ==
  ASSUME FailsafeInv, OpenWindow \/ WindowTimeout \/ PaseOpens
  PROVE  FailsafeInv'
<1>1. TypeOK
  BY DEF FailsafeInv
<1>2. UNCHANGED <<table, context, noc, completion, breadcrumb, history>>
  BY DEF OpenWindow, WindowTimeout, PaseOpens
<1>3. window' \in BOOLEAN /\ responder' \in BOOLEAN
  <2>1. CASE OpenWindow
    BY <2>1, Zenon DEF OpenWindow
  <2>2. CASE WindowTimeout
    BY <2>2, Zenon DEF WindowTimeout, EndCommissioning
  <2>3. CASE PaseOpens
    BY <1>1, <2>3 DEF PaseOpens, TypeOK
  <2>4. QED
    BY <2>1, <2>2, <2>3
<1>4. pase' \subseteq {NoFabric} \cup Index
  BY <1>1 DEF OpenWindow, WindowTimeout, PaseOpens, TypeOK
<1>5. TypeOK'
  BY <1>1, <1>2, <1>3, <1>4 DEF TypeOK
<1>6. SameContext
  BY <1>2 DEF SameContext, Armed
<1>7. QED
  BY <1>2, <1>5, <1>6, FrameStep

LEMMA PaseClosesStep ==
  ASSUME FailsafeInv, PaseCloses
  PROVE  FailsafeInv'
<1>1. TypeOK
  BY DEF FailsafeInv
<1>2. UNCHANGED <<table, noc, completion, commissioning, breadcrumb, history>> /\ pase' = {}
  BY DEF PaseCloses
<1>3. SameContext /\ context' \in {NoContext} \cup Context
  <2>1. CASE Armed /\ context.csr = PaseId
    <3>1. context' = [context EXCEPT !.csr = NoId] /\ context \in Context
      BY <1>1, <2>1, ContextFields DEF PaseCloses
    <3>2. context' \in Context
      BY <3>1 DEF Context
    <3>3. QED
      BY <2>1, <3>1, <3>2, StaysArmed DEF SameContext, Context
  <2>2. CASE ~(Armed /\ context.csr = PaseId)
    <3>1. context' = context
      BY <2>2 DEF PaseCloses
    <3>2. QED
      BY <1>1, <3>1 DEF SameContext, Armed, TypeOK
  <2>3. QED
    BY <2>1, <2>2
<1>4. TypeOK'
  BY <1>1, <1>2, <1>3 DEF TypeOK
<1>5. QED
  BY <1>2, <1>3, <1>4, FrameStep

LEMMA ExtendStep ==
  ASSUME FailsafeInv, NEW s \in Sessions, Extend(s)
  PROVE  FailsafeInv'
<1>1. TypeOK
  BY DEF FailsafeInv
<1>2. UNCHANGED <<table, context, noc, completion, pase, commissioning, history>>
  BY DEF Extend
<1>3. breadcrumb' \in BOOLEAN
  BY Zenon DEF Extend
<1>4. TypeOK' /\ SameContext
  BY <1>1, <1>2, <1>3 DEF TypeOK, SameContext, Armed
<1>5. QED
  BY <1>2, <1>4, FrameStep

LEMMA CsrRequestStep ==
  ASSUME FailsafeInv, NEW s \in Sessions, NEW update \in BOOLEAN, CsrRequest(s, update)
  PROVE  FailsafeInv'
<1>1. TypeOK /\ Armed /\ context.index = NoFabric
  BY DEF FailsafeInv, CsrRequest
<1>2. UNCHANGED <<table, noc, completion, pase, commissioning, breadcrumb, history>>
  BY DEF CsrRequest
<1>3. /\ context' = [context EXCEPT !.csr = SessionId(s), !.forUpdateNoc = update]
      /\ context \in Context /\ SessionId(s) \in {NoId, PaseId} \cup Index
  BY <1>1, ContextFields, SessionFields DEF CsrRequest
<1>4. context' \in Context
  BY <1>3 DEF Context
<1>5. SameContext
  BY <1>1, <1>3, <1>4, StaysArmed DEF SameContext, Context
<1>6. TypeOK'
  BY <1>1, <1>2, <1>4 DEF TypeOK
<1>7. QED
  BY <1>2, <1>5, <1>6, FrameStep

LEMMA AddRootStep ==
  ASSUME FailsafeInv, AddTrustedRootCertificate
  PROVE  FailsafeInv'
<1>1. TypeOK /\ Armed
  BY DEF FailsafeInv, AddTrustedRootCertificate
<1>2. UNCHANGED <<table, noc, completion, pase, commissioning, breadcrumb, history>>
  BY DEF AddTrustedRootCertificate
<1>3. context' = [context EXCEPT !.rootCert = TRUE] /\ context \in Context
  BY <1>1, ContextFields DEF AddTrustedRootCertificate
<1>4. context' \in Context
  BY <1>3 DEF Context
<1>5. SameContext
  BY <1>1, <1>3, <1>4, StaysArmed DEF SameContext, Context
<1>6. TypeOK'
  BY <1>1, <1>2, <1>4 DEF TypeOK
<1>7. QED
  BY <1>2, <1>5, <1>6, FrameStep

LEMMA RollbackSessionsStep ==
  ASSUME FailsafeInv, RollbackSessions
  PROVE  FailsafeInv'
<1>1. TypeOK /\ Armed /\ context.rollback = "sessions"
  BY DEF FailsafeInv, RollbackSessions
<1>2. UNCHANGED <<table, noc, completion, commissioning, breadcrumb, history>> /\ pase' = {}
  BY DEF RollbackSessions
<1> DEFINE id == IF context.csr = PaseId THEN NoId ELSE context.csr
           found == context.index \in fabrics
<1>3. context' = [context EXCEPT !.rollback = "restore", !.csr = id, !.found = found]
  BY DEF RollbackSessions
<1>4. context \in Context /\ id \in {NoId, PaseId} \cup Index /\ found \in BOOLEAN
  BY <1>1, ContextFields
<1> HIDE DEF id, found
<1>5. context' \in Context
  BY <1>3, <1>4 DEF Context
<1>6. SameContext
  BY <1>1, <1>3, <1>4, <1>5, StaysArmed DEF SameContext, Context
<1>7. TypeOK'
  BY <1>1, <1>2, <1>5 DEF TypeOK
<1>8. QED
  BY <1>2, <1>6, <1>7, FrameStep

LEMMA UpdateLabelStep ==
  ASSUME FailsafeInv, UpdateFabricLabel
  PROVE  FailsafeInv'
<1>1. TypeOK /\ Known
  BY DEF FailsafeInv
<1>2. /\ UNCHANGED <<fabrics, nextFabricIndex, context, noc, completion, pase, commissioning, breadcrumb,
                     history>>
      /\ stored' = [fabrics |-> fabrics, next |-> nextFabricIndex]
      /\ \/ UNCHANGED <<commissioned, resetting, missed>>
         \/ ~Armed /\ Notice(fabrics)
  BY DEF UpdateFabricLabel, Persisted
<1>3. commissioned' \in BOOLEAN /\ resetting' \in BOOLEAN /\ missed' \in BOOLEAN
  <2>1. CASE UNCHANGED <<commissioned, resetting, missed>>
    BY <1>1, <2>1 DEF TypeOK
  <2>2. CASE Notice(fabrics)
    BY <2>2, Zenon DEF Notice
  <2>3. QED
    BY <1>2, <2>1, <2>2
<1>4. TypeOK'
  BY <1>1, <1>2, <1>3 DEF TypeOK
<1>5. SameContext /\ Armed' = Armed
  BY <1>2 DEF SameContext, Armed
<1>6. Known'
  BY <1>1, <1>2, <1>3, <1>5 DEF Known, Notice
<1>7. QED
  BY <1>2, <1>4, <1>5, <1>6, FrameStep

-----------------------------------------------------------------------------
(* Arming, and AddNOC up to its await *)

LEMMA Parts ==
  ASSUME FailsafeInv
  PROVE  TypeOK /\ Table /\ Nocs /\ Completions /\ Contexts /\ ContextIsTimed /\ Known
BY DEF FailsafeInv

LEMMA ArmStep ==
  ASSUME FailsafeInv, NEW s \in Sessions, Arm(s)
  PROVE  FailsafeInv'
<1>1. TypeOK /\ Table /\ Nocs /\ Completions /\ Contexts /\ ContextIsTimed /\ Known /\ ~Armed
  BY Parts DEF Arm
<1>2. UNCHANGED <<table, noc, completion, pase, commissioning, committed, unguarded>>
  BY DEF Arm
<1>3. breadcrumb' \in BOOLEAN /\ storageFailed' \in BOOLEAN
  BY Zenon DEF Arm
<1>4. /\ context' = [failsafe |-> TRUE, timer |-> TRUE, associated |-> s.fabric,
                     index |-> NoFabric, rootCert |-> FALSE, csr |-> NoId,
                     forUpdateNoc |-> FALSE, rollback |-> "no", found |-> FALSE,
                     monitored |-> FALSE]
      /\ s.fabric \in {NoFabric} \cup Index
  BY <1>1, SessionFields DEF Arm
<1>5. context' \in Context
  BY <1>4 DEF Context
<1>6. Armed'
  BY <1>5, StaysArmed
<1>7. /\ context'.failsafe /\ context'.timer /\ context'.index = NoFabric
      /\ ~context'.forUpdateNoc /\ context'.rollback = "no" /\ ~context'.monitored
  BY <1>4
<1>8. TypeOK'
  BY <1>1, <1>2, <1>3, <1>5 DEF TypeOK
<1>9. NoFabric \notin fabrics /\ NoFabric \notin committed
  BY <1>1, IndexFacts DEF TypeOK
<1>10. Table'
  BY <1>1, <1>2 DEF Table, CommittedSurvives, UncommittedIsGuarded
<1>11. Nocs'
  <2>1. \A n \in noc : n.index # NoFabric
    BY <1>1, IndexFacts DEF TypeOK
  <2>2. QED
    BY <1>1, <1>2, <1>7, <2>1 DEF Nocs
<1>12. Completions'
  BY <1>1, <1>2, <1>6, <1>7, <1>9 DEF Completions
<1>13. Contexts' /\ ContextIsTimed'
  BY <1>2, <1>7, <1>9 DEF Contexts, ContextIsTimed
<1>14. Known'
  BY <1>1, <1>2 DEF Known
<1>15. QED
  BY <1>8, <1>10, <1>11, <1>12, <1>13, <1>14 DEF FailsafeInv

LEMMA AddNocStep ==
  ASSUME FailsafeInv, NEW s \in Sessions, AddNoc(s)
  PROVE  FailsafeInv'
<1>1. /\ TypeOK /\ Table /\ Nocs /\ Completions /\ Contexts /\ ContextIsTimed /\ Known
      /\ Armed /\ noc = {} /\ context.index = NoFabric /\ ~context.forUpdateNoc
  BY Parts DEF AddNoc
<1> DEFINE i == FreeIndex
<1>2. i \in Index /\ i \notin fabrics
  BY <1>1, FreeIndexIsFree DEF AddNoc
<1>3. /\ UNCHANGED <<fabrics, stored, node, completion, pase, commissioning, breadcrumb, history>>
      /\ context' = [context EXCEPT !.index = i]
      /\ nextFabricIndex' = After(i)
      /\ noc' = {[index |-> i, pase |-> s.pase, current |-> TRUE]}
  BY DEF AddNoc
<1> HIDE DEF i
<1>4. context \in Context /\ s.pase \in BOOLEAN /\ After(i) \in Index
  BY <1>1, <1>2, ContextFields, SessionFields, AfterIndex
<1>5. context' \in Context
  BY <1>2, <1>3, <1>4 DEF Context
<1>6. Armed'
  BY <1>5, StaysArmed
<1>7. /\ context'.index = i
      /\ context'.failsafe = context.failsafe /\ context'.timer = context.timer
      /\ context'.associated = context.associated /\ context'.forUpdateNoc = context.forUpdateNoc
      /\ context'.rollback = context.rollback /\ context'.monitored = context.monitored
  BY <1>2, <1>3, <1>4 DEF Context
<1>8. TypeOK'
  <2>1. [index |-> i, pase |-> s.pase, current |-> TRUE] \in [index : Index, pase : BOOLEAN, current : BOOLEAN]
    BY <1>2, <1>4
  <2>2. noc' \subseteq [index : Index, pase : BOOLEAN, current : BOOLEAN]
    BY <1>3, <2>1
  <2>3. QED
    BY <1>1, <1>3, <1>4, <1>5, <2>2 DEF TypeOK
<1>9. NoFabric \notin fabrics /\ i \notin committed
  BY <1>1, <1>2, IndexFacts DEF TypeOK, Table, CommittedSurvives
<1>10. Table'
  BY <1>1, <1>3, <1>6, <1>9 DEF Table, CommittedSurvives, UncommittedIsGuarded
<1>11. Nocs'
  BY <1>2, <1>3, <1>6, <1>7 DEF Nocs
<1>12. Completions'
  BY <1>1, <1>2, <1>3, <1>6, <1>7 DEF Completions
<1>13. Contexts'
  BY <1>1, <1>2, <1>3, <1>7, <1>9, ContextFields DEF Contexts
<1>14. ContextIsTimed' /\ Known'
  BY <1>1, <1>3, <1>6, <1>7 DEF ContextIsTimed, Known
<1>15. QED
  BY <1>8, <1>10, <1>11, <1>12, <1>13, <1>14 DEF FailsafeInv

-----------------------------------------------------------------------------
(* CommissioningComplete *)

LEMMA CompleteStep ==
  ASSUME FailsafeInv, NEW s \in Sessions, CommissioningComplete(s)
  PROVE  FailsafeInv'
<1>1. /\ TypeOK /\ Table /\ Nocs /\ Completions /\ Contexts /\ ContextIsTimed /\ Known
      /\ Armed /\ completion = {} /\ ~s.pase /\ s.fabric = context.associated /\ context.failsafe
  BY Parts DEF CommissioningComplete, MayComplete
<1> DEFINE d == [fabric |-> s.fabric, current |-> TRUE, closes |-> TRUE, stage |-> "persisting"]
<1>2. /\ UNCHANGED <<fabrics, nextFabricIndex, node, noc, pase, commissioning, breadcrumb, history>>
      /\ context' = [context EXCEPT !.timer = FALSE]
      /\ stored' = [fabrics |-> fabrics, next |-> nextFabricIndex]
      /\ completion' = {d}
  BY DEF CommissioningComplete, Persisted
<1>3. context \in Context /\ s.fabric \in fabrics /\ s.fabric \in Index
  BY <1>1, ContextFields, SessionFields DEF TypeOK
<1>4. context' \in Context
  BY <1>2, <1>3 DEF Context
<1>5. Armed'
  BY <1>4, StaysArmed
<1>6. /\ context'.index = context.index
      /\ context'.failsafe = context.failsafe
      /\ context'.associated = context.associated /\ context'.forUpdateNoc = context.forUpdateNoc
      /\ context'.rollback = context.rollback /\ context'.monitored = context.monitored
  BY <1>2, <1>3 DEF Context
<1>7. /\ d \in [fabric : Index, current : BOOLEAN, closes : BOOLEAN, stage : {"persisting", "closing"}]
      /\ d.fabric = context.associated /\ d.current /\ d.stage = "persisting" /\ d.fabric \in fabrics
  BY <1>1, <1>3
<1> HIDE DEF d
<1>8. TypeOK'
  BY <1>1, <1>2, <1>4, <1>7 DEF TypeOK
<1>9. Table'
  BY <1>1, <1>2, <1>5, <1>6 DEF Table, CommittedSurvives, UncommittedIsGuarded
<1>10. Nocs'
  BY <1>1, <1>2, <1>5, <1>6 DEF Nocs
<1>11. Completions'
  BY <1>1, <1>2, <1>5, <1>6, <1>7 DEF Completions, Contexts
<1>12. Contexts'
  BY <1>1, <1>2, <1>6, ContextFields DEF Contexts
<1>13. ContextIsTimed'
  BY <1>2, <1>7 DEF ContextIsTimed
<1>14. Known'
  BY <1>1, <1>2, <1>5, <1>6 DEF Known
<1>15. QED
  BY <1>8, <1>9, <1>10, <1>11, <1>12, <1>13, <1>14 DEF FailsafeInv

LEMMA CompletionFailsStep ==
  ASSUME FailsafeInv, NEW s \in Sessions, CompletionFails(s)
  PROVE  FailsafeInv'
<1>1. /\ TypeOK /\ Table /\ Nocs /\ Completions /\ Contexts /\ ContextIsTimed /\ Known
      /\ Armed /\ completion = {}
  BY Parts DEF CompletionFails, MayComplete
<1>2. /\ UNCHANGED <<table, noc, completion, pase, commissioning, breadcrumb, committed, unguarded>>
      /\ context' = [context EXCEPT !.timer = FALSE]
      /\ storageFailed'
  BY DEF CompletionFails
<1>3. context \in Context /\ storageFailed' \in BOOLEAN
  <2>1. storageFailed' \in BOOLEAN
    BY Zenon DEF CompletionFails
  <2>2. QED
    BY <1>1, <2>1, ContextFields
<1>4. context' \in Context
  BY <1>2, <1>3 DEF Context
<1>5. Armed'
  BY <1>4, StaysArmed
<1>6. /\ context'.index = context.index
      /\ context'.failsafe = context.failsafe
      /\ context'.associated = context.associated /\ context'.forUpdateNoc = context.forUpdateNoc
      /\ context'.rollback = context.rollback /\ context'.monitored = context.monitored
  BY <1>2, <1>3 DEF Context
<1>7. TypeOK'
  BY <1>1, <1>2, <1>3, <1>4 DEF TypeOK
<1>8. Table'
  BY <1>1, <1>2, <1>5, <1>6 DEF Table, CommittedSurvives, UncommittedIsGuarded
<1>9. Nocs' /\ Completions'
  BY <1>1, <1>2, <1>5, <1>6 DEF Nocs, Completions
<1>10. Contexts'
  BY <1>1, <1>2, <1>6, ContextFields DEF Contexts
<1>11. ContextIsTimed'
  BY <1>2 DEF ContextIsTimed
<1>12. Known'
  BY <1>1, <1>2, <1>5, <1>6 DEF Known
<1>13. QED
  BY <1>7, <1>8, <1>9, <1>10, <1>11, <1>12 DEF FailsafeInv

LEMMA CompleteWithoutNocStep ==
  ASSUME FailsafeInv, NEW s \in Sessions, CompleteWithoutNoc(s)
  PROVE  FailsafeInv'
<1>1. /\ TypeOK /\ Table /\ Nocs /\ Completions /\ Contexts /\ ContextIsTimed /\ Known
      /\ Armed /\ completion = {} /\ ~s.pase /\ context.failsafe /\ context.index = NoFabric
  BY Parts DEF CompleteWithoutNoc, MayComplete
<1> DEFINE d == [fabric |-> s.fabric, current |-> TRUE, closes |-> TRUE, stage |-> "closing"]
<1>2. /\ UNCHANGED <<table, noc, pase, breadcrumb, unguarded, storageFailed>>
      /\ context' = [context EXCEPT !.timer = FALSE, !.failsafe = FALSE]
      /\ completion' = {d}
      /\ committed' = committed \cup {s.fabric}
  BY DEF CompleteWithoutNoc
<1>3. context \in Context /\ s.fabric \in fabrics /\ s.fabric \in Index
  BY <1>1, ContextFields, SessionFields DEF TypeOK
<1>4. context' \in Context
  BY <1>2, <1>3 DEF Context
<1>5. Armed'
  BY <1>4, StaysArmed
<1>6. /\ context'.index = NoFabric /\ ~context'.failsafe
      /\ context'.rollback = context.rollback /\ context'.monitored = context.monitored
  BY <1>1, <1>2, <1>3 DEF Context
<1>7. /\ d \in [fabric : Index, current : BOOLEAN, closes : BOOLEAN, stage : {"persisting", "closing"}]
      /\ d.fabric = s.fabric
  BY <1>3
<1> HIDE DEF d
<1>8. window' \in BOOLEAN /\ responder' \in BOOLEAN
  BY Zenon DEF CompleteWithoutNoc, EndCommissioning
<1>9. TypeOK'
  BY <1>1, <1>2, <1>3, <1>4, <1>7, <1>8 DEF TypeOK
<1>10. NoFabric \notin fabrics
  BY <1>1, IndexFacts DEF TypeOK
<1>11. s.fabric \in committed \cup unguarded
  BY <1>1, <1>3, <1>10 DEF Table, UncommittedIsGuarded
<1>12. Table'
  BY <1>1, <1>2, <1>3, <1>10, <1>11 DEF Table, CommittedSurvives, UncommittedIsGuarded
<1>13. Nocs'
  BY <1>1, <1>2, <1>5, <1>6 DEF Nocs
<1>14. Completions'
  BY <1>1, <1>2, <1>5, <1>6, <1>7, <1>10, <1>11 DEF Completions, Table, CommittedSurvives
<1>15. Contexts'
  <2>1. context.rollback = "no"
    BY <1>1 DEF Contexts
  <2>2. QED
    BY <1>2, <1>6, <1>10, <2>1 DEF Contexts
<1>16. ContextIsTimed' /\ Known'
  BY <1>1, <1>2, <1>5, <1>6 DEF ContextIsTimed, Known
<1>17. QED
  BY <1>9, <1>12, <1>13, <1>14, <1>15, <1>16 DEF FailsafeInv

\* Commands of a context that is gone.
LEMMA OrphanedNocs ==
  ASSUME TypeOK
  PROVE  /\ Orphaned(noc) \subseteq [index : Index, pase : BOOLEAN, current : BOOLEAN]
         /\ \A m \in Orphaned(noc) : ~m.current /\ \E n \in noc : m = [n EXCEPT !.current = FALSE] /\ m.index = n.index
<1>1. ASSUME NEW n \in noc
      PROVE  LET m == [n EXCEPT !.current = FALSE]
             IN  /\ m \in [index : Index, pase : BOOLEAN, current : BOOLEAN]
                 /\ ~m.current /\ m.index = n.index
  BY DEF TypeOK
<1>2. QED
  BY <1>1 DEF Orphaned

LEMMA OrphanedCompletions ==
  ASSUME TypeOK, NEW ds, ds = Orphaned(completion) \/ ds = Rejected(completion)
  PROVE  /\ ds \subseteq
              [fabric : Index, current : BOOLEAN, closes : BOOLEAN, stage : {"persisting", "closing"}]
         /\ \A d \in ds : ~d.current /\ \E c \in completion : d.fabric = c.fabric
         /\ (\A c, d \in completion : c = d) => \A c, d \in ds : c = d
<1> DEFINE Record == [fabric : Index, current : BOOLEAN, closes : BOOLEAN,
                      stage : {"persisting", "closing"}]
<1>1. ASSUME NEW c \in completion
      PROVE  LET d == [c EXCEPT !.current = FALSE]
             IN  d \in Record /\ ~d.current /\ d.fabric = c.fabric
  BY DEF TypeOK
<1>2. ASSUME NEW c \in completion
      PROVE  LET d == [c EXCEPT !.current = FALSE, !.closes = FALSE]
             IN  d \in Record /\ ~d.current /\ d.fabric = c.fabric
  BY DEF TypeOK
<1> HIDE DEF Record
<1>3. CASE ds = Orphaned(completion)
  <2>1. \A d \in ds : \E c \in completion : d = [c EXCEPT !.current = FALSE]
    BY <1>3 DEF Orphaned
  <2>2. QED
    BY <1>1, <2>1 DEF Record
<1>4. CASE ds = Rejected(completion)
  <2>1. \A d \in ds : \E c \in completion : d = [c EXCEPT !.current = FALSE, !.closes = FALSE]
    BY <1>4 DEF Rejected
  <2>2. \A d \in ds : d \in Record /\ ~d.current /\ \E c \in completion : d.fabric = c.fabric
    <3>1. SUFFICES ASSUME NEW d \in ds
                   PROVE  d \in Record /\ ~d.current /\ \E c \in completion : d.fabric = c.fabric
      OBVIOUS
    <3>2. PICK c \in completion : d = [c EXCEPT !.current = FALSE, !.closes = FALSE]
      BY <2>1
    <3>3. QED
      BY <1>2, <3>2
  <2>3. (\A c, d \in completion : c = d) => \A c, d \in ds : c = d
    BY <2>1, Zenon
  <2>4. QED
    BY <2>2, <2>3 DEF Record
<1>5. QED
  BY <1>3, <1>4

\* handleFabricChange keeps the types.
LEMMA NoticeType ==
  ASSUME NEW fabs, Notice(fabs)
  PROVE  /\ commissioned' \in BOOLEAN /\ resetting' \in BOOLEAN /\ missed' \in BOOLEAN
         /\ commissioned' <=> fabs # {}
<1>1. commissioned' \in BOOLEAN /\ resetting' \in BOOLEAN /\ missed' \in BOOLEAN
  BY Zenon DEF Notice
<1>2. QED
  BY <1>1 DEF Notice

\* The context goes, with the fabric it has added unless that is accounted for.
LEMMA DestroyedStep ==
  ASSUME FailsafeInv, Armed,
         fabrics' \subseteq fabrics, committed \subseteq fabrics',
         context.index \in fabrics' => context.index \in unguarded \cup committed,
         unguarded' = unguarded \cap fabrics',
         stored' \in [fabrics : SUBSET Index, next : Index],
         stored' = stored \/ stored'.fabrics = fabrics',
         fabrics' # fabrics => context.monitored,
         Destroyed(fabrics'),
         completion' \in {Orphaned(completion), Rejected(completion), {}},
         UNCHANGED <<nextFabricIndex, committed, storageFailed>>,
         pase' \subseteq pase,
         window' \in BOOLEAN, responder' \in BOOLEAN, breadcrumb' \in BOOLEAN
  PROVE  FailsafeInv'
<1>1. TypeOK /\ Table /\ Nocs /\ Completions /\ Contexts /\ ContextIsTimed /\ Known
  BY Parts
<1>2. /\ context' = NoContext /\ noc' = Orphaned(noc) /\ ~Armed'
      /\ IF context.monitored THEN Notice(fabrics') ELSE UNCHANGED <<commissioned, resetting, missed>>
  BY DEF Destroyed, Armed
<1>3. commissioned' \in BOOLEAN /\ resetting' \in BOOLEAN /\ missed' \in BOOLEAN
  BY <1>1, <1>2, NoticeType DEF TypeOK
<1>4. completion' \subseteq [fabric : Index, current : BOOLEAN, closes : BOOLEAN, stage : {"persisting", "closing"}]
  BY <1>1, OrphanedCompletions
<1>5. TypeOK'
  <2>1. fabrics' \subseteq Index /\ unguarded' \subseteq Index
    BY <1>1 DEF TypeOK
  <2>2. pase' \subseteq {NoFabric} \cup Index
    BY <1>1 DEF TypeOK
  <2>3. QED
    BY <1>1, <1>2, <1>3, <1>4, <2>1, <2>2, OrphanedNocs DEF TypeOK
<1>6. Table'
  BY <1>1, <1>2 DEF Table, CommittedSurvives, UncommittedIsGuarded
<1>7. Nocs'
  BY <1>1, <1>2, OrphanedNocs DEF Nocs
<1>8. Completions'
  BY <1>1, <1>2, OrphanedCompletions DEF Completions
<1>9. Contexts' /\ ContextIsTimed'
  BY <1>2 DEF Contexts, ContextIsTimed
<1>10. Known'
  <2>1. CASE context.monitored
    BY <1>2, <2>1, NoticeType DEF Known
  <2>2. CASE ~context.monitored
    <3>1. fabrics' = fabrics /\ unguarded' = unguarded
      BY <1>1, <2>2 DEF Table
    <3>2. QED
      BY <1>1, <1>2, <2>2, <3>1 DEF Known
  <2>3. QED
    BY <2>1, <2>2
<1>11. QED
  BY <1>5, <1>6, <1>7, <1>8, <1>9, <1>10 DEF FailsafeInv

\* A fabric that is removed by an administrator, or by the context, which is off then.
LEMMA RemoveStep ==
  ASSUME FailsafeInv, NEW f \in fabrics, Remove(f), TypeOK',
         UNCHANGED <<noc, completion, storageFailed>>,
         committed' = committed \ {f},
         Armed' <=> Armed,
         Armed =>
           /\ context'.index = context.index
           /\ context'.associated = context.associated
           /\ context'.forUpdateNoc = context.forUpdateNoc
           /\ context'.monitored = context.monitored
           /\ \/ /\ context'.failsafe = context.failsafe /\ context'.timer = context.timer
                 /\ context'.rollback = context.rollback
              \/ ~context'.failsafe /\ context.failsafe /\ f = context.index
  PROVE  FailsafeInv'
<1>1. TypeOK /\ Table /\ Nocs /\ Completions /\ Contexts /\ ContextIsTimed /\ Known
  BY Parts
<1>2. /\ fabrics' = fabrics \ {f} /\ unguarded' = unguarded \ {f}
      /\ stored'.fabrics = fabrics'
      /\ IF Refused(f) THEN Overlook ELSE Notice(fabrics')
  BY DEF Remove, Persisted
<1>3. Table'
  BY <1>1, <1>2 DEF Table, CommittedSurvives, UncommittedIsGuarded
<1>4. Nocs'
  BY <1>1, <1>2 DEF Nocs
<1>5. Completions'
  BY <1>1, <1>2, ContextFields DEF Completions
<1>6. Contexts'
  <2>1. CASE Armed /\ context'.failsafe = context.failsafe /\ context'.rollback = context.rollback
    BY <1>1, <1>2, <2>1, ContextFields DEF Contexts
  <2>2. CASE Armed /\ ~context'.failsafe /\ context.failsafe /\ f = context.index
    BY <1>1, <1>2, <2>2, ContextFields DEF Contexts
  <2>3. QED
    BY <2>1, <2>2 DEF Contexts
<1>7. ContextIsTimed'
  BY <1>1, ContextFields DEF ContextIsTimed
<1>8. Known'
  <2>1. CASE Refused(f)
    BY <1>2, <2>1 DEF Known, Overlook
  <2>2. CASE ~Refused(f)
    BY <1>2, <2>2, NoticeType DEF Known
  <2>3. QED
    BY <2>1, <2>2
<1>9. QED
  BY <1>3, <1>4, <1>5, <1>6, <1>7, <1>8 DEF FailsafeInv

\* The table after a removal has its types.
LEMMA RemoveType ==
  ASSUME TypeOK, NEW f, Remove(f)
  PROVE  /\ fabrics' \subseteq Index /\ nextFabricIndex' \in Index
         /\ stored' \in [fabrics : SUBSET Index, next : Index]
         /\ commissioned' \in BOOLEAN /\ resetting' \in BOOLEAN /\ missed' \in BOOLEAN
         /\ unguarded' \subseteq Index
<1>1. commissioned' \in BOOLEAN /\ resetting' \in BOOLEAN /\ missed' \in BOOLEAN
  <2>1. CASE Overlook
    <3>1. missed' \in BOOLEAN
      BY <2>1, Zenon DEF Overlook
    <3>2. QED
      BY <2>1, <3>1 DEF Overlook, TypeOK
  <2>2. CASE Notice(fabrics')
    BY <2>2, NoticeType
  <2>3. QED
    BY <2>1, <2>2 DEF Remove
<1>2. QED
  BY <1>1 DEF TypeOK, Remove, Persisted

LEMMA RemoveFabricStep ==
  ASSUME FailsafeInv, NEW f \in fabrics, RemoveFabric(f)
  PROVE  FailsafeInv'
<1>1. TypeOK
  BY Parts
<1>2. /\ Remove(f) /\ committed' = committed \ {f}
      /\ UNCHANGED <<noc, completion, pase, commissioning, breadcrumb, storageFailed>>
  BY DEF RemoveFabric
<1>3. /\ context' \in {NoContext} \cup Context
      /\ Armed' <=> Armed
      /\ Armed =>
           /\ context'.index = context.index
           /\ context'.associated = context.associated
           /\ context'.forUpdateNoc = context.forUpdateNoc
           /\ context'.monitored = context.monitored
           /\ context'.failsafe = context.failsafe /\ context'.timer = context.timer
           /\ context'.rollback = context.rollback
  <2>1. CASE Armed /\ context.csr = f
    <3>1. context' = [context EXCEPT !.csr = NoId] /\ context \in Context
      BY <1>1, <2>1, ContextFields DEF RemoveFabric
    <3>2. context' \in Context
      BY <3>1 DEF Context
    <3>3. QED
      BY <2>1, <3>1, <3>2, StaysArmed DEF Context
  <2>2. CASE ~(Armed /\ context.csr = f)
    <3>1. context' = context
      BY <2>2 DEF RemoveFabric
    <3>2. QED
      BY <1>1, <3>1 DEF Armed, TypeOK
  <2>3. QED
    BY <2>1, <2>2
<1>4. TypeOK'
  <2>1. committed' \subseteq Index
    BY <1>1, <1>2 DEF TypeOK
  <2>2. QED
    BY <1>1, <1>2, <1>3, <2>1, RemoveType DEF TypeOK
<1>5. QED
  BY <1>2, <1>3, <1>4, RemoveStep

-----------------------------------------------------------------------------
(* The continuations of CommissioningComplete *)

LEMMA EndCommissioningType ==
  ASSUME EndCommissioning
  PROVE  window' \in BOOLEAN /\ responder' \in BOOLEAN
BY Zenon DEF EndCommissioning

LEMMA CompletionPersistedStep ==
  ASSUME FailsafeInv, CompletionPersisted
  PROVE  FailsafeInv'
<1>1. TypeOK /\ Table /\ Nocs /\ Completions /\ Contexts /\ ContextIsTimed /\ Known
  BY Parts
<1>2. PICK c \in completion :
        /\ c.stage = "persisting"
        /\ completion' = {[c EXCEPT !.stage = "closing"]}
        /\ context' = IF c.current THEN [context EXCEPT !.failsafe = FALSE] ELSE context
        /\ committed' = IF c.current /\ context.rollback = "no"
                        THEN committed \cup ({c.fabric} \cap fabrics) ELSE committed
        /\ EndCommissioning
        /\ UNCHANGED <<table, noc, pase, breadcrumb, unguarded, storageFailed>>
  BY DEF CompletionPersisted
<1> DEFINE d == [c EXCEPT !.stage = "closing"]
<1>3. /\ d \in [fabric : Index, current : BOOLEAN, closes : BOOLEAN, stage : {"persisting", "closing"}]
      /\ d.fabric = c.fabric /\ d.current = c.current /\ d.current \in BOOLEAN
      /\ c.fabric \in Index
  BY <1>1 DEF TypeOK
<1>4. completion' = {d}
  BY <1>2
<1> HIDE DEF d
<1>5. window' \in BOOLEAN /\ responder' \in BOOLEAN
  BY <1>2, EndCommissioningType
<1>6. committed' \subseteq Index
  BY <1>1, <1>2 DEF TypeOK
<1>7. \A b \in completion : b = c
  BY <1>1 DEF Completions
<1>8. c.fabric \in fabrics => c.fabric \in unguarded \cup stored.fabrics
  BY <1>1 DEF Completions
<1>9. CASE c.current
  <2>1. Armed /\ context \in Context /\ context' = [context EXCEPT !.failsafe = FALSE]
    BY <1>1, <1>2, <1>9, ContextFields DEF Completions
  <2>2. context' \in Context
    BY <2>1 DEF Context
  <2>3. Armed'
    BY <2>2, StaysArmed
  <2>4. /\ context'.index = context.index /\ ~context'.failsafe
        /\ context'.associated = context.associated /\ context'.forUpdateNoc = context.forUpdateNoc
        /\ context'.rollback = context.rollback /\ context'.monitored = context.monitored
    BY <2>1 DEF Context
  <2>5. TypeOK'
    BY <1>1, <1>2, <1>3, <1>4, <1>5, <1>6, <2>2 DEF TypeOK
  <2>6. Table'
    BY <1>1, <1>2, <1>8, <2>1, <2>3, <2>4 DEF Table, CommittedSurvives, UncommittedIsGuarded
  <2>7. Nocs'
    BY <1>1, <1>2, <2>1, <2>3, <2>4 DEF Nocs
  <2>8. Completions'
    BY <1>1, <1>2, <1>3, <1>4, <1>8, <1>9, <2>1, <2>3, <2>4 DEF Completions
  <2>9. Contexts'
    <3>1. context.index \in fabrics => context.index \in unguarded \/ context.index = c.fabric
      BY <1>1, <1>9 DEF Completions
    <3>2. CASE context.rollback = "no"
      BY <1>1, <1>2, <1>9, <2>1, <2>4, <3>1, <3>2 DEF Contexts
    <3>3. CASE context.rollback # "no"
      <4>1. committed' = committed
        BY <1>2, <3>3
      <4>2. QED
        BY <1>1, <1>2, <2>1, <2>4, <3>3, <4>1 DEF Contexts
    <3>4. QED
      BY <3>2, <3>3
  <2>10. ContextIsTimed'
    BY <2>4 DEF ContextIsTimed
  <2>11. Known'
    BY <1>1, <1>2, <2>1, <2>3, <2>4 DEF Known
  <2>12. QED
    BY <2>5, <2>6, <2>7, <2>8, <2>9, <2>10, <2>11 DEF FailsafeInv
<1>10. CASE ~c.current
  <2>1. context' = context /\ committed' = committed /\ (Armed' <=> Armed)
    BY <1>2, <1>10 DEF Armed
  <2>2. TypeOK'
    BY <1>1, <1>2, <1>3, <1>4, <1>5, <1>6, <2>1 DEF TypeOK
  <2>3. Table' /\ Nocs' /\ Contexts' /\ Known'
    BY <1>1, <1>2, <2>1 DEF Table, CommittedSurvives, UncommittedIsGuarded, Nocs, Contexts, Known
  <2>4. Completions'
    BY <1>1, <1>2, <1>3, <1>4, <1>8, <1>10, <2>1 DEF Completions
  <2>5. ContextIsTimed'
    BY <1>1, <1>2, <1>7, <1>10, <2>1 DEF ContextIsTimed
  <2>6. QED
    BY <2>2, <2>3, <2>4, <2>5 DEF FailsafeInv
<1>11. QED
  BY <1>9, <1>10

LEMMA CompletionEndsStep ==
  ASSUME FailsafeInv, CompletionEnds
  PROVE  FailsafeInv'
<1>1. TypeOK /\ Table /\ Nocs /\ Completions /\ Contexts /\ ContextIsTimed /\ Known
  BY Parts
<1>2. PICK c \in completion :
        /\ c.stage = "closing"
        /\ IF c.current THEN Destroyed(fabrics) ELSE UNCHANGED <<context, noc, node>>
  BY DEF CompletionEnds
<1>3. /\ completion' = {} /\ pase' = {}
      /\ UNCHANGED <<fabrics, nextFabricIndex, stored, commissioning, history>>
  BY DEF CompletionEnds
<1>4. breadcrumb' \in BOOLEAN
  BY Zenon DEF CompletionEnds
<1>5. CASE c.current
  <2>1. Armed /\ ~context.failsafe
    BY <1>1, <1>2, <1>5 DEF Completions
  <2>2. context.index \in fabrics => context.index \in unguarded \cup committed
    BY <1>1, <2>1 DEF Contexts
  <2>3. Destroyed(fabrics')
    BY <1>2, <1>3, <1>5 DEF Destroyed, Notice
  <2>4. fabrics' = fabrics /\ unguarded' = unguarded \cap fabrics' /\ committed \subseteq fabrics'
    BY <1>1, <1>3 DEF Table, CommittedSurvives
  <2>5. /\ stored' = stored /\ stored' \in [fabrics : SUBSET Index, next : Index]
        /\ window' \in BOOLEAN /\ responder' \in BOOLEAN /\ pase' \subseteq pase
    BY <1>1, <1>3 DEF TypeOK
  <2>6. QED
    BY <1>3, <1>4, <2>1, <2>2, <2>3, <2>4, <2>5, DestroyedStep
<1>6. CASE ~c.current
  <2>1. UNCHANGED <<context, noc, node>> /\ (Armed' <=> Armed)
    BY <1>2, <1>6 DEF Armed
  <2>2. TypeOK'
    BY <1>1, <1>3, <1>4, <2>1 DEF TypeOK
  <2>3. Table' /\ Nocs' /\ Completions' /\ Contexts' /\ Known'
    BY <1>1, <1>3, <2>1 DEF Table, CommittedSurvives, UncommittedIsGuarded, Nocs, Completions, Contexts, Known
  <2>4. ContextIsTimed'
    <3>1. \A b \in completion : b = c
      BY <1>1 DEF Completions
    <3>2. QED
      BY <1>1, <1>3, <1>6, <2>1, <3>1 DEF ContextIsTimed
  <2>5. QED
    BY <2>2, <2>3, <2>4 DEF FailsafeInv
<1>7. QED
  BY <1>5, <1>6

-----------------------------------------------------------------------------
(* Rollback *)

\* close(), whatever the caller does to the window.
LEMMA CloseStep ==
  ASSUME FailsafeInv, Armed, Close, window' \in BOOLEAN, responder' \in BOOLEAN,
         UNCHANGED <<pase, breadcrumb>>
  PROVE  FailsafeInv'
<1>1. TypeOK /\ Table /\ Nocs /\ Completions /\ Contexts /\ ContextIsTimed /\ Known
  BY Parts
<1>2. context \in Context
  BY <1>1, ContextFields
<1> DEFINE rolling == [context EXCEPT !.failsafe = FALSE, !.timer = FALSE, !.rollback = "sessions"]
<1>3. /\ rolling \in Context
      /\ rolling.index = context.index /\ rolling.associated = context.associated
      /\ rolling.forUpdateNoc = context.forUpdateNoc /\ rolling.monitored = context.monitored
      /\ ~rolling.failsafe /\ rolling.rollback = "sessions"
  BY <1>2 DEF Context
<1>4. \/ UNCHANGED <<table, context, noc, completion, history>>
      \/ /\ RevokesFirst /\ context.index \notin fabrics
         /\ Destroyed(fabrics)
         /\ completion' = Rejected(completion)
         /\ UNCHANGED <<fabrics, nextFabricIndex, stored, committed, unguarded, storageFailed>>
      \/ /\ context.failsafe /\ context.index \in fabrics
         /\ Remove(context.index)
         /\ context' = rolling
         /\ UNCHANGED <<noc, completion, committed, storageFailed>>
      \/ /\ context.failsafe /\ ~RevokesFirst
         /\ context' = rolling
         /\ UNCHANGED <<table, noc, completion, history>>
  BY DEF Close
<1> HIDE DEF rolling
<1>5. CASE UNCHANGED <<table, context, noc, completion, history>>
  <2>1. TypeOK' /\ SameContext
    BY <1>1, <1>5 DEF TypeOK, SameContext, Armed
  <2>2. QED
    BY <1>5, <2>1, FrameStep
<1>6. CASE /\ RevokesFirst /\ context.index \notin fabrics
           /\ Destroyed(fabrics)
           /\ completion' = Rejected(completion)
           /\ UNCHANGED <<fabrics, nextFabricIndex, stored, committed, unguarded, storageFailed>>
  <2>1. Destroyed(fabrics')
    BY <1>6 DEF Destroyed, Notice
  <2>2. fabrics' = fabrics /\ unguarded' = unguarded \cap fabrics' /\ committed \subseteq fabrics'
    BY <1>1, <1>6 DEF Table, CommittedSurvives
  <2>3. /\ stored' = stored /\ stored' \in [fabrics : SUBSET Index, next : Index]
        /\ breadcrumb' \in BOOLEAN /\ pase' \subseteq pase
    BY <1>1, <1>6 DEF TypeOK
  <2>4. QED
    BY <1>6, <2>1, <2>2, <2>3, DestroyedStep
<1>7. CASE /\ context.failsafe /\ context.index \in fabrics
           /\ Remove(context.index)
           /\ context' = rolling
           /\ UNCHANGED <<noc, completion, committed, storageFailed>>
  <2>1. committed' = committed \ {context.index}
    BY <1>1, <1>7 DEF Contexts
  <2>2. Armed'
    BY <1>7, <1>3, StaysArmed
  <2>3. TypeOK'
    BY <1>1, <1>7, <1>3, RemoveType DEF TypeOK
  <2>4. QED
    BY <1>7, <1>3, <2>1, <2>2, <2>3, RemoveStep
<1>8. CASE /\ context.failsafe /\ ~RevokesFirst
           /\ context' = rolling
           /\ UNCHANGED <<table, noc, completion, history>>
  <2>1. context.index = NoFabric
    BY <1>1, <1>8 DEF RevokesFirst, Contexts
  <2>2. Armed'
    BY <1>8, <1>3, StaysArmed
  <2>3. TypeOK'
    BY <1>1, <1>8, <1>3 DEF TypeOK
  <2>4. NoFabric \notin fabrics /\ NoFabric \notin committed
    BY <1>1, IndexFacts DEF TypeOK
  <2>5. Table'
    BY <1>1, <1>8, <1>3, <2>2 DEF Table, CommittedSurvives, UncommittedIsGuarded
  <2>6. Nocs' /\ Completions'
    BY <1>1, <1>8, <1>3, <2>1, <2>2, <2>4 DEF Nocs, Completions
  <2>7. Contexts'
    BY <1>8, <1>3, <2>1, <2>4 DEF Contexts
  <2>8. ContextIsTimed'
    BY <1>8, <1>3 DEF ContextIsTimed
  <2>9. Known'
    BY <1>1, <1>8, <1>3, <2>2 DEF Known
  <2>10. QED
    BY <2>3, <2>5, <2>6, <2>7, <2>8, <2>9 DEF FailsafeInv
<1>9. QED
  BY <1>4, <1>5, <1>6, <1>7, <1>8

LEMMA ExpireStep ==
  ASSUME FailsafeInv, Expire
  PROVE  FailsafeInv'
<1>1. window' \in BOOLEAN /\ responder' \in BOOLEAN
  BY Parts DEF Expire, TypeOK
<1>2. QED
  BY <1>1, CloseStep DEF Expire

LEMMA RevokeCommissioningStep ==
  ASSUME FailsafeInv, RevokeCommissioning
  PROVE  FailsafeInv'
<1>1. TypeOK
  BY Parts
<1>2. window' \in BOOLEAN /\ responder' \in BOOLEAN
  BY EndCommissioningType DEF RevokeCommissioning
<1>3. CASE Armed
  BY <1>2, <1>3, CloseStep DEF RevokeCommissioning
<1>4. CASE ~Armed
  <2>1. UNCHANGED <<table, context, noc, completion, history, pase, breadcrumb>>
    BY <1>4 DEF RevokeCommissioning
  <2>2. TypeOK' /\ SameContext
    BY <1>1, <1>2, <2>1 DEF TypeOK, SameContext, Armed
  <2>3. QED
    BY <2>1, <2>2, FrameStep
<1>5. QED
  BY <1>3, <1>4

LEMMA RollbackEndsStep ==
  ASSUME FailsafeInv, RollbackEnds
  PROVE  FailsafeInv'
<1>1. /\ TypeOK /\ Table /\ Nocs /\ Completions /\ Contexts /\ ContextIsTimed /\ Known
      /\ Armed /\ context.rollback = "restore"
  BY Parts DEF RollbackEnds
<1>2. /\ ~context.failsafe /\ context.index \notin committed
      /\ context.index \in fabrics => context.monitored /\ context.index \in unguarded
  BY <1>1 DEF Contexts
<1>3. /\ fabrics' = IF Revokes THEN fabrics \ {context.index} ELSE fabrics
      /\ stored' = IF Revokes \/ Restores THEN [fabrics |-> fabrics', next |-> nextFabricIndex] ELSE stored
      /\ unguarded' = unguarded \cap fabrics'
      /\ Destroyed(fabrics')
      /\ completion' = Orphaned(completion)
      /\ UNCHANGED <<nextFabricIndex, pase, commissioning, committed, storageFailed>>
  BY DEF RollbackEnds, Persisted
<1>4. breadcrumb' \in BOOLEAN
  BY Zenon DEF RollbackEnds, RestoreBreadcrumb
<1>5. /\ fabrics' \subseteq fabrics /\ committed \subseteq fabrics'
      /\ fabrics' # fabrics => context.monitored
  BY <1>1, <1>2, <1>3 DEF Table, CommittedSurvives, Revokes
<1>6. /\ stored' = stored \/ stored'.fabrics = fabrics'
      /\ stored' \in [fabrics : SUBSET Index, next : Index]
  BY <1>1, <1>3, <1>5 DEF TypeOK
<1>7. context.index \in fabrics' => context.index \in unguarded \cup committed
  BY <1>2, <1>5
<1>8. window' \in BOOLEAN /\ responder' \in BOOLEAN /\ pase' \subseteq pase
  BY <1>1, <1>3 DEF TypeOK
<1>9. QED
  BY <1>1, <1>3, <1>4, <1>5, <1>6, <1>7, <1>8, DestroyedStep

LEMMA RollbackThrowsStep ==
  ASSUME FailsafeInv, RollbackThrows
  PROVE  FailsafeInv'
<1>1. /\ TypeOK /\ Table /\ Nocs /\ Completions /\ Contexts /\ ContextIsTimed /\ Known
      /\ Armed /\ context.rollback = "restore"
  BY Parts DEF RollbackThrows
<1>2. /\ context.index \in fabrics => context.index \in unguarded \cup committed
  BY <1>1 DEF Contexts
<1>3. /\ stored' = stored \/ stored' = [fabrics |-> fabrics, next |-> nextFabricIndex]
      /\ Destroyed(fabrics)
      /\ completion' = Rejected(completion)
      /\ UNCHANGED <<fabrics, nextFabricIndex, pase, commissioning, breadcrumb, committed, unguarded,
                     storageFailed>>
  BY DEF RollbackThrows, Persisted
<1>4. Destroyed(fabrics')
  BY <1>3 DEF Destroyed, Notice
<1>5. fabrics' = fabrics /\ unguarded' = unguarded \cap fabrics' /\ committed \subseteq fabrics'
  BY <1>1, <1>3 DEF Table, CommittedSurvives
<1>6. /\ stored' = stored \/ stored'.fabrics = fabrics'
      /\ stored' \in [fabrics : SUBSET Index, next : Index]
  BY <1>1, <1>3 DEF TypeOK
<1>7. /\ window' \in BOOLEAN /\ responder' \in BOOLEAN /\ breadcrumb' \in BOOLEAN
      /\ pase' \subseteq pase
  BY <1>1, <1>3 DEF TypeOK
<1>8. QED
  BY <1>1, <1>2, <1>3, <1>4, <1>5, <1>6, <1>7, DestroyedStep

-----------------------------------------------------------------------------
(* AddNOC after its await *)

\* The context of an AddNOC that has reached the table listens to the fail-safe.
LEMMA ContextListens ==
  ASSUME FailsafeInv, NEW n \in noc,
         context' = IF n.current
                    THEN [context EXCEPT !.monitored = TRUE,
                            !.associated = IF context.failsafe THEN n.index ELSE @]
                    ELSE context
  PROVE  /\ context' \in {NoContext} \cup Context
         /\ Armed' <=> Armed
         /\ n.current => Armed /\ context.index = n.index
         /\ Armed =>
              /\ context'.index = context.index
              /\ context'.failsafe = context.failsafe
              /\ context'.timer = context.timer
              /\ context'.forUpdateNoc = context.forUpdateNoc
              /\ context'.rollback = context.rollback
              /\ n.current => context'.monitored
              /\ n.current /\ context.failsafe => context'.associated = n.index
              /\ ~n.current => context' = context
<1>1. TypeOK /\ Nocs
  BY Parts
<1>2. CASE n.current
  <2>1. Armed /\ context.index = n.index
    BY <1>1, <1>2 DEF Nocs
  <2>2. context \in Context
    BY <1>1, <2>1, ContextFields
  <2> DEFINE a == IF context.failsafe THEN n.index ELSE context.associated
  <2>3. a \in {NoFabric} \cup Index /\ (context.failsafe => a = n.index)
    BY <1>1, <2>1, ContextFields DEF TypeOK
  <2>4. context' = [context EXCEPT !.monitored = TRUE, !.associated = a]
    BY <1>2
  <2> HIDE DEF a
  <2>5. context' \in Context
    BY <2>2, <2>3, <2>4 DEF Context
  <2>6. QED
    BY <1>2, <2>1, <2>2, <2>3, <2>4, <2>5, StaysArmed DEF Context
<1>3. CASE ~n.current
  BY <1>1, <1>3 DEF TypeOK, Armed
<1>4. QED
  BY <1>2, <1>3

LEMMA FabricBuiltStep ==
  ASSUME FailsafeInv, NEW n \in noc, FabricBuilt(n)
  PROVE  FailsafeInv'
<1>1. TypeOK /\ Table /\ Nocs /\ Completions /\ Contexts /\ ContextIsTimed /\ Known
  BY Parts
<1>2. /\ fabrics' = fabrics \cup {n.index}
      /\ noc' = noc \ {n}
      /\ pase' \subseteq pase \cup {n.index}
      /\ UNCHANGED <<nextFabricIndex, stored, completion, commissioning, breadcrumb, committed,
                     storageFailed>>
  BY DEF FabricBuilt
<1>3. context' = IF n.current
                 THEN [context EXCEPT !.monitored = TRUE,
                         !.associated = IF context.failsafe THEN n.index ELSE @]
                 ELSE context
  BY DEF FabricBuilt
<1>4. /\ n.index \in Index /\ n.index \notin fabrics /\ n.index \notin committed
      /\ n.current \in BOOLEAN
      /\ n.current <=> Armed /\ context.index = n.index
  BY <1>1 DEF TypeOK, Nocs, Table, CommittedSurvives
<1>5. \/ unguarded' = unguarded \cup {n.index}
      \/ unguarded' = unguarded /\ n.current /\ context.failsafe /\ completion = {}
  BY DEF FabricBuilt, Guarded
<1>6. noc' = {}
  BY <1>1, <1>2 DEF Nocs
<1>7. IF Armed THEN UNCHANGED <<commissioned, resetting, missed>> ELSE Notice(fabrics')
  BY DEF FabricBuilt
<1>8. TypeOK'
  <2>1. commissioned' \in BOOLEAN /\ resetting' \in BOOLEAN /\ missed' \in BOOLEAN
    BY <1>1, <1>7, NoticeType DEF TypeOK
  <2>2. fabrics' \subseteq Index /\ unguarded' \subseteq Index /\ pase' \subseteq {NoFabric} \cup Index
    BY <1>1, <1>2, <1>4, <1>5 DEF TypeOK
  <2>3. QED
    BY <1>1, <1>2, <1>3, <1>6, <2>1, <2>2, ContextListens DEF TypeOK
<1>9. /\ Armed' <=> Armed
      /\ n.current => Armed /\ context.index = n.index
      /\ Armed =>
           /\ context'.index = context.index
           /\ context'.failsafe = context.failsafe
           /\ context'.timer = context.timer
           /\ context'.forUpdateNoc = context.forUpdateNoc
           /\ context'.rollback = context.rollback
           /\ n.current => context'.monitored
           /\ n.current /\ context.failsafe => context'.associated = n.index
           /\ ~n.current => context' = context
  BY <1>3, ContextListens
<1>10. Table'
  BY <1>1, <1>2, <1>4, <1>5, <1>9 DEF Table, CommittedSurvives, UncommittedIsGuarded
<1>11. Nocs'
  BY <1>6 DEF Nocs
<1>12. Completions'
  BY <1>1, <1>2, <1>4, <1>5, <1>9, ContextFields DEF Completions
<1>13. Contexts'
  <2>1. CASE Armed /\ n.current
    BY <1>1, <1>2, <1>4, <1>5, <1>9, <2>1, ContextFields DEF Contexts
  <2>2. CASE Armed /\ ~n.current
    <3>1. context' = context /\ context.index # n.index
      BY <1>4, <1>9, <2>2
    <3>2. QED
      BY <1>1, <1>2, <1>4, <1>5, <2>2, <3>1, ContextFields DEF Contexts
  <2>3. QED
    BY <1>9, <2>1, <2>2 DEF Contexts
<1>14. ContextIsTimed'
  BY <1>1, <1>2, <1>9, ContextFields DEF ContextIsTimed
<1>15. Known'
  <2>1. CASE Armed
    BY <1>5, <1>9, <2>1 DEF Known
  <2>2. CASE ~Armed
    BY <1>7, <2>2, NoticeType DEF Known
  <2>3. QED
    BY <2>1, <2>2
<1>16. QED
  BY <1>8, <1>10, <1>11, <1>12, <1>13, <1>14, <1>15 DEF FailsafeInv

LEMMA FabricRefusedStep ==
  ASSUME FailsafeInv, NEW n \in noc, FabricRefused(n)
  PROVE  FailsafeInv'
<1>1. TypeOK /\ Table /\ Nocs /\ Completions /\ Contexts /\ ContextIsTimed /\ Known
  BY Parts
<1>2. /\ stored' = [fabrics |-> fabrics, next |-> nextFabricIndex]
      /\ noc' = noc \ {n}
      /\ UNCHANGED <<fabrics, nextFabricIndex, completion, pase, commissioning, breadcrumb, committed,
                     unguarded, storageFailed>>
  BY DEF FabricRefused, Persisted
<1>3. context' = IF n.current
                 THEN [context EXCEPT !.monitored = TRUE,
                         !.associated = IF context.failsafe THEN n.index ELSE @]
                 ELSE context
  BY DEF FabricRefused
<1>4. n.index \notin fabrics /\ n.current \in BOOLEAN
  BY <1>1 DEF TypeOK, Nocs
<1>5. noc' = {}
  BY <1>1, <1>2 DEF Nocs
<1>6. \/ Armed /\ ~n.current /\ Overlook
      \/ Notice(fabrics)
      \/ NoticedInBetween
  BY DEF FabricRefused
<1>7. /\ commissioned' \in BOOLEAN /\ resetting' \in BOOLEAN /\ missed' \in BOOLEAN
      /\ missed' \/ resetting' \/ (commissioned' <=> fabrics # {})
  <2>1. CASE Overlook
    <3>1. missed' \in BOOLEAN
      BY <2>1, Zenon DEF Overlook
    <3>2. QED
      BY <1>1, <2>1, <3>1 DEF Overlook, TypeOK
  <2>2. CASE Notice(fabrics)
    BY <2>2, NoticeType
  <2>3. CASE NoticedInBetween
    <3>1. commissioned' \in BOOLEAN /\ resetting' \in BOOLEAN /\ missed' \in BOOLEAN
      BY <2>3, Zenon DEF NoticedInBetween
    <3>2. QED
      BY <2>3, <3>1 DEF NoticedInBetween
  <2>4. QED
    BY <1>6, <2>1, <2>2, <2>3
<1>8. TypeOK'
  BY <1>1, <1>2, <1>3, <1>5, <1>7, ContextListens DEF TypeOK
<1>9. /\ Armed' <=> Armed
      /\ n.current => Armed /\ context.index = n.index
      /\ Armed =>
           /\ context'.index = context.index
           /\ context'.failsafe = context.failsafe
           /\ context'.timer = context.timer
           /\ context'.forUpdateNoc = context.forUpdateNoc
           /\ context'.rollback = context.rollback
           /\ ~n.current => context' = context
  BY <1>3, ContextListens
<1>10. Table'
  BY <1>1, <1>2, <1>9 DEF Table, CommittedSurvives, UncommittedIsGuarded
<1>11. Nocs'
  BY <1>5 DEF Nocs
<1>12. Completions'
  BY <1>1, <1>2, <1>9, ContextFields DEF Completions
<1>13. Contexts'
  <2>1. CASE n.current
    BY <1>1, <1>2, <1>4, <1>9, <2>1, ContextFields DEF Contexts
  <2>2. CASE ~n.current
    BY <1>1, <1>2, <1>9, <2>2, ContextFields DEF Contexts
  <2>3. QED
    BY <2>1, <2>2
<1>14. ContextIsTimed'
  BY <1>1, <1>2, <1>9, ContextFields DEF ContextIsTimed
<1>15. Known'
  BY <1>2, <1>7 DEF Known
<1>16. QED
  BY <1>8, <1>10, <1>11, <1>12, <1>13, <1>14, <1>15 DEF FailsafeInv

-----------------------------------------------------------------------------
(* Restarts *)

\* A restart keeps what the storage has, if the history says so.
LEMMA RestartStep ==
  ASSUME NEW s \in [fabrics : SUBSET Index, next : Index], NEW attribute, Restart(s, attribute),
         committed' \subseteq s.fabrics,
         unguarded' \subseteq s.fabrics,
         s.fabrics \subseteq committed' \cup unguarded'
  PROVE  FailsafeInv'
<1>1. /\ commissioned' \in BOOLEAN /\ resetting' \in BOOLEAN /\ missed' \in BOOLEAN
      /\ window' \in BOOLEAN /\ responder' \in BOOLEAN /\ breadcrumb' \in BOOLEAN
      /\ storageFailed' \in BOOLEAN
  BY Zenon DEF Restart
<1>2. /\ fabrics' = s.fabrics /\ nextFabricIndex' = s.next /\ stored' = s
      /\ context' = NoContext /\ noc' = {} /\ completion' = {} /\ pase' = {}
      /\ s.fabrics \subseteq Index /\ s.next \in Index
  BY DEF Restart
<1>3. ~missed' => (commissioned' <=> fabrics' # {})
  BY <1>1 DEF Restart
<1>4. ~Armed'
  BY <1>2 DEF Armed
<1>5. TypeOK'
  BY <1>1, <1>2 DEF TypeOK
<1>6. Table'
  BY <1>2 DEF Table, CommittedSurvives, UncommittedIsGuarded
<1>7. Nocs' /\ Completions'
  BY <1>2 DEF Nocs, Completions
<1>8. Contexts' /\ ContextIsTimed'
  BY <1>4 DEF Contexts, ContextIsTimed
<1>9. Known'
  BY <1>3 DEF Known
<1>10. QED
  BY <1>5, <1>6, <1>7, <1>8, <1>9 DEF FailsafeInv

LEMMA FactoryResetStep ==
  ASSUME FactoryReset
  PROVE  FailsafeInv'
<1> DEFINE s == [fabrics |-> {}, next |-> 1]
<1>1. s \in [fabrics : SUBSET Index, next : Index] /\ s.fabrics = {}
  BY IndexFacts
<1>2. Restart(s, {}) /\ committed' = {} /\ unguarded' = {}
  BY DEF FactoryReset
<1> HIDE DEF s
<1>3. QED
  BY <1>1, <1>2, RestartStep

LEMMA CrashWithStep ==
  ASSUME FailsafeInv, NEW s \in [fabrics : SUBSET Index, next : Index], NEW attribute, NEW removed,
         CrashWith(s, attribute, removed),
         removed \cap s.fabrics = {},
         committed \ (removed \cup unguarded) \subseteq s.fabrics
  PROVE  FailsafeInv'
<1>1. /\ Restart(s, attribute)
      /\ unguarded' = (unguarded \cup (s.fabrics \ committed)) \cap s.fabrics
      /\ committed' = committed \ (removed \cup (unguarded \ s.fabrics))
  BY DEF CrashWith
<1>2. /\ committed' \subseteq s.fabrics
      /\ unguarded' \subseteq s.fabrics
      /\ s.fabrics \subseteq committed' \cup unguarded'
  BY <1>1
<1>3. QED
  BY <1>1, <1>2, RestartStep

LEMMA CrashStep ==
  ASSUME FailsafeInv, Crash
  PROVE  FailsafeInv'
<1>1. TypeOK /\ Table
  BY Parts
<1>2. stored \in [fabrics : SUBSET Index, next : Index]
  BY <1>1 DEF TypeOK
<1>3. committed \ ({} \cup unguarded) \subseteq stored.fabrics
  BY <1>1 DEF Table, CommittedSurvives
<1>4. QED
  BY <1>2, <1>3, CrashWithStep DEF Crash

LEMMA CrashInRemovalStep ==
  ASSUME FailsafeInv, CrashInRemoval
  PROVE  FailsafeInv'
<1>1. TypeOK /\ Table
  BY Parts
<1>2. /\ stored \in [fabrics : SUBSET Index, next : Index]
      /\ fabrics \subseteq Index /\ nextFabricIndex \in Index
      /\ committed \subseteq fabrics /\ committed \ unguarded \subseteq stored.fabrics
  BY <1>1 DEF TypeOK, Table, CommittedSurvives
<1>3. ASSUME NEW F, F \subseteq fabrics
      PROVE  /\ Persisted(F) \in [fabrics : SUBSET Index, next : Index]
             /\ Persisted(F).fabrics = F
  BY <1>2, <1>3 DEF Persisted
<1>4. ASSUME NEW f \in fabrics, CrashWith(Persisted(fabrics \ {f}), Attribute, {f})
      PROVE  FailsafeInv'
  <2>1. /\ Persisted(fabrics \ {f}) \in [fabrics : SUBSET Index, next : Index]
        /\ Persisted(fabrics \ {f}).fabrics = fabrics \ {f}
    BY <1>3
  <2>2. QED
    BY <1>2, <1>4, <2>1, CrashWithStep
<1>5. ASSUME NEW n \in noc, NEW storage \in {stored, Persisted(fabrics)},
             CrashWith(storage, Attribute \cup {n.index}, {})
      PROVE  FailsafeInv'
  <2>1. /\ storage \in [fabrics : SUBSET Index, next : Index]
        /\ committed \ ({} \cup unguarded) \subseteq storage.fabrics
    BY <1>2, <1>3
  <2>2. QED
    BY <1>5, <2>1, CrashWithStep
<1>6. QED
  BY <1>4, <1>5 DEF CrashInRemoval

-----------------------------------------------------------------------------
(* The theorems *)

LEMMA InitFailsafe ==
  ASSUME Init
  PROVE  FailsafeInv
<1>1. /\ commissioned \in BOOLEAN /\ resetting \in BOOLEAN /\ missed \in BOOLEAN
      /\ window \in BOOLEAN /\ responder \in BOOLEAN /\ breadcrumb \in BOOLEAN
      /\ storageFailed \in BOOLEAN
  BY Zenon DEF Init
<1>2. TypeOK
  BY <1>1, IndexFacts DEF Init, TypeOK
<1>3. ~Armed
  BY DEF Init, Armed
<1>4. QED
  BY <1>2, <1>3 DEF Init, FailsafeInv, Table, CommittedSurvives, UncommittedIsGuarded, Nocs, Completions,
                    Contexts, ContextIsTimed, Known

LEMMA StutterFailsafe ==
  ASSUME FailsafeInv, UNCHANGED vars
  PROVE  FailsafeInv'
BY DEF vars, FailsafeInv, TypeOK, Table, CommittedSurvives, UncommittedIsGuarded, Nocs, Completions,
       Contexts, ContextIsTimed, Known, Armed

LEMMA StepFailsafe ==
  ASSUME FailsafeInv, [Next]_vars
  PROVE  FailsafeInv'
<1>1. CASE Command
  <2>1. CASE \E s \in Sessions :
               \/ Arm(s) \/ Extend(s) \/ AddNoc(s)
               \/ CommissioningComplete(s) \/ CompletionFails(s) \/ CompleteWithoutNoc(s)
               \/ \E update \in BOOLEAN : CsrRequest(s, update)
    BY <2>1, ArmStep, ExtendStep, AddNocStep, CompleteStep, CompletionFailsStep, CompleteWithoutNocStep,
       CsrRequestStep
  <2>2. CASE OpenWindow \/ PaseOpens
    BY <2>2, WindowStep
  <2>3. CASE PaseCloses
    BY <2>3, PaseClosesStep
  <2>4. CASE AddTrustedRootCertificate
    BY <2>4, AddRootStep
  <2>5. CASE RevokeCommissioning
    BY <2>5, RevokeCommissioningStep
  <2>6. CASE UpdateFabricLabel
    BY <2>6, UpdateLabelStep
  <2>7. CASE \E f \in fabrics : RemoveFabric(f)
    BY <2>7, RemoveFabricStep
  <2>8. QED
    BY <1>1, <2>1, <2>2, <2>3, <2>4, <2>5, <2>6, <2>7 DEF Command
<1>2. CASE Continuation
  <2>1. CASE WindowTimeout
    BY <2>1, WindowStep
  <2>2. CASE Expire
    BY <2>2, ExpireStep
  <2>3. CASE RollbackSessions
    BY <2>3, RollbackSessionsStep
  <2>4. CASE RollbackEnds
    BY <2>4, RollbackEndsStep
  <2>5. CASE RollbackThrows
    BY <2>5, RollbackThrowsStep
  <2>6. CASE AddNocEnds
    BY <2>6, FabricBuiltStep, FabricRefusedStep DEF AddNocEnds
  <2>7. CASE CompletionPersisted
    BY <2>7, CompletionPersistedStep
  <2>8. CASE CompletionEnds
    BY <2>8, CompletionEndsStep
  <2>9. QED
    BY <1>2, <2>1, <2>2, <2>3, <2>4, <2>5, <2>6, <2>7, <2>8 DEF Continuation
<1>3. CASE FactoryReset
  BY <1>3, FactoryResetStep
<1>4. CASE Crash \/ CrashInRemoval
  BY <1>4, CrashStep, CrashInRemovalStep
<1>5. CASE UNCHANGED vars
  BY <1>5, StutterFailsafe
<1>6. QED
  BY <1>1, <1>2, <1>3, <1>4, <1>5 DEF Next

\* The invariant holds in every behaviour of the device, for any number of fabric indices.
THEOREM FailsafeInvariant == Spec => []FailsafeInv
<1>1. Init => FailsafeInv
  BY InitFailsafe
<1>2. FailsafeInv /\ [Next]_vars => FailsafeInv'
  BY StepFailsafe
<1>3. QED
  BY <1>1, <1>2, PTL DEF Spec

\* Every variable has its type: fabric indices wrap within their range, and a context is only
\* used while there is one.
THEOREM TypeCorrect == Spec => []TypeOK
<1>1. FailsafeInv => TypeOK
  BY DEF FailsafeInv
<1>2. QED
  BY <1>1, FailsafeInvariant, PTL

\* Expiry, revocation and restart leave no half-commissioned fabric behind, but for the
\* exceptions that are recorded in unguarded.
THEOREM NoFabricIsLeftBehind == Spec => []UncommittedIsGuarded
<1>1. FailsafeInv => UncommittedIsGuarded
  BY DEF FailsafeInv, Table
<1>2. QED
  BY <1>1, FailsafeInvariant, PTL

\* After the point of no return of CommissioningComplete only a RemoveFabric takes the fabric
\* away: no expiry, no rollback and no crash does.
THEOREM CommittedStays == Spec => []CommittedSurvives
<1>1. FailsafeInv => CommittedSurvives
  BY DEF FailsafeInv, Table
<1>2. QED
  BY <1>1, FailsafeInvariant, PTL

\* Nothing leaves the fail-safe armed without a timer or a completion that ends it, but a
\* storage write that fails.
THEOREM SomethingEndsTheFailsafe == Spec => []ContextIsTimed
<1>1. FailsafeInv => ContextIsTimed
  BY DEF FailsafeInv
<1>2. QED
  BY <1>1, FailsafeInvariant, PTL

\* Outside of commissioning handleFabricChange has kept the node's belief and its table
\* together.
THEOREM BeliefAgreesWithTable == Spec => []CommissionedAgrees
<1>1. FailsafeInv => CommissionedAgrees
  BY DEF FailsafeInv, Known, CommissionedAgrees
<1>2. QED
  BY <1>1, FailsafeInvariant, PTL

=============================================================================
