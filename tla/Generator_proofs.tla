--------------------------- MODULE Generator_proofs ---------------------------
(***************************************************************************)
(* Proofs about what the generator keeps on disk between two runs: the     *)
(* table of error codes, and the tree it publishes with its manifest.      *)
(***************************************************************************)
EXTENDS ErrorCodes, Publishing, FiniteSetTheorems, TLAPS

(***************************************************************************)
(* The table of error codes for any set of names and any range of codes:   *)
(* whatever is edited between two runs, a run that writes its table keeps  *)
(* every code it read and leaves no gap below the next one.  The absence   *)
(* of gaps is a pigeonhole argument: there are as many names as numbers    *)
(* below the next code, and no two names share one.                        *)
(***************************************************************************)
\* The table extends what was last edited; one a run wrote is valid and knows
\* the errors of that run.
CodesInv ==
  /\ next_code \in Nat
  /\ \A n \in DOMAIN edited : n \in DOMAIN codes /\ codes[n] = edited[n]
  /\ accepted => validateState(codes, next_code) /\ known \subseteq DOMAIN codes

LEMMA LockInitInv == LockInit => CodesInv
BY DEF LockInit, CodesInv

LEMMA GenerateKeeps ==
  ASSUME CodesInv, Generate
  PROVE  CodesInv'
<1>1. PICK names \in SUBSET ErrorNames :
        LET fresh == names \ DOMAIN codes
            count == Cardinality(fresh) IN
        \E place \in Bijection(fresh, 0..(count - 1)) :
          IF validateAgainst(assign(fresh, place), next_code + count, codes, next_code)
          THEN /\ codes' = assign(fresh, place)
               /\ next_code' = next_code + count
               /\ accepted' = TRUE /\ known' = names
               /\ UNCHANGED edited
          ELSE RefuseRun(names)
  BY DEF Generate
<1> DEFINE fresh == names \ DOMAIN codes
           count == Cardinality(fresh)
<1>2. PICK place \in Bijection(fresh, 0..(count - 1)) :
        IF validateAgainst(assign(fresh, place), next_code + count, codes, next_code)
        THEN /\ codes' = assign(fresh, place)
             /\ next_code' = next_code + count
             /\ accepted' = TRUE /\ known' = names
             /\ UNCHANGED edited
        ELSE RefuseRun(names)
  BY <1>1
<1>3. count \in Nat
  <2>1. fresh \in SUBSET ErrorNames
    OBVIOUS
  <2> QED  BY <2>1, ErrorCodesAssumption, FS_Subset, FS_CardinalityType
<1> HIDE DEF count
<1>4. CASE validateAgainst(assign(fresh, place), next_code + count, codes, next_code)
  <2>1. /\ DOMAIN codes' = DOMAIN codes \union fresh
        /\ \A n \in DOMAIN codes : codes'[n] = codes[n]
    BY <1>2, <1>4 DEF assign
  <2>2. validateState(codes', next_code')
    BY <1>2, <1>4 DEF validateAgainst
  <2>3. next_code' \in Nat /\ edited' = edited /\ known' = names
    BY <1>2, <1>3, <1>4 DEF CodesInv
  <2> QED  BY <2>1, <2>2, <2>3 DEF CodesInv, validateState
<1>5. CASE ~validateAgainst(assign(fresh, place), next_code + count, codes, next_code)
  BY <1>2, <1>5 DEF CodesInv, RefuseRun
<1> QED  BY <1>4, <1>5

LEMMA CodesStepInv == CodesInv /\ [LockNext]_lockVars => CodesInv'
<1> SUFFICES ASSUME CodesInv, [LockNext]_lockVars PROVE CodesInv'
  OBVIOUS
<1>1. CASE Edit
  BY <1>1, ErrorCodesAssumption DEF Edit, CodesInv
<1>2. CASE GenerateRefused
  BY <1>2 DEF GenerateRefused, RefuseRun, CodesInv
<1>3. CASE Generate
  BY <1>3, GenerateKeeps
<1>4. CASE UNCHANGED lockVars
  BY <1>4 DEF lockVars, CodesInv, validateState
<1> QED  BY <1>1, <1>2, <1>3, <1>4 DEF LockNext

\* As many names as codes below the next one, no two with the same code: every
\* code below the next one has a name.
LEMMA NoGaps ==
  ASSUME NEW table, NEW next \in Nat, validateState(table, next)
  PROVE  {table[n] : n \in DOMAIN table} = 1..(next - 1)
<1> DEFINE f == [n \in DOMAIN table |-> table[n]]
<1>1. f \in Injection(DOMAIN table, 1..(next - 1))
  BY DEF validateState, Injection, IsInjective
<1>2. IsFiniteSet(1..(next - 1)) /\ Cardinality(1..(next - 1)) = next - 1
  BY FS_Interval DEF validateState
<1>3. Cardinality(DOMAIN table) = Cardinality(1..(next - 1))
  BY <1>2 DEF validateState
<1>4. f \in Surjection(DOMAIN table, 1..(next - 1))
  BY <1>1, <1>2, <1>3, FS_Injection
<1>5. \A c \in 1..(next - 1) : \E n \in DOMAIN table : table[n] = c
  BY <1>4 DEF Surjection
<1>6. \A n \in DOMAIN table : table[n] \in 1..(next - 1)
  BY DEF validateState
<1> QED  BY <1>5, <1>6

\* For every set of names and every range of codes: through any number of runs
\* since the table was last edited, the table a run writes only appends to the
\* edited one, whatever it was.
THEOREM RunsOnlyAppend == LockSpec => []CodesAppendOnly
<1>1. CodesInv => CodesAppendOnly
  <2> SUFFICES ASSUME CodesInv, accepted
               PROVE  /\ \A m, n \in DOMAIN codes : codes[m] = codes[n] => m = n
                      /\ {codes[n] : n \in DOMAIN codes} = 1..(next_code - 1)
    BY DEF CodesInv, CodesAppendOnly
  <2>1. validateState(codes, next_code) /\ next_code \in Nat
    BY DEF CodesInv
  <2> QED  BY <2>1, NoGaps DEF validateState
<1> QED  BY <1>1, LockInitInv, CodesStepInv, PTL DEF LockSpec

-----------------------------------------------------------------------------
(***************************************************************************)
(* Publishing.  What a run has done so far is known from its stage and     *)
(* from what is left in it; a run that stopped is remembered by the        *)
(* artifacts it left, which no manifest names.                             *)
(***************************************************************************)
PublishTypes ==
  /\ generated \subseteq Outputs /\ binding \in 1..MaxBindings
  /\ source \in [Outputs -> 0..Own]
  /\ manifest \subseteq Outputs /\ todo \subseteq Outputs
  /\ stage \in {"idle", "copy", "prune", "sweep", "manifest"}
  /\ published \in BOOLEAN
  /\ strays \subseteq Outputs /\ foreign \subseteq Outputs

\* A run knows the manifest it began with, and ends unpublished until its last
\* stage is over.
RunKnowsManifest ==
  stage # "idle" => previous = manifest /\ ~published

\* What is left to copy are files of the tree, what is left to prune or to sweep
\* are not: files of the old manifest, then files with the marker.
TodoMatchesStage ==
  /\ stage = "copy" => todo \subseteq generated
  /\ stage = "prune" => todo \subseteq manifest \ generated
  /\ stage = "sweep" => todo \subseteq Marked \ generated

\* The tree is there but for what is left to copy, and no other file of the old
\* manifest or with the marker is there but for what is left to remove.
StageIsDone ==
  /\ stage = "copy" => \A p \in generated \ todo : source[p] = binding
  /\ stage \in {"prune", "sweep", "manifest"} => \A p \in generated : source[p] = binding
  /\ stage = "prune" => Present(manifest \ generated) \subseteq todo
  /\ stage \in {"sweep", "manifest"} => Present(manifest \ generated) = {}
  /\ stage = "sweep" => Marked \ generated \subseteq todo
  /\ stage = "manifest" => Marked \ generated = {}

\* An artifact of some tree is one the manifest names, one a run under way may
\* have copied, or a stray.
ArtifactsAccounted ==
  \A p \in Artifacts : source[p] \notin {Absent, Own} =>
    p \in strays \union manifest \union (IF stage = "idle" THEN {} ELSE generated)

\* A file nobody has named is on no path of the tree or of the manifest.
ForeignUnnamed ==
  /\ foreign \intersect (generated \union manifest) = {}
  /\ \A p \in foreign : source[p] = Own

PublishInv ==
  /\ PublishTypes /\ RunKnowsManifest /\ TodoMatchesStage /\ StageIsDone
  /\ ArtifactsAccounted /\ ForeignUnnamed /\ PublishedPassesCheck

LEMMA PublishInitInv == PublishInit => PublishInv
  <1> SUFFICES ASSUME PublishInit PROVE PublishInv
    OBVIOUS
  <1> USE PublishingAssumption DEF PublishInit, Absent, Own
  <1>0. source \in [Outputs -> 0..Own] /\ binding \in 1..MaxBindings
    OBVIOUS
  <1>1. PublishTypes
    BY <1>0 DEF PublishTypes
  <1>2. RunKnowsManifest /\ TodoMatchesStage /\ StageIsDone
    BY DEF RunKnowsManifest, TodoMatchesStage, StageIsDone
  <1>3. ArtifactsAccounted /\ ForeignUnnamed /\ PublishedPassesCheck
    BY DEF ArtifactsAccounted, ForeignUnnamed, PublishedPassesCheck, Outputs
  <1> QED
    BY <1>1, <1>2, <1>3 DEF PublishInv

LEMMA PublishNextInv == PublishInv /\ [PublishNext]_publishVars => PublishInv'
  <1> SUFFICES ASSUME PublishInv, [PublishNext]_publishVars PROVE PublishInv'
    OBVIOUS
  <1> USE PublishingAssumption DEF PublishInv
  <1> USE DEF PublishTypes, RunKnowsManifest, TodoMatchesStage, StageIsDone,
              ArtifactsAccounted, ForeignUnnamed, PublishedPassesCheck, compare,
              Present, Marked, Absent, Own, Outputs
  <1>1. CASE GenerateTree
    <2> USE <1>1 DEF GenerateTree
    <2>0. source' \in [Outputs -> 0..Own] /\ binding' \in 1..MaxBindings
      OBVIOUS
    <2>1. PublishTypes'
      BY <2>0
    <2>2. (RunKnowsManifest /\ TodoMatchesStage /\ StageIsDone)'
      OBVIOUS
    <2>3. (ArtifactsAccounted /\ ForeignUnnamed /\ PublishedPassesCheck)'
      OBVIOUS
    <2> QED
      BY <2>1, <2>2, <2>3
  <1>2. ASSUME NEW p \in Outputs, Discard(p) PROVE PublishInv'
    <2> USE <1>2 DEF Discard
    <2>0. source' \in [Outputs -> 0..Own] /\ binding' \in 1..MaxBindings
      OBVIOUS
    <2>1. PublishTypes'
      BY <2>0
    <2>2. (RunKnowsManifest /\ TodoMatchesStage /\ StageIsDone)'
      OBVIOUS
    <2>3. (ArtifactsAccounted /\ ForeignUnnamed /\ PublishedPassesCheck)'
      OBVIOUS
    <2> QED
      BY <2>1, <2>2, <2>3
  <1>3. ASSUME NEW p \in Outputs, Author(p) PROVE PublishInv'
    <2> USE <1>3 DEF Author
    <2>0. source' \in [Outputs -> 0..Own] /\ binding' \in 1..MaxBindings
      OBVIOUS
    <2>1. PublishTypes'
      BY <2>0
    <2>2. (RunKnowsManifest /\ TodoMatchesStage /\ StageIsDone)'
      OBVIOUS
    <2>3. (ArtifactsAccounted /\ ForeignUnnamed /\ PublishedPassesCheck)'
      OBVIOUS
    <2> QED
      BY <2>1, <2>2, <2>3
  <1>4. CASE BeginPublish
    BY <1>4 DEF BeginPublish
  <1>5. ASSUME NEW p \in Outputs, Copy(p) PROVE PublishInv'
    <2> USE <1>5 DEF Copy
    <2>0. source' \in [Outputs -> 0..Own] /\ binding' \in 1..MaxBindings
      OBVIOUS
    <2>1. PublishTypes'
      BY <2>0
    <2>2. (RunKnowsManifest /\ TodoMatchesStage /\ StageIsDone)'
      OBVIOUS
    <2>3. (ArtifactsAccounted /\ ForeignUnnamed /\ PublishedPassesCheck)'
      OBVIOUS
    <2> QED
      BY <2>1, <2>2, <2>3
  <1>6. ASSUME NEW p \in Outputs, Prune(p) PROVE PublishInv'
    <2> USE <1>6 DEF Prune
    <2>0. source' \in [Outputs -> 0..Own] /\ binding' \in 1..MaxBindings
      OBVIOUS
    <2>1. PublishTypes'
      BY <2>0
    <2>2. (RunKnowsManifest /\ TodoMatchesStage /\ StageIsDone)'
      OBVIOUS
    <2>3. (ArtifactsAccounted /\ ForeignUnnamed /\ PublishedPassesCheck)'
      OBVIOUS
    <2> QED
      BY <2>1, <2>2, <2>3
  <1>7. CASE NextStage
    <2>1. CASE stage = "copy"
      <3>1. stage' = "prune" /\ todo' = manifest \ generated /\ manifest' = manifest
        BY <1>7, <2>1 DEF NextStage, StageAfter, Work
      <3> QED
        BY <1>7, <2>1, <3>1 DEF NextStage
    <2>2. CASE stage = "prune"
      <3>1. stage' = "sweep" /\ todo' = Marked \ generated /\ manifest' = manifest
        BY <1>7, <2>2 DEF NextStage, StageAfter, Work
      <3> QED
        BY <1>7, <2>2, <3>1 DEF NextStage
    <2>3. CASE stage = "sweep"
      <3>1. stage' = "manifest" /\ todo' = {} /\ manifest' = manifest
        BY <1>7, <2>3 DEF NextStage, StageAfter, Work
      <3> QED
        BY <1>7, <2>3, <3>1 DEF NextStage
    <2>4. CASE stage = "manifest"
      <3>1. stage' = "idle" /\ todo' = {} /\ manifest' = generated /\ published' = TRUE
        BY <1>7, <2>4 DEF NextStage, StageAfter, Work
      <3>2. (PublishTypes /\ RunKnowsManifest /\ TodoMatchesStage /\ StageIsDone)'
        BY <1>7, <2>4, <3>1 DEF NextStage
      <3>3. (ArtifactsAccounted /\ ForeignUnnamed)'
        BY <1>7, <2>4, <3>1 DEF NextStage
      <3>4. PublishedPassesCheck'
        BY <1>7, <2>4, <3>1 DEF NextStage
      <3> QED
        BY <3>2, <3>3, <3>4
    <2> QED
      BY <1>7, <2>1, <2>2, <2>3, <2>4 DEF NextStage
  <1>8. CASE Stop
    BY <1>8 DEF Stop
  <1>9. CASE UNCHANGED publishVars
    BY <1>9 DEF publishVars
  <1> QED
    BY <1>1, <1>2, <1>3, <1>4, <1>5, <1>6, <1>7, <1>8, <1>9 DEF PublishNext

\* Whatever earlier runs stopped at and whatever was discarded or written between
\* them: after a run that ended the check finds nothing, what is left over is a
\* stray or somebody's own, and no run removes a file nobody has named.
THEOREM PublishedTreePassesCheck == PublishSpec => []PublishedPassesCheck
  <1>1. PublishInv => PublishedPassesCheck
    BY DEF PublishInv
  <1> QED
    BY PublishInitInv, PublishNextInv, <1>1, PTL DEF PublishSpec
=============================================================================
