------------------------ MODULE Configuration_proofs ------------------------
(***************************************************************************)
(* What the console's checks guarantee, for any number of rows.            *)
(***************************************************************************)
EXTENDS MCConfig, FiniteSetTheorems, TLAPS

(***************************************************************************)
(* Recording policies: the types of the requests.                          *)
(***************************************************************************)
EditRequests ==
    {r \in [kind : {"edit"}, camera : Cameras, patch : Patches, was : PolicyIds \cup {None},
            want : Settings \cup {None}, target : PolicyIds \cup {None}, name : Names \cup {None},
            step : {"check", "lock", "read", "match", "own", "count", "inplace",
                    "mint", "pin", "reap", "commit"}] :
        /\ r.step \notin {"check", "lock", "read"} => r.want \in Settings /\ r.was \in PolicyIds
        /\ r.step \in {"count", "inplace"} => r.name \in Names /\ r.was # Default
        /\ r.step = "pin" => r.target \in PolicyIds}
AssignRequests ==
    [kind : {"assign"}, step : {"find", "require", "set"}, camera : Cameras, policy : PolicyIds]
UpdateRequests ==
    {r \in [kind : {"update"}, step : {"read", "write", "promote"}, policy : PolicyIds, patch : Patches,
            name : Names \cup {Keep}, old : Names \cup {None}, want : Settings \cup {None}] :
        r.step = "write" => /\ r.want \in Settings /\ r.name \in Names
                            /\ r.policy = Default => r.name = "Default"}
CreateRequests ==
    {r \in [kind : {"create"}, step : {"base", "insert"}, patch : Patches, name : OperatorNames,
            want : Settings \cup {None}] : r.step = "insert" => r.want \in Settings}
DeleteRequests == [kind : {"delete"}, step : {"read", "delete"}, policy : PolicyIds \ {Default}]
GroupRequests ==
    {r \in [kind : {"group"}, step : {"read", "require", "commit"}, group : Groups,
            policy : PolicyIds \cup {Inherit, Keep}, seats : (SUBSET Cameras) \cup {None}] :
        /\ r.step # "read" => r.policy # Keep
        /\ r.step = "commit" => r.seats \in SUBSET Cameras}
MemberRequests ==
    {r \in [kind : {"members"}, step : {"read", "pin", "commit"}, group : Groups,
            cameras : SUBSET Cameras, policy : PolicyIds \cup {Inherit, None},
            seats : [Cameras -> Groups \cup {None}] \cup {None}] :
        r.step = "commit" => r.policy \in PolicyIds /\ r.seats \in [Cameras -> Groups \cup {None}]}
NewGroupRequests ==
    [kind : {"newgroup"}, step : {"find"}, group : Groups, cameras : SUBSET Cameras,
     policy : PolicyIds \cup {Inherit}, seats : {None}]
CameraRequests == [kind : {"newcamera", "delcamera"}, step : {"run"}, camera : Cameras]
DelGroupRequests == [kind : {"delgroup"}, step : {"run"}, group : Groups]

TypedRequests ==
    {Idle} \cup EditRequests \cup AssignRequests \cup UpdateRequests \cup CreateRequests
    \cup DeleteRequests \cup GroupRequests \cup MemberRequests \cup NewGroupRequests
    \cup CameraRequests \cup DelGroupRequests

RowsOK == TypeOK /\ policies[Default].name = "Default"
TypeInv == RowsOK /\ req \in [Admins -> TypedRequests]

LEMMA RequestKinds ==
    ASSUME NEW r \in TypedRequests
    PROVE  /\ r.kind = "edit" => r \in EditRequests
           /\ r.kind = "assign" => r \in AssignRequests
           /\ r.kind = "update" => r \in UpdateRequests
           /\ r.kind = "create" => r \in CreateRequests
           /\ r.kind = "delete" => r \in DeleteRequests
           /\ r.kind = "group" => r \in GroupRequests
           /\ r.kind = "members" => r \in MemberRequests
           /\ r.kind = "newgroup" => r \in NewGroupRequests
           /\ r.kind \in {"newcamera", "delcamera"} => r \in CameraRequests
           /\ r.kind = "delgroup" => r \in DelGroupRequests
  BY DEF TypedRequests, Idle, EditRequests, AssignRequests, UpdateRequests, CreateRequests,
     DeleteRequests, GroupRequests, MemberRequests, NewGroupRequests, CameraRequests, DelGroupRequests

\* A row that is written or inserted keeps the tables sound.
LEMMA PutPolicy ==
    ASSUME PoliciesAssumption, RowsOK, NEW p \in PolicyIds, NEW row \in Policy,
           p = Default => row.name = "Default",
           policies' = [policies EXCEPT ![p] = row],
           UNCHANGED <<policyOf, groupPolicy, groupOf>>
    PROVE  RowsOK'
  BY DEF PoliciesAssumption, RowsOK, TypeOK, Exists, Live

\* So do rows that go while nothing refers to them.
LEMMA DropPolicies ==
    ASSUME PoliciesAssumption, RowsOK, NEW S, Default \notin S, \A p \in S : References(p) = {},
           policies' = [p \in PolicyIds |-> IF p \in S THEN None ELSE policies[p]],
           UNCHANGED <<policyOf, groupPolicy, groupOf>>
    PROVE  RowsOK'
<1> USE DEF PoliciesAssumption, RowsOK, TypeOK, Exists, Live
<1>1. \A c \in Cameras : policyOf[c] \notin S
  BY DEF References, Users
<1>2. \A g \in Groups : groupPolicy[g] \notin S
  BY DEF References
<1>3. policies' \in [PolicyIds -> Policy \cup {None}] /\ policies'[Default] = policies[Default]
  OBVIOUS
<1>4. policyOf' \in [Cameras -> Live' \cup {None}]
  BY <1>1
<1>5. groupPolicy' \in [Groups -> Live' \cup {Inherit, None}]
  BY <1>2
<1>6. groupOf' \in [Cameras -> {g \in Groups : groupPolicy'[g] # None} \cup {None}]
  OBVIOUS
<1> QED BY <1>3, <1>4, <1>5, <1>6

\* There is always a free name to mint.
LEMMA FreeName ==
    ASSUME PoliciesAssumption, NamesAssumption, RowsOK, NEW new \in PolicyIds \ Live
    PROVE  (CHOOSE n \in AutoNames : ~NameTaken(n, None)) \in AutoNames
<1> USE DEF PoliciesAssumption, RowsOK, TypeOK, Exists, Live
<1> DEFINE f == [p \in PolicyIds \ {Default} |->
        IF Exists(p) /\ policies[p].name \in AutoNames THEN policies[p].name ELSE None]
<1>1. f \in [PolicyIds \ {Default} -> AutoNames \cup {None}]
  OBVIOUS
<1>2. new \in PolicyIds \ {Default} /\ f[new] = None
  OBVIOUS
<1> HIDE DEF f
<1>3. PICK n \in AutoNames : \A p \in PolicyIds \ {Default} : f[p] # n
  BY <1>1, <1>2 DEF NamesAssumption
<1>4. ~NameTaken(n, None)
  BY <1>3 DEF f, NameTaken, NamesAssumption
<1> QED BY <1>4

LEMMA SameRows ==
    ASSUME RowsOK, UNCHANGED rows PROVE RowsOK'
  BY DEF RowsOK, TypeOK, rows, Exists, Live

LEMMA Put ==
    ASSUME req \in [Admins -> TypedRequests], NEW a \in Admins, NEW n \in TypedRequests,
           req' = [req EXCEPT ![a] = n]
    PROVE  req' \in [Admins -> TypedRequests]
  OBVIOUS

LEMMA Answered ==
    ASSUME req \in [Admins -> TypedRequests], NEW a \in Admins, Answer(a)
    PROVE  req' \in [Admins -> TypedRequests]
  BY Put DEF Answer, TypedRequests

LEMMA Gone ==
    ASSUME req \in [Admins -> TypedRequests], NEW a \in Admins, NEW s, Go(a, s),
           [req[a] EXCEPT !.step = s] \in TypedRequests
    PROVE  req' \in [Admins -> TypedRequests]
  BY Put DEF Go

\* What a session asks for is well formed.
LEMMA RequestsTyped ==
    ASSUME PoliciesAssumption, RowsOK PROVE Requests \subseteq TypedRequests
<1> SUFFICES ASSUME NEW r \in Requests PROVE r \in TypedRequests
  OBVIOUS
<1>1. Live \subseteq PolicyIds
  BY DEF Live
<1> USE DEF PoliciesAssumption
<1>2. r.kind = "edit" => r \in EditRequests
  BY <1>1 DEF Requests, EditRequests, Names
<1>3. r.kind = "assign" => r \in AssignRequests
  BY <1>1 DEF Requests, AssignRequests, Names
<1>4. r.kind = "update" => r \in UpdateRequests
  BY <1>1 DEF Requests, UpdateRequests, Names
<1>5. r.kind = "create" => r \in CreateRequests
  BY <1>1 DEF Requests, CreateRequests, Names
<1>6. r.kind = "delete" => r \in DeleteRequests
  BY <1>1 DEF Requests, DeleteRequests, Names
<1>7. r.kind = "group" => r \in GroupRequests
  <2> HAVE r.kind = "group"
  <2>1. r \in [kind : {"group"}, step : {"read"}, group : Groups,
                policy : Live \cup {Inherit, Keep}, seats : {None}]
    BY DEF Requests
  <2>2. r.policy \in PolicyIds \cup {Inherit, Keep}
    BY <1>1, <2>1
  <2> QED BY <2>1, <2>2 DEF GroupRequests
<1>8. r.kind = "members" => r \in MemberRequests
  BY <1>1 DEF Requests, MemberRequests, Names
<1>9. r.kind = "newgroup" => r \in NewGroupRequests
  BY <1>1 DEF Requests, NewGroupRequests, Names
<1>10. r.kind = "delgroup" => r \in DelGroupRequests
  BY <1>1 DEF Requests, DelGroupRequests, Names
<1>11. r.kind \in {"newcamera", "delcamera"} => r \in CameraRequests
  BY DEF Requests, CameraRequests
<1>12. r.kind \in {"edit", "assign", "update", "create", "delete", "group", "members", "newgroup", "delgroup", "newcamera", "delcamera"}
  BY DEF Requests
<1> QED BY <1>2, <1>3, <1>4, <1>5, <1>6, <1>7, <1>8, <1>9, <1>10, <1>11, <1>12 DEF TypedRequests

LEMMA PatchedTyped ==
    ASSUME NEW s \in Settings, NEW patch \in Patches PROVE Patched(s, patch) \in Settings
  BY DEF Patched, Settings, Patches

LEMMA EditTyped ==
    ASSUME PoliciesAssumption, NamesAssumption, TypeInv, NEW a \in Admins, Edit(a)
    PROVE  TypeInv'
<1> DEFINE r == req[a]
<1> USE DEF TypeInv, PoliciesAssumption
<1>0. r \in TypedRequests
  OBVIOUS
<1>1. CASE EditCheck(a)
  <2>1. UNCHANGED rows /\ r \in EditRequests /\ r.step = "check"
    BY <1>0, <1>1, RequestKinds DEF EditCheck, At, rows
  <2>2. [r EXCEPT !.step = "lock"] \in TypedRequests
    BY <2>1 DEF EditRequests, TypedRequests
  <2> QED BY <1>1, <2>1, <2>2, SameRows, Answered, Gone DEF EditCheck
<1>3. CASE EditLock(a)
  <2>1. UNCHANGED rows /\ r \in EditRequests /\ r.step = "lock"
    BY <1>0, <1>3, RequestKinds DEF EditLock, At, rows
  <2>2. [r EXCEPT !.step = "read"] \in TypedRequests
    BY <2>1 DEF EditRequests, TypedRequests
  <2> QED BY <1>3, <2>1, <2>2, SameRows, Answered, Gone DEF EditLock
<1>4. CASE EditRead(a)
  <2>1. UNCHANGED rows /\ r \in EditRequests /\ r.step = "read"
    BY <1>0, <1>4, RequestKinds DEF EditRead, At, rows
  <2> DEFINE was == policyOf[r.camera]
             n == [r EXCEPT !.step = "match", !.was = was,
                            !.want = Patched(policies[was].settings, r.patch)]
  <2>2. CASE was = None
    BY <1>4, <2>1, <2>2, SameRows, Answered DEF EditRead
  <2>3. CASE was # None
    <3>1. was \in PolicyIds /\ policies[was].settings \in Settings /\ r.patch \in Patches
      BY <2>1, <2>3 DEF RowsOK, TypeOK, EditRequests, Live, Exists, Policy
    <3>2. Patched(policies[was].settings, r.patch) \in Settings
      BY <3>1, PatchedTyped
    <3>3. n \in EditRequests
      BY <2>1, <3>1, <3>2 DEF EditRequests
    <3>4. req' = [req EXCEPT ![a] = n]
      BY <1>4, <2>3 DEF EditRead
    <3> QED BY <2>1, <3>3, <3>4, SameRows, Put DEF TypedRequests
  <2> QED BY <2>2, <2>3
<1>5. CASE EditMatch(a)
  <2>1. UNCHANGED rows /\ r \in EditRequests /\ r.step = "match"
    BY <1>0, <1>5, RequestKinds DEF EditMatch, At, rows
  <2>2. CASE Go(a, "own") \/ Go(a, "commit")
    <3>1. [r EXCEPT !.step = "own"] \in TypedRequests /\ [r EXCEPT !.step = "commit"] \in TypedRequests
      BY <2>1 DEF EditRequests, TypedRequests
    <3> QED BY <2>1, <2>2, <3>1, SameRows, Gone
  <2>3. ASSUME NEW p \in Preferred(Matching(r.want)), req' = [req EXCEPT ![a].step = "pin", ![a].target = p]
        PROVE  TypeInv'
    <3>1. p \in PolicyIds
      BY <2>3 DEF Preferred, Matching, Live, RowsOK, TypeOK
    <3>2. [r EXCEPT !.step = "pin", !.target = p] \in EditRequests
      BY <2>1, <3>1 DEF EditRequests
    <3>3. req' = [req EXCEPT ![a] = [r EXCEPT !.step = "pin", !.target = p]]
      BY <2>3
    <3> QED BY <2>1, <3>2, <3>3, SameRows, Put DEF TypedRequests
  <2> QED BY <1>5, <2>2, <2>3 DEF EditMatch
<1>6. CASE EditOwn(a)
  <2>1. UNCHANGED rows /\ r \in EditRequests /\ r.step = "own" /\ r.was \in PolicyIds
    BY <1>0, <1>6, RequestKinds DEF EditOwn, At, rows, EditRequests
  <2>2. CASE Answer(a)
    BY <2>1, <2>2, SameRows, Answered
  <2>3. CASE Go(a, "mint")
    <3>1. [r EXCEPT !.step = "mint"] \in TypedRequests
      BY <2>1 DEF EditRequests, TypedRequests
    <3> QED BY <2>1, <2>3, <3>1, SameRows, Gone
  <2> DEFINE n == [r EXCEPT !.step = "count", !.name = policies[r.was].name]
  <2>4. CASE Exists(r.was) /\ r.was # Default /\ req' = [req EXCEPT ![a] = n]
    <3>1. policies[r.was].name \in Names
      BY <2>1, <2>4 DEF RowsOK, TypeOK, Exists, Policy
    <3>2. n \in EditRequests
      BY <2>1, <2>4, <3>1 DEF EditRequests
    <3> QED BY <2>1, <2>4, <3>2, SameRows, Put DEF TypedRequests
  <2> QED BY <1>6, <2>2, <2>3, <2>4 DEF EditOwn
<1>7. CASE EditCount(a)
  <2>1. UNCHANGED rows /\ r \in EditRequests /\ r.step = "count"
    BY <1>0, <1>7, RequestKinds DEF EditCount, At, rows
  <2>2. [r EXCEPT !.step = "inplace"] \in TypedRequests
    BY <2>1 DEF EditRequests, TypedRequests
  <2>3. [r EXCEPT !.step = "mint"] \in TypedRequests
    BY <2>1 DEF EditRequests, TypedRequests
  <2> QED BY <1>7, <2>1, <2>2, <2>3, SameRows, Answered, Gone DEF EditCount
<1>8. CASE EditInPlace(a)
  <2>1. /\ r \in EditRequests /\ r.step = "inplace" /\ UNCHANGED <<policyOf, groupPolicy, groupOf>>
        /\ r.was \in PolicyIds \ {Default} /\ r.want \in Settings /\ r.name \in Names
    BY <1>0, <1>8, RequestKinds DEF EditInPlace, At, EditRequests
  <2>2. CASE Answer(a) /\ UNCHANGED policies
    BY <2>1, <2>2, SameRows, Answered DEF rows
  <2> DEFINE row == [policies[r.was] EXCEPT !.settings = r.want, !.name = r.name]
  <2>3. CASE Exists(r.was) /\ policies' = [policies EXCEPT ![r.was] = row] /\ Go(a, "commit")
    <3>0. policies[r.was] \in Policy
      BY <2>1, <2>3 DEF RowsOK, TypeOK, Exists
    <3>1. row \in Policy
      BY <2>1, <3>0 DEF Policy
    <3>2. RowsOK'
      BY <2>1, <2>3, <3>1, PutPolicy
    <3>3. [r EXCEPT !.step = "commit"] \in TypedRequests
      BY <2>1 DEF EditRequests, TypedRequests
    <3> QED BY <2>3, <3>2, <3>3, Gone
  <2> QED BY <1>8, <2>2, <2>3 DEF EditInPlace
<1>9. CASE EditMint(a)
  <2>1. /\ r \in EditRequests /\ r.step = "mint" /\ UNCHANGED <<policyOf, groupPolicy, groupOf>>
        /\ r.want \in Settings
    BY <1>0, <1>9, RequestKinds DEF EditMint, At, EditRequests
  <2> DEFINE name == CHOOSE n \in AutoNames : ~NameTaken(n, None)
             row == [settings |-> r.want, origin |-> "deviation", name |-> name]
  <2>2. PICK new \in Unused : /\ policies' = [policies EXCEPT ![new] = row]
                              /\ req' = [req EXCEPT ![a].step = "pin", ![a].target = new]
    BY <1>9 DEF EditMint
  <2>3. new \in PolicyIds \ Live /\ new # Default
    BY DEF Unused, RowsOK, TypeOK, Live
  <2>4. name \in AutoNames
    BY <2>3, FreeName
  <2>5. row \in Policy
    BY <2>1, <2>4 DEF Policy, Names
  <2>6. RowsOK'
    BY <2>1, <2>2, <2>3, <2>5, PutPolicy
  <2>7. [r EXCEPT !.step = "pin", !.target = new] \in EditRequests
    BY <2>1, <2>3 DEF EditRequests
  <2>8. req' = [req EXCEPT ![a] = [r EXCEPT !.step = "pin", !.target = new]]
    BY <2>2
  <2> QED BY <2>6, <2>7, <2>8, Put DEF TypedRequests
<1>10. CASE EditPin(a)
  <2>1. /\ r \in EditRequests /\ r.step = "pin" /\ UNCHANGED <<policies, groupPolicy, groupOf>>
        /\ r.target \in PolicyIds /\ r.camera \in Cameras
    BY <1>0, <1>10, RequestKinds DEF EditPin, At, EditRequests
  <2>2. CASE Answer(a) /\ UNCHANGED policyOf
    BY <2>1, <2>2, SameRows, Answered DEF rows
  <2>3. CASE Exists(r.target) /\ SetCameraPolicy(r.camera, r.target) /\ Go(a, "reap")
    <3>1. RowsOK'
      BY <2>1, <2>3 DEF SetCameraPolicy, RowsOK, TypeOK, Live, Exists
    <3>2. [r EXCEPT !.step = "reap"] \in TypedRequests
      BY <2>1 DEF EditRequests, TypedRequests
    <3> QED BY <2>3, <3>1, <3>2, Gone
  <2> QED BY <1>10, <2>2, <2>3 DEF EditPin
<1>11. CASE EditReap(a)
  <2>1. r \in EditRequests /\ r.step = "reap" /\ r.was \in PolicyIds
    BY <1>0, <1>11, RequestKinds DEF EditReap, At, EditRequests
  <2> DEFINE S == IF OrphanDeviation(r.was) THEN {r.was} ELSE {}
  <2>2. policies' = [p \in PolicyIds |-> IF p \in S THEN None ELSE policies[p]]
    BY <1>11, <2>1 DEF EditReap, RowsOK, TypeOK
  <2>3. RowsOK'
    BY <1>11, <2>2, DropPolicies DEF EditReap, OrphanDeviation
  <2>4. [r EXCEPT !.step = "commit"] \in TypedRequests
    BY <2>1 DEF EditRequests, TypedRequests
  <2> QED BY <1>11, <2>3, <2>4, Gone DEF EditReap
<1>12. CASE EditCommit(a)
  BY <1>12, SameRows, Answered DEF EditCommit, rows
<1> QED BY <1>1, <1>3, <1>4, <1>5, <1>6, <1>7, <1>8, <1>9, <1>10, <1>11, <1>12 DEF Edit

LEMMA AssignTyped ==
    ASSUME PoliciesAssumption, NamesAssumption, TypeInv, NEW a \in Admins, AssignFind(a) \/ AssignRequire(a) \/ AssignSet(a)
    PROVE  TypeInv'
<1> DEFINE r == req[a]
<1> USE DEF TypeInv, PoliciesAssumption
<1>0. r \in TypedRequests
  OBVIOUS
<1>1. CASE AssignFind(a)
  <2>1. UNCHANGED rows /\ r \in AssignRequests /\ r.step = "find"
    BY <1>0, <1>1, RequestKinds DEF AssignFind, At, rows
  <2>2. [r EXCEPT !.step = "require"] \in TypedRequests
    BY <2>1 DEF AssignRequests, TypedRequests
  <2> QED BY <1>1, <2>1, <2>2, SameRows, Answered, Gone DEF AssignFind
<1>2. CASE AssignRequire(a)
  <2>1. UNCHANGED rows /\ r \in AssignRequests /\ r.step = "require"
    BY <1>0, <1>2, RequestKinds DEF AssignRequire, At, rows
  <2>2. [r EXCEPT !.step = "set"] \in TypedRequests
    BY <2>1 DEF AssignRequests, TypedRequests
  <2> QED BY <1>2, <2>1, <2>2, SameRows, Answered, Gone DEF AssignRequire
<1>3. CASE AssignSet(a)
  <2>1. r \in AssignRequests
    BY <1>0, <1>3, RequestKinds DEF AssignSet, At
  <2>2. RowsOK'
    BY <1>3, <2>1 DEF AssignSet, SetCameraPolicy, AssignRequests, RowsOK, TypeOK, Live, Exists
  <2> QED BY <1>3, <2>2, Answered DEF AssignSet
<1> QED BY <1>1, <1>2, <1>3

LEMMA UpdateTyped ==
    ASSUME PoliciesAssumption, NamesAssumption, TypeInv, NEW a \in Admins, UpdateRead(a) \/ UpdateWrite(a) \/ UpdatePromote(a)
    PROVE  TypeInv'
<1> DEFINE r == req[a]
<1> USE DEF TypeInv, PoliciesAssumption
<1>0. r \in TypedRequests
  OBVIOUS
<1>1. CASE UpdateRead(a)
  <2>1. UNCHANGED rows /\ r \in UpdateRequests /\ r.step = "read"
    BY <1>0, <1>1, RequestKinds DEF UpdateRead, At, rows
  <2> DEFINE p == r.policy
             name == IF p = Default \/ r.name = Keep THEN policies[p].name ELSE r.name
             want == Patched(policies[p].settings, r.patch)
             n == [r EXCEPT !.step = "write", !.old = policies[p].name, !.name = name, !.want = want]
  <2>2. CASE Answer(a)
    BY <2>1, <2>2, SameRows, Answered
  <2>3. CASE Exists(p) /\ req' = [req EXCEPT ![a] = n]
    <3>1. policies[p] \in Policy /\ r.patch \in Patches
      BY <2>1, <2>3 DEF UpdateRequests, RowsOK, TypeOK, Exists
    <3>2. name \in Names /\ policies[p].name \in Names /\ policies[p].settings \in Settings
      BY <2>1, <3>1 DEF Policy, UpdateRequests
    <3>3. want \in Settings
      BY <3>1, <3>2, PatchedTyped
    <3>4. p = Default => name = "Default"
      BY DEF RowsOK
    <3> HIDE DEF name, want
    <3>5. n \in UpdateRequests
      BY <2>1, <3>2, <3>3, <3>4 DEF UpdateRequests
    <3> QED BY <2>1, <2>3, <3>5, SameRows, Put DEF TypedRequests
  <2> QED BY <1>1, <2>2, <2>3 DEF UpdateRead
<1>2. CASE UpdateWrite(a)
  <2>1. /\ r \in UpdateRequests /\ r.policy \in PolicyIds /\ r.want \in Settings /\ r.name \in Names
        /\ r.policy = Default => r.name = "Default"
        /\ UNCHANGED <<policyOf, groupPolicy, groupOf>>
    BY <1>0, <1>2, RequestKinds DEF UpdateWrite, At, UpdateRequests
  <2>2. req' \in [Admins -> TypedRequests]
    <3>1. [r EXCEPT !.step = "promote"] \in TypedRequests
      BY <2>1 DEF UpdateRequests, TypedRequests
    <3> QED BY <1>2, <3>1, Answered, Gone DEF UpdateWrite
  <2> DEFINE row == [policies[r.policy] EXCEPT !.settings = r.want, !.name = r.name]
  <2>3. CASE UNCHANGED policies
    BY <2>1, <2>2, <2>3, SameRows DEF rows
  <2>4. CASE Exists(r.policy) /\ policies' = [policies EXCEPT ![r.policy] = row]
    <3>1. policies[r.policy] \in Policy
      BY <2>1, <2>4 DEF RowsOK, TypeOK, Exists
    <3>2. row \in Policy /\ row.name = r.name
      BY <2>1, <3>1 DEF Policy
    <3> QED BY <2>1, <2>2, <2>4, <3>2, PutPolicy
  <2> QED BY <1>2, <2>3, <2>4 DEF UpdateWrite
<1>3. CASE UpdatePromote(a)
  <2>1. r \in UpdateRequests /\ r.policy \in PolicyIds /\ UNCHANGED <<policyOf, groupPolicy, groupOf>>
    BY <1>0, <1>3, RequestKinds DEF UpdatePromote, At, UpdateRequests
  <2>2. req' \in [Admins -> TypedRequests]
    BY <1>3, Answered DEF UpdatePromote
  <2> DEFINE row == [policies[r.policy] EXCEPT !.origin = "operator"]
  <2>3. CASE UNCHANGED policies
    BY <2>1, <2>2, <2>3, SameRows DEF rows
  <2>4. CASE Exists(r.policy) /\ policies' = [policies EXCEPT ![r.policy] = row]
    <3>1. policies[r.policy] \in Policy
      BY <2>1, <2>4 DEF RowsOK, TypeOK, Exists
    <3>2. row \in Policy /\ row.name = policies[r.policy].name
      BY <3>1 DEF Policy
    <3>3. r.policy = Default => row.name = "Default"
      BY <3>2 DEF RowsOK
    <3> QED BY <2>1, <2>2, <2>4, <3>2, <3>3, PutPolicy
  <2> QED BY <1>3, <2>3, <2>4 DEF UpdatePromote
<1> QED BY <1>1, <1>2, <1>3

LEMMA CreateTyped ==
    ASSUME PoliciesAssumption, NamesAssumption, TypeInv, NEW a \in Admins, CreateBase(a) \/ CreateInsert(a) \/ DeleteCount(a) \/ DeletePolicy(a)
    PROVE  TypeInv'
<1> DEFINE r == req[a]
<1> USE DEF TypeInv, PoliciesAssumption
<1>0. r \in TypedRequests
  OBVIOUS
<1>1. CASE CreateBase(a)
  <2>1. UNCHANGED rows /\ r \in CreateRequests
    BY <1>0, <1>1, RequestKinds DEF CreateBase, At, rows
  <2> DEFINE want == Patched(policies[Default].settings, r.patch)
             n == [r EXCEPT !.step = "insert", !.want = want]
  <2>2. policies[Default] \in Policy
    BY DEF RowsOK, TypeOK, Exists
  <2>3. want \in Settings
    BY <2>1, <2>2, PatchedTyped DEF CreateRequests, Policy
  <2> HIDE DEF want
  <2>4. n \in CreateRequests
    BY <2>1, <2>3 DEF CreateRequests
  <2>5. req' = [req EXCEPT ![a] = n]
    BY <1>1 DEF CreateBase, want
  <2> QED BY <2>1, <2>4, <2>5, SameRows, Put DEF TypedRequests
<1>2. CASE CreateInsert(a)
  <2>1. r \in CreateRequests /\ r.want \in Settings /\ r.name \in Names
    BY <1>0, <1>2, RequestKinds DEF CreateInsert, At, CreateRequests, Names
  <2>2. req' \in [Admins -> TypedRequests] /\ UNCHANGED <<policyOf, groupPolicy, groupOf>>
    BY <1>2, Answered DEF CreateInsert
  <2> DEFINE row == [settings |-> r.want, origin |-> "operator", name |-> r.name]
  <2>3. CASE UNCHANGED policies
    BY <2>2, <2>3, SameRows DEF rows
  <2>4. ASSUME NEW new \in Unused, policies' = [policies EXCEPT ![new] = row] PROVE RowsOK'
    <3>1. new \in PolicyIds /\ new # Default
      BY DEF Unused, RowsOK, TypeOK, Live
    <3>2. row \in Policy
      BY <2>1 DEF Policy
    <3> QED BY <2>2, <2>4, <3>1, <3>2, PutPolicy
  <2> QED BY <1>2, <2>2, <2>3, <2>4 DEF CreateInsert
<1>3. CASE DeleteCount(a)
  <2>1. UNCHANGED rows /\ r \in DeleteRequests /\ r.step = "read"
    BY <1>0, <1>3, RequestKinds DEF DeleteCount, At, rows
  <2>2. [r EXCEPT !.step = "delete"] \in TypedRequests
    BY <2>1 DEF DeleteRequests, TypedRequests
  <2> QED BY <1>3, <2>1, <2>2, SameRows, Answered, Gone DEF DeleteCount
<1>4. CASE DeletePolicy(a)
  <2>1. r \in DeleteRequests /\ r.policy \in PolicyIds \ {Default} /\ UNCHANGED <<policyOf, groupPolicy, groupOf>>
    BY <1>0, <1>4, RequestKinds DEF DeletePolicy, At, DeleteRequests
  <2> DEFINE S == IF References(r.policy) = {} THEN {r.policy} ELSE {}
  <2>2. policies' = [p \in PolicyIds |-> IF p \in S THEN None ELSE policies[p]]
    BY <1>4, <2>1 DEF DeletePolicy, RowsOK, TypeOK
  <2>3. Default \notin S /\ \A p \in S : References(p) = {}
    BY <2>1
  <2> HIDE DEF S
  <2>4. RowsOK'
    BY <2>1, <2>2, <2>3, DropPolicies
  <2> QED BY <1>4, <2>4, Answered DEF DeletePolicy
<1> QED BY <1>1, <1>2, <1>3, <1>4

LEMMA GroupTyped ==
    ASSUME PoliciesAssumption, NamesAssumption, TypeInv, NEW a \in Admins, GroupRead(a) \/ GroupRequire(a) \/ GroupCommit(a)
    PROVE  TypeInv'
<1> DEFINE r == req[a]
<1> USE DEF TypeInv, PoliciesAssumption
<1>0. r \in TypedRequests
  OBVIOUS
<1>1. CASE GroupRead(a)
  <2>1. UNCHANGED rows /\ r \in GroupRequests
    BY <1>0, <1>1, RequestKinds DEF GroupRead, At, rows
  <2> DEFINE own == groupPolicy[r.group]
             pick == IF r.policy = Keep THEN own ELSE r.policy
             n == [r EXCEPT !.step = "require", !.policy = pick]
  <2>2. CASE Answer(a)
    BY <2>1, <2>2, SameRows, Answered
  <2>3. CASE own # None /\ req' = [req EXCEPT ![a] = n]
    <3>1. pick \in PolicyIds \cup {Inherit} /\ pick # Keep
      BY <2>1, <2>3 DEF GroupRequests, RowsOK, TypeOK, Live
    <3> HIDE DEF pick
    <3>2. n \in GroupRequests
      BY <2>1, <3>1 DEF GroupRequests
    <3> QED BY <2>1, <2>3, <3>2, SameRows, Put DEF TypedRequests
  <2> QED BY <1>1, <2>2, <2>3 DEF GroupRead
<1>2. CASE GroupRequire(a)
  <2>1. UNCHANGED rows /\ r \in GroupRequests /\ r.step = "require"
    BY <1>0, <1>2, RequestKinds DEF GroupRequire, At, rows
  <2> DEFINE n == [r EXCEPT !.step = "commit", !.seats = Grouped(r.group)]
  <2>2. Grouped(r.group) \in SUBSET Cameras
    BY DEF Grouped
  <2>3. n \in GroupRequests
    BY <2>1, <2>2 DEF GroupRequests
  <2>4. Answer(a) \/ req' = [req EXCEPT ![a] = n]
    BY <1>2 DEF GroupRequire
  <2> QED BY <2>1, <2>3, <2>4, SameRows, Answered, Put DEF TypedRequests
<1>3. CASE GroupCommit(a)
  <2>1. r \in GroupRequests /\ r.policy \in PolicyIds \cup {Inherit} /\ r.group \in Groups
    BY <1>0, <1>3, RequestKinds DEF GroupCommit, At, GroupRequests
  <2>2. Exists(PinOf(r.policy)) => r.policy \in Live \cup {Inherit} /\ PinOf(r.policy) \in Live
    BY <2>1 DEF PinOf, Live, Exists, RowsOK, TypeOK
  <2>3. RowsOK'
    BY <1>3, <2>1, <2>2 DEF GroupCommit, Pinned, RowsOK, TypeOK, Live, Exists
  <2> QED BY <1>3, <2>3, Answered DEF GroupCommit
<1> QED BY <1>1, <1>2, <1>3

LEMMA MembersTyped ==
    ASSUME PoliciesAssumption, NamesAssumption, TypeInv, NEW a \in Admins, NewGroup(a) \/ MembersRead(a) \/ MembersPin(a) \/ MembersCommit(a) \/ DelGroup(a)
    PROVE  TypeInv'
<1> DEFINE r == req[a]
<1> USE DEF TypeInv, PoliciesAssumption
<1>0. r \in TypedRequests
  OBVIOUS
<1>1. CASE NewGroup(a)
  <2>1. r \in NewGroupRequests
    BY <1>0, <1>1, RequestKinds DEF NewGroup, At
  <2>2. Exists(PinOf(r.policy)) => r.policy \in Live \cup {Inherit}
    BY <2>1 DEF NewGroupRequests, PinOf, Live
  <2>3. RowsOK'
    BY <1>1, <2>1, <2>2 DEF NewGroup, NewGroupRequests, RowsOK, TypeOK, Live, Exists
  <2> DEFINE n == [r EXCEPT !.kind = "members", !.step = "pin"]
  <2>4. n \in MemberRequests
    BY <2>1 DEF NewGroupRequests, MemberRequests
  <2>5. Answer(a) \/ req' = [req EXCEPT ![a] = n]
    BY <1>1 DEF NewGroup
  <2> QED BY <2>3, <2>4, <2>5, Answered, Put DEF TypedRequests
<1>2. CASE MembersRead(a)
  <2>1. UNCHANGED rows /\ r \in MemberRequests /\ r.step = "read"
    BY <1>0, <1>2, RequestKinds DEF MembersRead, At, rows
  <2>2. [r EXCEPT !.step = "pin"] \in TypedRequests
    BY <2>1 DEF MemberRequests, TypedRequests
  <2> QED BY <1>2, <2>1, <2>2, SameRows, Answered, Gone DEF MembersRead
<1>3. CASE MembersPin(a)
  <2>1. UNCHANGED rows /\ r \in MemberRequests
    BY <1>0, <1>3, RequestKinds DEF MembersPin, At, rows
  <2> DEFINE pin == PinOf(groupPolicy[r.group])
             n == [r EXCEPT !.step = "commit", !.seats = groupOf, !.policy = pin]
  <2>2. CASE Answer(a)
    BY <2>1, <2>2, SameRows, Answered
  <2>3. CASE groupPolicy[r.group] # None /\ req' = [req EXCEPT ![a] = n]
    <3>1. pin \in PolicyIds /\ groupOf \in [Cameras -> Groups \cup {None}]
      BY <2>1, <2>3 DEF MemberRequests, PinOf, RowsOK, TypeOK, Live
    <3> HIDE DEF pin
    <3>2. n \in MemberRequests
      BY <2>1, <3>1 DEF MemberRequests
    <3> QED BY <2>1, <2>3, <3>2, SameRows, Put DEF TypedRequests, pin
  <2> QED BY <1>3, <2>2, <2>3 DEF MembersPin
<1>4. CASE MembersCommit(a)
  <2>1. r \in MemberRequests /\ r.group \in Groups /\ r.policy \in PolicyIds
    BY <1>0, <1>4, RequestKinds DEF MembersCommit, At, MemberRequests
  <2>2. RowsOK'
    BY <1>4, <2>1 DEF MembersCommit, Pinned, RowsOK, TypeOK, Live, Exists
  <2> QED BY <1>4, <2>2, Answered DEF MembersCommit
<1>5. CASE DelGroup(a)
  <2>1. r \in DelGroupRequests /\ r.group \in Groups
    BY <1>0, <1>5, RequestKinds DEF DelGroup, At, DelGroupRequests
  <2>2. RowsOK'
    BY <1>5, <2>1 DEF DelGroup, RowsOK, TypeOK, Live, Exists
  <2> QED BY <1>5, <2>2, Answered DEF DelGroup
<1> QED BY <1>1, <1>2, <1>3, <1>4, <1>5

LEMMA CameraTyped ==
    ASSUME PoliciesAssumption, NamesAssumption, TypeInv, NEW a \in Admins, NewCamera(a) \/ DelCamera(a)
    PROVE  TypeInv'
<1> DEFINE r == req[a]
<1> USE DEF TypeInv, PoliciesAssumption
<1>0. r \in TypedRequests
  OBVIOUS
<1>1. r \in CameraRequests /\ r.camera \in Cameras
  BY <1>0, RequestKinds DEF NewCamera, DelCamera, At, CameraRequests
<1>2. RowsOK'
  BY <1>1 DEF NewCamera, DelCamera, RowsOK, TypeOK, Live, Exists
<1> QED BY <1>2, Answered DEF NewCamera, DelCamera

LEMMA TypeStart == PoliciesAssumption /\ Init => TypeInv
<1> HAVE PoliciesAssumption /\ Init
<1> USE DEF Init, PoliciesAssumption
<1>1. PICK s \in Settings : policies = [p \in PolicyIds |->
        IF p = Default THEN [settings |-> s, origin |-> "operator", name |-> "Default"] ELSE None]
  OBVIOUS
<1>2. policies[Default] \in Policy /\ policies[Default].name = "Default"
  BY <1>1 DEF Policy, Names
<1>3. RowsOK
  BY <1>1, <1>2 DEF RowsOK, TypeOK, Live, Exists
<1> QED BY <1>3 DEF TypeInv, TypedRequests

LEMMA TypeStep ==
    ASSUME PoliciesAssumption, NamesAssumption, TypeInv, [Next]_vars PROVE TypeInv'
<1>1. ASSUME NEW a \in Admins, Receive(a) PROVE TypeInv'
  <2>1. PICK q \in Requests : req' = [req EXCEPT ![a] = q] /\ UNCHANGED rows
    BY <1>1 DEF Receive
  <2>2. q \in TypedRequests
    BY RequestsTyped DEF TypeInv
  <2> QED BY <2>1, <2>2, SameRows, Put DEF TypeInv
<1>2. ASSUME NEW a \in Admins, Handle(a) PROVE TypeInv'
  BY <1>2, EditTyped, AssignTyped, UpdateTyped, CreateTyped, GroupTyped, MembersTyped, CameraTyped DEF Handle
<1>3. ASSUME NEW a \in Admins, Drop(a) PROVE TypeInv'
  BY <1>3, SameRows, Answered DEF Drop, TypeInv
<1>4. CASE Reap
  <2> DEFINE S == {p \in PolicyIds : OrphanDeviation(p)}
  <2>1. policies' = [p \in PolicyIds |-> IF p \in S THEN None ELSE policies[p]]
    BY <1>4 DEF Reap
  <2> QED BY <1>4, <2>1, DropPolicies DEF Reap, OrphanDeviation, TypeInv
<1>5. CASE UNCHANGED vars
  BY <1>5, SameRows DEF vars, rows, TypeInv
<1> QED BY <1>1, <1>2, <1>3, <1>4, <1>5 DEF Next

\* The tables are sound whatever requests run beside each other: every camera and
\* every group refers to a policy that exists, every seat is in a group that
\* exists, and the default policy stays.
THEOREM PoliciesTypeCorrect == Spec => []TypeOK
<1>1. Init => TypeInv
  BY TypeStart, PoliciesAssumption
<1>2. TypeInv /\ [Next]_vars => TypeInv'
  BY TypeStep, PoliciesAssumption, NamesAssumption
<1>3. TypeInv => TypeOK
  BY DEF TypeInv, RowsOK
<1> QED BY <1>1, <1>2, <1>3, PTL DEF Spec

(***************************************************************************)
(* Camera edits under the lock, while no other kind of request runs.       *)
(***************************************************************************)
Locked(r) == r.kind = "edit" /\ r.step \notin {"check", "lock"}

\* Only edits overlap, and one of them holds the lock.
Alone == \A a, b \in Admins : a # b /\ req[a] # Idle /\ req[b] # Idle => req[a].kind = "edit"
OneHolder == \A a, b \in Admins : a # b => ~(Locked(req[a]) /\ Locked(req[b]))

\* What an edit has read and decided still holds at its next step.
EditStands(a) ==
    LET r == req[a] IN
    r.kind = "edit" =>
        /\ r.step \in {"match", "own", "count", "inplace", "mint"} => policyOf[r.camera] = r.was
        /\ r.step \in {"own", "count", "inplace", "mint"} =>
              \A p \in PolicyIds : policies[p] # None => policies[p].settings # r.want
        /\ r.step \in {"count", "inplace"} => policies[r.was].origin = "deviation"
        /\ r.step = "inplace" => \A c \in Cameras : policyOf[c] = r.was => c = r.camera
        /\ r.step = "pin" => (policies[r.target] # None => policies[r.target].settings = r.want)
        /\ r.step \in {"reap", "commit"} =>
              (policyOf[r.camera] # None => policies[policyOf[r.camera]].settings = r.want)

EditsInv == Alone /\ OneHolder /\ \A a \in Admins : EditStands(a)

\* A policy that goes was of no use to a running edit.
LEMMA StandsThroughReap ==
    ASSUME PoliciesAssumption, RowsOK, NEW S, \A p \in S : References(p) = {},
           policies' = [p \in PolicyIds |-> IF p \in S THEN None ELSE policies[p]],
           UNCHANGED <<policyOf, groupPolicy, groupOf>>,
           NEW a \in Admins, req[a] \in TypedRequests, req'[a] = req[a], EditStands(a)
    PROVE  EditStands(a)'
<1> DEFINE r == req[a]
<1> USE DEF PoliciesAssumption, RowsOK, TypeOK, Exists, Live
<1> SUFFICES ASSUME r.kind = "edit" PROVE EditStands(a)'
  BY DEF EditStands
<1>1. r \in EditRequests
  BY RequestKinds
<1>2. r.camera \in Cameras /\ policyOf[r.camera] \notin S
  BY <1>1 DEF EditRequests, References, Users
<1>3. \A p \in PolicyIds : policies'[p] # None => policies'[p] = policies[p]
  OBVIOUS
<1>4. policyOf[r.camera] # None => policies'[policyOf[r.camera]] = policies[policyOf[r.camera]]
  BY <1>2
<1>5. r.step \in {"count", "inplace"} => policies'[r.was] = policies[r.was]
  BY <1>1, <1>2 DEF EditStands, EditRequests
<1>6. r.step = "pin" => r.target \in PolicyIds
  BY <1>1 DEF EditRequests
<1> QED BY <1>3, <1>4, <1>5, <1>6 DEF EditStands

LEMMA StandsOnSameRows ==
    ASSUME UNCHANGED rows, NEW a \in Admins, req'[a] = req[a], EditStands(a)
    PROVE  EditStands(a)'
  BY DEF rows, EditStands

\* Before it has the lock an edit changes nothing.
LEMMA UnlockedIsHarmless ==
    ASSUME NEW a \in Admins, Handle(a), req[a].kind = "edit", ~Locked(req[a])
    PROVE  UNCHANGED rows
<1>1. Edit(a)
  BY DEF Handle, At, AssignFind, AssignRequire, AssignSet, UpdateRead, UpdateWrite, UpdatePromote,
     CreateBase, CreateInsert, DeleteCount, DeletePolicy, GroupRead, GroupRequire, GroupCommit,
     NewGroup, MembersRead, MembersPin, MembersCommit, DelGroup, NewCamera, DelCamera
<1> QED BY <1>1 DEF Edit, Locked, At, EditCheck, EditLock, EditRead, EditMatch, EditOwn, EditCount,
     EditInPlace, EditMint, EditPin, EditReap, EditCommit

\* A step of a handler replaces its own request, which keeps its kind or is
\* answered; the lock is taken only when it is free.
LEMMA HandleShape ==
    ASSUME TypeInv, NEW a \in Admins, Handle(a)
    PROVE  /\ req[a] # Idle
           /\ \A b \in Admins \ {a} : req'[b] = req[b]
           /\ req'[a] # Idle => (req'[a].kind = "edit" <=> req[a].kind = "edit")
           /\ Locked(req'[a]) => Locked(req[a]) \/ \A b \in Admins : ~Locked(req[b])
<1> DEFINE r == req[a]
           Shape == /\ r # Idle
                    /\ \A b \in Admins \ {a} : req'[b] = req[b]
                    /\ req'[a] # Idle => (req'[a].kind = "edit" <=> r.kind = "edit")
                    /\ Locked(req'[a]) => Locked(r) \/ \A b \in Admins : ~Locked(req[b])
<1>0. r \in TypedRequests /\ req \in [Admins -> TypedRequests]
  BY DEF TypeInv
<1>i. \A k, s : At(a, k, s) => r # Idle \/ k = "idle"
  BY DEF At, Idle
<1>a. ASSUME Answer(a), r # Idle PROVE Shape
  BY <1>0, <1>a DEF Answer, Locked, Idle
<1>1. CASE Edit(a)
  <2>1. r \in EditRequests /\ r # Idle
    BY <1>0, <1>1, RequestKinds DEF Edit, At, Idle, EditCheck, EditLock, EditRead, EditMatch, EditOwn, EditCount,
     EditInPlace, EditMint, EditPin, EditReap, EditCommit
  <2>2. ASSUME NEW s, Go(a, s), Locked(r) \/ s = "lock" PROVE Shape
    BY <1>0, <2>1, <2>2 DEF Go, Locked, EditRequests
  <2>3. CASE EditCheck(a) \/ EditCount(a) \/ EditInPlace(a) \/ EditPin(a) \/ EditReap(a) \/ EditCommit(a)
    BY <1>a, <2>1, <2>2, <2>3 DEF EditCheck, EditCount, EditInPlace, EditPin, EditReap, EditCommit, At, Locked, EditRequests
  <2>4. CASE EditLock(a)
    <3>1. \A b \in Admins : ~Locked(req[b])
      BY <2>4 DEF EditLock, LockHolder, InFlight, Locked, Idle
    <3> QED BY <1>0, <2>1, <2>4, <3>1 DEF EditLock, Go, EditRequests
  <2>5. CASE EditRead(a)
    BY <1>0, <1>a, <2>1, <2>5 DEF EditRead, At, Locked, EditRequests
  <2>6. CASE EditMatch(a)
    BY <1>0, <1>a, <2>1, <2>2, <2>6 DEF EditMatch, At, Locked, EditRequests
  <2>7. CASE EditOwn(a)
    BY <1>0, <1>a, <2>1, <2>2, <2>7 DEF EditOwn, At, Locked, EditRequests
  <2>8. CASE EditMint(a)
    BY <1>0, <1>a, <2>1, <2>8 DEF EditMint, At, Locked, EditRequests
  <2> QED BY <1>1, <2>3, <2>4, <2>5, <2>6, <2>7, <2>8 DEF Edit
<1>2. ASSUME NEW s, Go(a, s), r # Idle, r.kind # "edit" PROVE Shape
  BY <1>0, <1>2, RequestKinds DEF Go, Locked, TypedRequests, AssignRequests, UpdateRequests, CreateRequests, EditRequests,
     DeleteRequests, GroupRequests, MemberRequests, NewGroupRequests, CameraRequests, DelGroupRequests
<1>3. CASE AssignFind(a) \/ AssignRequire(a) \/ AssignSet(a) \/ UpdateWrite(a) \/ UpdatePromote(a)
           \/ CreateInsert(a) \/ DeleteCount(a) \/ DeletePolicy(a) \/ GroupCommit(a) \/ MembersRead(a)
           \/ MembersCommit(a) \/ DelGroup(a) \/ NewCamera(a) \/ DelCamera(a)
  <2>1. r # Idle /\ r.kind # "edit"
    BY <1>3, <1>i DEF At, AssignFind, AssignRequire, AssignSet, UpdateWrite, UpdatePromote, CreateInsert, DeleteCount,
       DeletePolicy, GroupCommit, MembersRead, MembersCommit, DelGroup, NewCamera, DelCamera
  <2>2. Answer(a) \/ \E s : Go(a, s)
    BY <1>3 DEF AssignFind, AssignRequire, AssignSet, UpdateWrite, UpdatePromote, CreateInsert, DeleteCount,
       DeletePolicy, GroupCommit, MembersRead, MembersCommit, DelGroup, NewCamera, DelCamera
  <2> QED BY <1>a, <1>2, <2>1, <2>2
<1>4. CASE UpdateRead(a)
  <2>1. r \in UpdateRequests /\ r # Idle
    BY <1>0, <1>4, RequestKinds DEF UpdateRead, At, Idle
  <2> QED BY <1>0, <1>a, <1>4, <2>1 DEF UpdateRead, UpdateRequests, Locked
<1>5. CASE CreateBase(a)
  <2>1. r \in CreateRequests /\ r # Idle
    BY <1>0, <1>5, RequestKinds DEF CreateBase, At, Idle
  <2> QED BY <1>0, <1>a, <1>5, <2>1 DEF CreateBase, CreateRequests, Locked
<1>6. CASE GroupRead(a) \/ GroupRequire(a)
  <2>1. r \in GroupRequests /\ r # Idle
    BY <1>0, <1>6, RequestKinds DEF GroupRead, GroupRequire, At, Idle
  <2> QED BY <1>0, <1>a, <1>6, <2>1 DEF GroupRead, GroupRequire, GroupRequests, Locked
<1>7. CASE NewGroup(a)
  <2>1. r \in NewGroupRequests /\ r # Idle
    BY <1>0, <1>7, RequestKinds DEF NewGroup, At, Idle
  <2> QED BY <1>0, <1>a, <1>7, <2>1 DEF NewGroup, NewGroupRequests, Locked
<1>8. CASE MembersPin(a)
  <2>1. r \in MemberRequests /\ r # Idle
    BY <1>0, <1>8, RequestKinds DEF MembersPin, At, Idle
  <2> QED BY <1>0, <1>a, <1>8, <2>1 DEF MembersPin, MemberRequests, Locked
<1> QED BY <1>1, <1>3, <1>4, <1>5, <1>6, <1>7, <1>8 DEF Handle

\* The steps of the edit itself.
LEMMA EditStepStands ==
    ASSUME PoliciesAssumption, NamesAssumption, TypeInv, NEW a \in Admins, Edit(a), EditStands(a)
    PROVE  EditStands(a)'
<1> DEFINE r == req[a]
<1> USE DEF PoliciesAssumption
<1>0. r \in EditRequests /\ r.kind = "edit" /\ req \in [Admins -> TypedRequests] /\ RowsOK
  BY RequestKinds DEF TypeInv, Edit, At, EditCheck, EditLock, EditRead, EditMatch, EditOwn, EditCount,
     EditInPlace, EditMint, EditPin, EditReap, EditCommit, EditRequests
<1>a. ASSUME Answer(a) PROVE EditStands(a)'
  BY <1>0, <1>a DEF Answer, EditStands, Idle
<1>b. ASSUME NEW s, Go(a, s)
      PROVE  /\ req'[a] = [r EXCEPT !.step = s] /\ req'[a].kind = "edit" /\ req'[a].step = s
             /\ req'[a].camera = r.camera /\ req'[a].want = r.want /\ req'[a].was = r.was /\ req'[a].target = r.target
  BY <1>0, <1>b DEF Go, EditRequests
<1> USE DEF At
<1>1. CASE EditCheck(a) \/ EditLock(a) \/ EditCommit(a)
  <2>1. Answer(a) \/ \E s \in {"lock", "read"} : Go(a, s)
    BY <1>1 DEF EditCheck, EditLock, EditCommit
  <2>2. ASSUME NEW s \in {"lock", "read"}, Go(a, s) PROVE EditStands(a)'
    <3>1. req'[a].step = s
      BY <1>b, <2>2
    <3> QED BY <1>0, <3>1 DEF EditStands
  <2> QED BY <1>a, <2>1, <2>2
<1>2. CASE EditRead(a)
  <2>1. CASE Answer(a)
    BY <1>a, <2>1
  <2>2. CASE req' = [req EXCEPT ![a].step = "match", ![a].was = policyOf[r.camera],
                        ![a].want = Patched(policies[policyOf[r.camera]].settings, r.patch)]
    <3>1. req'[a].kind = "edit" /\ req'[a].step = "match" /\ req'[a].was = policyOf[r.camera] /\ req'[a].camera = r.camera
      BY <1>0, <2>2 DEF EditRequests
    <3>2. UNCHANGED policyOf
      BY <1>2 DEF EditRead, rows
    <3> QED BY <1>0, <3>1, <3>2 DEF EditStands
  <2> QED BY <1>2, <2>1, <2>2 DEF EditRead
<1>3. CASE EditMatch(a)
  <2>1. UNCHANGED rows /\ policyOf[r.camera] = r.was /\ r.camera \in Cameras
    BY <1>0, <1>3 DEF EditMatch, EditStands, EditRequests
  <2>2. CASE Matching(r.want) = {} /\ Go(a, "own")
    <3>1. \A p \in PolicyIds : policies[p] # None => policies[p].settings # r.want
      BY <2>2 DEF Matching, Live, Exists
    <3>m. /\ req'[a].kind = "edit" /\ req'[a].step = "own" /\ req'[a].camera = r.camera
          /\ req'[a].want = r.want /\ req'[a].was = r.was
      BY <1>b, <2>2
    <3> QED BY <1>0, <2>1, <3>m, <3>1 DEF EditStands, rows
  <2>3. ASSUME NEW p \in Preferred(Matching(r.want)), p = r.was, Go(a, "commit") PROVE EditStands(a)'
    <3>1. p \in Matching(r.want)
      BY <2>3 DEF Preferred
    <3>2. policies[policyOf[r.camera]].settings = r.want
      BY <2>1, <2>3, <3>1 DEF Matching
    <3>m. /\ req'[a].kind = "edit" /\ req'[a].step = "commit" /\ req'[a].camera = r.camera
          /\ req'[a].want = r.want /\ req'[a].was = r.was
      BY <1>b, <2>3
    <3> QED BY <1>0, <2>1, <3>m, <3>2 DEF EditStands, rows
  <2>4. ASSUME NEW p \in Preferred(Matching(r.want)), req' = [req EXCEPT ![a].step = "pin", ![a].target = p]
        PROVE  EditStands(a)'
    <3>1. policies[p].settings = r.want
      BY <2>4 DEF Preferred, Matching
    <3>2. /\ req'[a].kind = "edit" /\ req'[a].step = "pin" /\ req'[a].target = p /\ req'[a].want = r.want
      BY <1>0, <2>4 DEF EditRequests
    <3> QED BY <1>0, <2>1, <3>1, <3>2 DEF EditStands, rows
  <2> QED BY <1>3, <2>2, <2>3, <2>4 DEF EditMatch
<1>4. CASE EditOwn(a)
  <2>1. UNCHANGED rows /\ r.step = "own"
    BY <1>4 DEF EditOwn
  <2>2. CASE Answer(a)
    BY <1>a, <2>2
  <2>3. CASE Go(a, "mint")
    <3>m. /\ req'[a].kind = "edit" /\ req'[a].step = "mint" /\ req'[a].camera = r.camera
          /\ req'[a].want = r.want /\ req'[a].was = r.was
      BY <1>b, <2>3
    <3> QED BY <1>0, <2>1, <3>m DEF EditStands, rows
  <2>4. CASE policies[r.was].origin = "deviation" /\ req' = [req EXCEPT ![a].step = "count", ![a].name = policies[r.was].name]
    <3>1. /\ req'[a].kind = "edit" /\ req'[a].step = "count" /\ req'[a].was = r.was /\ req'[a].want = r.want
          /\ req'[a].camera = r.camera
      BY <1>0, <2>4 DEF EditRequests
    <3> QED BY <1>0, <2>1, <2>4, <3>1 DEF EditStands, rows
  <2> QED BY <1>4, <2>2, <2>3, <2>4 DEF EditOwn
<1>5. CASE EditCount(a)
  <2>1. UNCHANGED rows /\ r.step = "count" /\ policyOf[r.camera] = r.was /\ r.camera \in Cameras
    BY <1>0, <1>5 DEF EditCount, EditStands, EditRequests
  <2>2. CASE Go(a, "mint")
    <3>m. /\ req'[a].kind = "edit" /\ req'[a].step = "mint" /\ req'[a].camera = r.camera
          /\ req'[a].want = r.want /\ req'[a].was = r.was
      BY <1>b, <2>2
    <3> QED BY <1>0, <2>1, <3>m DEF EditStands, rows
  <2>3. CASE Cardinality(Users(r.was)) = 1 /\ Go(a, "inplace")
    <3>1. IsFiniteSet(Users(r.was))
      BY FS_Subset DEF Users
    <3>2. PICK c : Users(r.was) = {c}
      BY <2>3, <3>1, FS_Singleton
    <3>3. r.camera \in Users(r.was)
      BY <2>1 DEF Users
    <3>4. \A d \in Cameras : policyOf[d] = r.was => d = r.camera
      BY <3>2, <3>3 DEF Users
    <3>m. /\ req'[a].kind = "edit" /\ req'[a].step = "inplace" /\ req'[a].camera = r.camera
          /\ req'[a].want = r.want /\ req'[a].was = r.was
      BY <1>b, <2>3
    <3> QED BY <1>0, <2>1, <3>m, <3>4 DEF EditStands, rows
  <2> QED BY <1>5, <2>2, <2>3 DEF EditCount
<1>6. CASE EditInPlace(a)
  <2>1. policyOf[r.camera] = r.was /\ r.was \in PolicyIds /\ UNCHANGED policyOf
    BY <1>0, <1>6 DEF EditInPlace, EditStands, EditRequests
  <2>2. CASE Answer(a)
    BY <1>a, <2>2
  <2>3. CASE Exists(r.was) /\ policies' = [policies EXCEPT ![r.was].settings = r.want, ![r.was].name = r.name] /\ Go(a, "commit")
    <3>1. policies[r.was] \in Policy
      BY <1>0, <2>1, <2>3 DEF RowsOK, TypeOK, Exists
    <3>2. policies'[r.was].settings = r.want
      BY <1>0, <2>1, <2>3, <3>1 DEF Policy, RowsOK, TypeOK
    <3>3. policies'[policyOf'[r.camera]].settings = r.want
      BY <2>1, <3>2
    <3>m. /\ req'[a].kind = "edit" /\ req'[a].step = "commit" /\ req'[a].camera = r.camera
          /\ req'[a].want = r.want /\ req'[a].was = r.was
      BY <1>b, <2>3
    <3> QED BY <1>0, <2>1, <3>m, <3>3 DEF EditStands
  <2> QED BY <1>6, <2>2, <2>3 DEF EditInPlace
<1>7. CASE EditMint(a)
  <2> DEFINE row == [settings |-> r.want, origin |-> "deviation",
                     name |-> CHOOSE n \in AutoNames : ~NameTaken(n, None)]
  <2>0. PICK new \in Unused : /\ policies' = [policies EXCEPT ![new] = row]
                              /\ req' = [req EXCEPT ![a].step = "pin", ![a].target = new]
    BY <1>7 DEF EditMint
  <2>1. policies'[new].settings = r.want
    <3>1. new \in PolicyIds
      BY DEF Unused
    <3> QED BY <1>0, <2>0, <3>1 DEF RowsOK, TypeOK
  <2>2. /\ req'[a].kind = "edit" /\ req'[a].step = "pin" /\ req'[a].target = new /\ req'[a].want = r.want
    BY <1>0, <2>0 DEF EditRequests
  <2> QED BY <1>0, <2>1, <2>2 DEF EditStands
<1>8. CASE EditPin(a)
  <2>1. r.step = "pin" /\ UNCHANGED policies /\ r.camera \in Cameras /\ r.target \in PolicyIds
    BY <1>0, <1>8 DEF EditPin, EditRequests
  <2>2. CASE Answer(a)
    BY <1>a, <2>2
  <2>3. CASE Exists(r.target) /\ SetCameraPolicy(r.camera, r.target) /\ Go(a, "reap")
    <3>1. policies[r.target].settings = r.want
      BY <1>0, <2>1, <2>3 DEF EditStands, Exists
    <3>2. policyOf'[r.camera] \in {r.target, None}
      BY <1>0, <2>1, <2>3 DEF SetCameraPolicy, RowsOK, TypeOK
    <3>m. /\ req'[a].kind = "edit" /\ req'[a].step = "reap" /\ req'[a].camera = r.camera
          /\ req'[a].want = r.want /\ req'[a].was = r.was
      BY <1>b, <2>3
    <3> QED BY <1>0, <2>1, <3>m, <3>1, <3>2 DEF EditStands
  <2> QED BY <1>8, <2>2, <2>3 DEF EditPin
<1>9. CASE EditReap(a)
  <2>1. r.step = "reap" /\ r.camera \in Cameras /\ UNCHANGED policyOf /\ Go(a, "commit")
    BY <1>0, <1>9 DEF EditReap, EditStands, EditRequests
  <2>2. policyOf[r.camera] # None => policies'[policyOf[r.camera]] = policies[policyOf[r.camera]]
    BY <1>0, <1>9, <2>1 DEF EditReap, OrphanDeviation, References, Users, RowsOK, TypeOK
  <2>m. /\ req'[a].kind = "edit" /\ req'[a].step = "commit" /\ req'[a].camera = r.camera
        /\ req'[a].want = r.want /\ req'[a].was = r.was
    BY <1>b, <2>1
  <2> QED BY <1>0, <2>1, <2>m, <2>2 DEF EditStands
<1> QED BY <1>1, <1>2, <1>3, <1>4, <1>5, <1>6, <1>7, <1>8, <1>9 DEF Edit

LEMMA EditsStart == Init => EditsInv
  BY DEF Init, EditsInv, Alone, OneHolder, EditStands, Locked, Idle

LEMMA EditsStep ==
    ASSUME PoliciesAssumption, NamesAssumption, Overlapping \subseteq {"edit"},
           TypeInv, EditsInv, [Next]_vars
    PROVE  EditsInv'
<1>0. RowsOK /\ req \in [Admins -> TypedRequests]
  BY DEF TypeInv
<1>1. ASSUME NEW a \in Admins, Receive(a) PROVE EditsInv'
  <2>1. PICK q \in Requests : /\ req[a] = Idle /\ req' = [req EXCEPT ![a] = q] /\ UNCHANGED rows
                              /\ InFlight = {} \/ {q.kind} \cup {req[b].kind : b \in InFlight} \subseteq Overlapping
    BY <1>1 DEF Receive
  <2>2. q.kind = "edit" => q.step = "check"
    BY DEF Requests
  <2>3. Alone'
    <3>1. ASSUME NEW b \in Admins \ {a}, req[b] # Idle PROVE q.kind = "edit" /\ req[b].kind = "edit"
      BY <2>1, <3>1 DEF InFlight
    <3> QED BY <1>0, <2>1, <3>1 DEF EditsInv, Alone
  <2>4. OneHolder'
    BY <1>0, <2>1, <2>2 DEF EditsInv, OneHolder, Locked
  <2>5. ASSUME NEW b \in Admins PROVE EditStands(b)'
    <3>1. CASE b = a
      BY <1>0, <2>1, <2>2, <3>1 DEF EditStands
    <3>2. CASE b # a
      <4>1. req'[b] = req[b]
        BY <1>0, <2>1, <3>2
      <4> QED BY <2>1, <4>1, StandsOnSameRows DEF EditsInv
    <3> QED BY <3>1, <3>2
  <2> QED BY <2>3, <2>4, <2>5 DEF EditsInv
<1>2. ASSUME NEW a \in Admins, Handle(a) PROVE EditsInv'
  <2>1. /\ req[a] # Idle
        /\ \A b \in Admins \ {a} : req'[b] = req[b]
        /\ req'[a] # Idle => (req'[a].kind = "edit" <=> req[a].kind = "edit")
        /\ Locked(req'[a]) => Locked(req[a]) \/ \A b \in Admins : ~Locked(req[b])
    BY <1>2, HandleShape
  <2>2. Alone'
    BY <2>1 DEF EditsInv, Alone
  <2>3. OneHolder'
    BY <2>1 DEF EditsInv, OneHolder
  <2>4. EditStands(a)'
    <3>1. CASE Edit(a)
      BY <3>1, EditStepStands DEF EditsInv
    <3>2. CASE ~Edit(a)
      <4>1. req[a].kind # "edit"
        BY <1>2, <3>2 DEF Handle, At, AssignFind, AssignRequire, AssignSet, UpdateRead, UpdateWrite, UpdatePromote,
           CreateBase, CreateInsert, DeleteCount, DeletePolicy, GroupRead, GroupRequire, GroupCommit,
           NewGroup, MembersRead, MembersPin, MembersCommit, DelGroup, NewCamera, DelCamera
      <4>2. req'[a].kind # "edit"
        BY <2>1, <4>1 DEF Idle
      <4> QED BY <4>2 DEF EditStands
    <3> QED BY <3>1, <3>2
  <2>5. ASSUME NEW b \in Admins \ {a} PROVE EditStands(b)'
    <3>1. CASE ~Locked(req[b])
      BY <2>1, <3>1 DEF Locked, EditStands
    <3>2. CASE Locked(req[b])
      <4>1. req[b] # Idle /\ ~Locked(req[a])
        BY <3>2 DEF EditsInv, OneHolder, Locked, Idle
      <4>2. req[a].kind = "edit"
        BY <2>1, <4>1 DEF EditsInv, Alone
      <4>3. UNCHANGED rows
        BY <1>2, <4>1, <4>2, UnlockedIsHarmless
      <4> QED BY <2>1, <4>3, StandsOnSameRows DEF EditsInv
    <3> QED BY <3>1, <3>2
  <2> QED BY <2>2, <2>3, <2>4, <2>5 DEF EditsInv
<1>3. ASSUME NEW a \in Admins, Drop(a) PROVE EditsInv'
  <2>1. req' = [req EXCEPT ![a] = Idle] /\ UNCHANGED rows
    BY <1>3 DEF Drop, Answer
  <2>2. ASSUME NEW b \in Admins PROVE EditStands(b)'
    <3>1. CASE b = a
      BY <1>0, <2>1, <3>1 DEF EditStands, Idle
    <3>2. CASE b # a
      <4>1. req'[b] = req[b]
        BY <1>0, <2>1, <3>2
      <4> QED BY <2>1, <4>1, StandsOnSameRows DEF EditsInv
    <3> QED BY <3>1, <3>2
  <2>3. Alone' /\ OneHolder'
    BY <1>0, <2>1 DEF EditsInv, Alone, OneHolder, Locked, Idle
  <2> QED BY <2>2, <2>3 DEF EditsInv
<1>4. CASE Reap
  <2> DEFINE S == {p \in PolicyIds : OrphanDeviation(p)}
  <2>1. /\ policies' = [p \in PolicyIds |-> IF p \in S THEN None ELSE policies[p]]
        /\ UNCHANGED <<policyOf, groupPolicy, groupOf, req>>
    BY <1>4 DEF Reap
  <2>2. \A p \in S : References(p) = {}
    BY DEF OrphanDeviation
  <2> HIDE DEF S
  <2>3. ASSUME NEW b \in Admins PROVE EditStands(b)'
    BY <1>0, <2>1, <2>2, StandsThroughReap DEF EditsInv
  <2> QED BY <2>1, <2>3 DEF EditsInv, Alone, OneHolder
<1>5. CASE UNCHANGED vars
  BY <1>5, StandsOnSameRows DEF vars, rows, EditsInv, Alone, OneHolder
<1> QED BY <1>1, <1>2, <1>3, <1>4, <1>5 DEF Next

LEMMA EditsInvariant == Overlapping \subseteq {"edit"} => (Spec => [](TypeInv /\ EditsInv))
<1> SUFFICES ASSUME Overlapping \subseteq {"edit"} PROVE Spec => [](TypeInv /\ EditsInv)
  OBVIOUS
<1>1. Init => TypeInv /\ EditsInv
  BY TypeStart, EditsStart, PoliciesAssumption
<1>2. TypeInv /\ EditsInv /\ [Next]_vars => (TypeInv /\ EditsInv)'
  BY TypeStep, EditsStep, PoliciesAssumption, NamesAssumption
<1> QED BY <1>1, <1>2, PTL DEF Spec

\* What is left unsaid of a step that changes nothing.
LEMMA EditHolds == TypeInv /\ EditsInv => AnsweredEditHolds
<1> SUFFICES ASSUME TypeInv, EditsInv, NEW a \in Admins, At(a, "edit", "commit")
             PROVE  Recorded(req[a].camera) \in {req[a].want, None}
  BY DEF AnsweredEditHolds
<1> QED BY DEF EditsInv, EditStands, At, Recorded

LEMMA EditIsLocal ==
    ASSUME TypeInv, EditsInv, NEW a \in Admins, Edit(a), NEW c \in Cameras \ {req[a].camera}
    PROVE  Recorded(c)' = Recorded(c)
<1> DEFINE r == req[a]
<1>0. /\ RowsOK /\ EditStands(a) /\ r \in EditRequests
      /\ r.kind = "edit"
  BY RequestKinds DEF TypeInv, EditsInv, Edit, At, EditCheck, EditLock, EditRead, EditMatch,
     EditOwn, EditCount, EditInPlace, EditMint, EditPin, EditReap, EditCommit
<1>1. policyOf[c] # None => policyOf[c] \in PolicyIds /\ policies[policyOf[c]] # None
  BY <1>0 DEF RowsOK, TypeOK, Live, Exists
<1>2. policyOf'[c] = policyOf[c]
  BY <1>0 DEF Edit, rows, SetCameraPolicy, RowsOK, TypeOK, EditRequests, EditCheck, EditLock, EditRead,
     EditMatch, EditOwn, EditCount, EditInPlace, EditMint, EditPin, EditReap, EditCommit
<1>3. policyOf[c] # None => policies'[policyOf[c]] = policies[policyOf[c]]
  <2>1. CASE EditInPlace(a)
    <3>1. policyOf[c] # r.was
      BY <1>0, <2>1 DEF EditStands, EditInPlace, At
    <3> QED BY <1>0, <1>1, <2>1, <3>1 DEF EditInPlace, RowsOK, TypeOK
  <2>2. CASE EditMint(a)
    <3>1. PICK new \in Unused : \A p \in PolicyIds \ {new} : policies'[p] = policies[p]
      BY <1>0, <2>2 DEF EditMint, RowsOK, TypeOK
    <3> QED BY <1>1, <3>1 DEF Unused, Live, Exists
  <2>3. CASE EditReap(a)
    BY <1>0, <1>1, <2>3 DEF EditReap, OrphanDeviation, References, Users, RowsOK, TypeOK
  <2> QED BY <2>1, <2>2, <2>3 DEF Edit, rows, EditCheck, EditLock, EditRead,
     EditMatch, EditOwn, EditCount, EditPin, EditCommit
<1> QED BY <1>2, <1>3 DEF Recorded

LEMMA TemplateStays ==
    ASSUME TypeInv, EditsInv, [Next]_vars, NEW p \in Live, policies[p].origin = "operator", policies'[p] # policies[p]
    PROVE  \E a \in Admins : req[a].kind \in {"update", "delete"} /\ req[a].policy = p
<1>0. RowsOK /\ p \in PolicyIds
  BY DEF TypeInv, Live
<1>1. ~Reap /\ ~UNCHANGED policies
  BY <1>0 DEF Reap, OrphanDeviation
<1>2. PICK a \in Admins : Handle(a)
  BY <1>1 DEF Next, vars, Receive, Drop, rows
<1>3. ~Edit(a)
  <2>1. ~EditInPlace(a)
    BY <1>0 DEF EditInPlace, At, EditsInv, EditStands, RowsOK, TypeOK
  <2>2. ~EditMint(a)
    BY <1>0 DEF EditMint, Unused, RowsOK, TypeOK
  <2>3. ~EditReap(a)
    BY <1>0 DEF EditReap, OrphanDeviation, RowsOK, TypeOK
  <2> QED BY <1>1, <2>1, <2>2, <2>3 DEF Edit, rows, EditCheck, EditLock, EditRead,
     EditMatch, EditOwn, EditCount, EditPin, EditCommit
<1>4. ~CreateInsert(a)
  BY <1>0 DEF CreateInsert, Unused, RowsOK, TypeOK
<1>5. CASE UpdateWrite(a) \/ UpdatePromote(a) \/ DeletePolicy(a)
  BY <1>0, <1>5 DEF UpdateWrite, UpdatePromote, DeletePolicy, At, RowsOK, TypeOK
<1> QED BY <1>1, <1>2, <1>3, <1>4, <1>5 DEF Handle, rows, AssignFind, AssignRequire, AssignSet, UpdateRead,
     CreateBase, DeleteCount, GroupRead, GroupRequire, GroupCommit,
     NewGroup, MembersRead, MembersPin, MembersCommit, DelGroup, NewCamera, DelCamera

LEMMA NoTwinIsMade == EditsInv => NoTwins
BY DEF NoTwins, EditsInv, EditStands, EditMint, At, Matching, Live, Exists

\* While only camera edits run beside each other, each under the advisory lock of
\* update_camera_policy: an edit that is about to be answered has given its camera what
\* was asked for and changed the recording of no other camera; it mints a policy only if
\* none has the same settings, find_matching_policy and create_policy being two
\* statements that the lock makes one; and policies that operators made, and Default,
\* change and go only by the requests that name them.
THEOREM EditsDoWhatTheySay ==
    ASSUME Overlapping \subseteq {"edit"} PROVE Spec => EditsKeepTheirWord
<1>1. TypeInv /\ EditsInv /\ [Next]_vars => EditsAreLocal
  BY EditIsLocal DEF EditsAreLocal
<1>2. TypeInv /\ EditsInv /\ [Next]_vars => TemplatesAreTheOperators
  BY TemplateStays DEF TemplatesAreTheOperators
<1>3. TypeInv /\ EditsInv /\ (TypeInv /\ EditsInv)' /\ [Next]_vars
        => [AnsweredEditHolds' /\ EditsAreLocal /\ NoTwins /\ TemplatesAreTheOperators]_vars
  <2>1. (TypeInv /\ EditsInv)' => AnsweredEditHolds'
    BY EditHolds, PTL
  <2> QED BY <1>1, <1>2, <2>1, NoTwinIsMade
<1> QED BY <1>3, EditsInvariant, PTL DEF Spec, EditsKeepTheirWord

(***************************************************************************)
(* Storage locations, one session editing.                                 *)
(***************************************************************************)
AddRequests == [kind : {"create"}, step : {"check", "insert"}, storage : Storages, path : Paths]
RepointRequests ==
    [kind : {"repoint"}, step : {"count", "check", "write"}, storage : Storages, path : Paths]
RemoveRequests == [kind : {"delete"}, step : {"count", "policies", "delete"}, storage : Storages]

LocationsTypes ==
    /\ LocationsTypeOK
    /\ request \in [Sessions ->
            {NoRequest} \cup AddRequests \cup RepointRequests \cup RemoveRequests]

\* What a request has found out still holds at its next step.
RequestStands(r) ==
    /\ r.kind = "create" /\ r.step = "insert" => Free(r.path, Nil)
    /\ r.kind = "repoint" =>
        /\ Careful => live # r.storage /\ Quiet(r.storage)
        /\ Careful /\ r.step \in {"check", "write"} => On(r.storage) = {}
        /\ r.step = "write" => Free(r.path, r.storage)
    /\ r.kind = "delete" /\ Careful => live = r.storage \/ Quiet(r.storage)

\* The folder that the worker has resolved is still the folder of its storage,
\* and so is the folder of what it has written.
WorkerResolves == worker # Nil => root[worker.storage] = worker.folder
PendingResolves == \A x \in pending : root[x.storage] = x.folder
IndexedResolves == \A x \in indexed : root[x.storage] = x.folder
Resolved == Careful => WorkerResolves /\ PendingResolves /\ IndexedResolves

LocationsInv ==
    LocationsTypes /\ RootsDisjoint /\ Resolved /\ \A i \in Sessions : RequestStands(request[i])

LEMMA LocationsStart == LocationsInit => LocationsInv
  BY DEF LocationsInit, LocationsInv, LocationsTypes, LocationsTypeOK, Resolved, RootsDisjoint,
     WorkerResolves, PendingResolves, IndexedResolves, RequestStands, NoRequest, Existing

\* A folder that clashes with no other storage's can be given to a storage.
LEMMA FreeFits ==
    ASSUME LocationsAssumption, LocationsTypeOK, RootsDisjoint,
           NEW s \in Storages, NEW p \in Paths, Free(p, s), root' = [root EXCEPT ![s] = p]
    PROVE  RootsDisjoint'
  BY DEF LocationsAssumption, LocationsTypeOK, RootsDisjoint, Existing, Free

LEMMA LocationsStep ==
    ASSUME NEW admin, Sessions = {admin}, LocationsInv, [LocationsNext]_locations
    PROVE  LocationsInv'
<1> DEFINE r == request[admin]
<1> USE LocationsAssumption DEF LocationsAssumption
<1> SUFFICES LocationsTypes' /\ RootsDisjoint' /\ Resolved' /\ RequestStands(r)'
  BY DEF LocationsInv
<1>0. LocationsTypes /\ RootsDisjoint /\ Resolved /\ RequestStands(r)
  BY DEF LocationsInv
<1>t. r \in {NoRequest} \cup AddRequests \cup RepointRequests \cup RemoveRequests
  BY <1>0 DEF LocationsTypes
<1> USE DEF LocationsTypes, LocationsTypeOK, Existing, Places
<1>1. CASE Ask(admin)
  <2>1. UNCHANGED <<root, live, worker, pending, indexed>>
    BY <1>1 DEF Ask, recorder
  <2>2. LocationsTypes'
    BY <1>0, <1>1, <2>1 DEF Ask, AddRequests, RepointRequests, RemoveRequests
  <2>3. RequestStands(r)'
    BY <1>0, <1>1, <2>1 DEF Ask, RequestStands, Quiet
  <2> QED BY <1>0, <2>1, <2>2, <2>3 DEF RootsDisjoint, Resolved, WorkerResolves, PendingResolves, IndexedResolves
<1>2. ASSUME NEW i \in Sessions, Serve(i) PROVE LocationsTypes' /\ RootsDisjoint' /\ Resolved' /\ RequestStands(r)'
  <2>0. i = admin
    OBVIOUS
  <2>i. RequestStands(NoRequest)'
    BY DEF RequestStands, NoRequest
  <2> USE DEF Reply, Proceed, Stands, recorder
  <2>1. CASE StorageCheck(admin)
    <3>1. UNCHANGED <<root, live, worker, pending, indexed>>
      BY <2>1 DEF StorageCheck
    <3>2. LocationsTypes'
      <4>1. r \in AddRequests /\ r.step = "check"
        BY <1>t, <2>1 DEF StorageCheck, NoRequest, AddRequests, RepointRequests, RemoveRequests
      <4>2. [r EXCEPT !.step = "insert"] \in AddRequests
        BY <4>1 DEF AddRequests
      <4>3. request' \in {[request EXCEPT ![admin] = NoRequest],
                         [request EXCEPT ![admin] = [r EXCEPT !.step = "insert"]]}
        BY <2>1 DEF StorageCheck
      <4> QED BY <1>0, <3>1, <4>2, <4>3
    <3>3. RequestStands(r)'
      BY <1>0, <1>t, <2>1, <3>1 DEF StorageCheck, RequestStands, NoRequest, AddRequests, RepointRequests, RemoveRequests, Quiet, On, Free
    <3> QED BY <1>0, <3>1, <3>2, <3>3 DEF RootsDisjoint, Resolved, WorkerResolves, PendingResolves, IndexedResolves
  <2>2. CASE StorageInsert(admin)
    <3>1. /\ UNCHANGED <<live, worker, pending, indexed>> /\ request' = [request EXCEPT ![admin] = NoRequest]
          /\ r \in AddRequests /\ r.step = "insert"
      BY <1>t, <2>2 DEF StorageInsert, NoRequest, AddRequests, RepointRequests, RemoveRequests
    <3>2. RequestStands(r)'
      BY <1>0, <2>i, <3>1
    <3>3. CASE root[r.storage] # Nil
      <4>1. root' = root
        BY <1>0, <2>2, <3>3 DEF StorageInsert
      <4> QED BY <1>0, <3>1, <3>2, <4>1 DEF RootsDisjoint, Resolved, WorkerResolves, PendingResolves, IndexedResolves
    <3>4. CASE root[r.storage] = Nil
      <4>1. root' = [root EXCEPT ![r.storage] = r.path]
        BY <1>0, <2>2, <3>4 DEF StorageInsert
      <4>2. r.storage \in Storages /\ r.path \in Paths /\ Free(r.path, r.storage)
        BY <1>0, <3>1 DEF AddRequests, RequestStands, Free
      <4>3. RootsDisjoint'
        BY <1>0, <4>1, <4>2, FreeFits
      <4>4. Resolved'
        BY <1>0, <3>1, <3>4, <4>1, <4>2 DEF Resolved, WorkerResolves, PendingResolves, IndexedResolves
      <4> QED BY <1>0, <3>1, <3>2, <4>1, <4>2, <4>3, <4>4
    <3> QED BY <3>3, <3>4
  <2>3. CASE RepointCount(admin)
    <3>1. UNCHANGED <<root, live, worker, pending, indexed>>
      BY <2>3 DEF RepointCount
    <3>2. LocationsTypes'
      <4>1. r \in RepointRequests /\ r.step = "count"
        BY <1>t, <2>3 DEF RepointCount, NoRequest, AddRequests, RepointRequests, RemoveRequests
      <4>2. [r EXCEPT !.step = "check"] \in RepointRequests
        BY <4>1 DEF RepointRequests
      <4>3. request' \in {[request EXCEPT ![admin] = NoRequest],
                         [request EXCEPT ![admin] = [r EXCEPT !.step = "check"]]}
        BY <2>3 DEF RepointCount
      <4> QED BY <1>0, <3>1, <4>2, <4>3
    <3>3. RequestStands(r)'
      BY <1>0, <1>t, <2>3, <3>1 DEF RepointCount, RequestStands, NoRequest, AddRequests, RepointRequests, RemoveRequests, Quiet, On
    <3> QED BY <1>0, <3>1, <3>2, <3>3 DEF RootsDisjoint, Resolved, WorkerResolves, PendingResolves, IndexedResolves
  <2>4. CASE RepointCheck(admin)
    <3>1. UNCHANGED <<root, live, worker, pending, indexed>>
      BY <2>4 DEF RepointCheck
    <3>2. LocationsTypes'
      <4>1. r \in RepointRequests /\ r.step = "check"
        BY <1>t, <2>4 DEF RepointCheck, NoRequest, AddRequests, RepointRequests, RemoveRequests
      <4>2. [r EXCEPT !.step = "write"] \in RepointRequests
        BY <4>1 DEF RepointRequests
      <4>3. request' \in {[request EXCEPT ![admin] = NoRequest],
                         [request EXCEPT ![admin] = [r EXCEPT !.step = "write"]]}
        BY <2>4 DEF RepointCheck
      <4> QED BY <1>0, <3>1, <4>2, <4>3
    <3>3. RequestStands(r)'
      BY <1>0, <1>t, <2>4, <3>1 DEF RepointCheck, RequestStands, NoRequest, AddRequests, RepointRequests, RemoveRequests, Quiet, On, Free
    <3> QED BY <1>0, <3>1, <3>2, <3>3 DEF RootsDisjoint, Resolved, WorkerResolves, PendingResolves, IndexedResolves
  <2>5. CASE RepointWrite(admin)
    <3>1. /\ UNCHANGED <<live, worker, pending, indexed>> /\ request' = [request EXCEPT ![admin] = NoRequest]
          /\ r \in RepointRequests /\ r.step = "write"
      BY <1>t, <2>5 DEF RepointWrite, NoRequest, AddRequests, RepointRequests, RemoveRequests
    <3>2. RequestStands(r)'
      BY <1>0, <2>i, <3>1
    <3>3. CASE root[r.storage] = Nil
      <4>1. root' = root
        BY <1>0, <2>5, <3>3 DEF RepointWrite
      <4> QED BY <1>0, <3>1, <3>2, <4>1 DEF RootsDisjoint, Resolved, WorkerResolves, PendingResolves, IndexedResolves
    <3>4. CASE root[r.storage] # Nil
      <4>1. root' = [root EXCEPT ![r.storage] = r.path]
        BY <1>0, <2>5, <3>4 DEF RepointWrite
      <4>2. r.storage \in Storages /\ r.path \in Paths /\ Free(r.path, r.storage) /\ (Careful => On(r.storage) = {} /\ Quiet(r.storage))
        BY <1>0, <3>1 DEF RepointRequests, RequestStands
      <4>3. RootsDisjoint'
        BY <1>0, <4>1, <4>2, FreeFits
      <4>4. Resolved'
        BY <1>0, <3>1, <4>1, <4>2 DEF Resolved, WorkerResolves, PendingResolves, IndexedResolves, Quiet, On
      <4> QED BY <1>0, <3>1, <3>2, <3>4, <4>1, <4>2, <4>3, <4>4
    <3> QED BY <3>3, <3>4
  <2>6. CASE RemoveCount(admin)
    <3>1. UNCHANGED <<root, live, worker, pending, indexed>>
      BY <2>6 DEF RemoveCount
    <3>2. LocationsTypes'
      <4>1. r \in RemoveRequests /\ r.step = "count"
        BY <1>t, <2>6 DEF RemoveCount, NoRequest, AddRequests, RepointRequests, RemoveRequests
      <4>2. [r EXCEPT !.step = "policies"] \in RemoveRequests
        BY <4>1 DEF RemoveRequests
      <4>3. request' \in {[request EXCEPT ![admin] = NoRequest],
                         [request EXCEPT ![admin] = [r EXCEPT !.step = "policies"]]}
        BY <2>6 DEF RemoveCount
      <4> QED BY <1>0, <3>1, <4>2, <4>3
    <3>3. RequestStands(r)'
      BY <1>0, <1>t, <2>6, <3>1 DEF RemoveCount, RequestStands, NoRequest, AddRequests, RepointRequests, RemoveRequests, Quiet, On
    <3> QED BY <1>0, <3>1, <3>2, <3>3 DEF RootsDisjoint, Resolved, WorkerResolves, PendingResolves, IndexedResolves
  <2>7. CASE RemovePolicies(admin)
    <3>1. UNCHANGED <<root, live, worker, pending, indexed>>
      BY <2>7 DEF RemovePolicies
    <3>2. LocationsTypes'
      <4>1. r \in RemoveRequests /\ r.step = "policies"
        BY <1>t, <2>7 DEF RemovePolicies, NoRequest, AddRequests, RepointRequests, RemoveRequests
      <4>2. [r EXCEPT !.step = "delete"] \in RemoveRequests
        BY <4>1 DEF RemoveRequests
      <4>3. request' \in {[request EXCEPT ![admin] = NoRequest],
                         [request EXCEPT ![admin] = [r EXCEPT !.step = "delete"]]}
        BY <2>7 DEF RemovePolicies
      <4> QED BY <1>0, <3>1, <4>2, <4>3
    <3>3. RequestStands(r)'
      BY <1>0, <1>t, <2>7, <3>1 DEF RemovePolicies, RequestStands, NoRequest, AddRequests, RepointRequests, RemoveRequests, Quiet, On
    <3> QED BY <1>0, <3>1, <3>2, <3>3 DEF RootsDisjoint, Resolved, WorkerResolves, PendingResolves, IndexedResolves
  <2>8. CASE DeleteStorage(admin)
    <3>1. /\ UNCHANGED <<live, worker, pending, indexed>> /\ request' = [request EXCEPT ![admin] = NoRequest]
          /\ r \in RemoveRequests
      BY <1>t, <2>8 DEF DeleteStorage, NoRequest, AddRequests, RepointRequests, RemoveRequests
    <3>2. RequestStands(r)'
      BY <1>0, <2>i, <3>1
    <3>3. CASE ~(On(r.storage) = {} /\ live # r.storage)
      <4>1. root' = root
        BY <1>0, <2>8, <3>3 DEF DeleteStorage
      <4> QED BY <1>0, <3>1, <3>2, <4>1 DEF RootsDisjoint, Resolved, WorkerResolves, PendingResolves, IndexedResolves
    <3>4. CASE On(r.storage) = {} /\ live # r.storage
      <4>1. root' = [root EXCEPT ![r.storage] = Nil] /\ r.storage \in Storages /\ (Careful => Quiet(r.storage))
        BY <1>0, <2>8, <3>1, <3>4 DEF DeleteStorage, RemoveRequests, RequestStands
      <4>2. RootsDisjoint'
        BY <1>0, <4>1 DEF RootsDisjoint
      <4>3. Resolved'
        BY <1>0, <3>1, <3>4, <4>1 DEF Resolved, WorkerResolves, PendingResolves, IndexedResolves, Quiet, On
      <4> QED BY <1>0, <3>1, <3>2, <3>4, <4>1, <4>2, <4>3
    <3> QED BY <3>3, <3>4
  <2> QED BY <1>2, <2>0, <2>1, <2>2, <2>3, <2>4, <2>5, <2>6, <2>7, <2>8 DEF Serve
<1>3. ASSUME NEW s \in Storages, ChangeLive(s) PROVE LocationsTypes' /\ RootsDisjoint' /\ Resolved' /\ RequestStands(r)'
  <2>1. r = NoRequest
    BY <1>3 DEF ChangeLive
  <2>2. RequestStands(r)'
    BY <1>3, <2>1 DEF ChangeLive, RequestStands, NoRequest
  <2> QED BY <1>0, <1>3, <2>2 DEF ChangeLive, recorder, RootsDisjoint, Resolved, WorkerResolves, PendingResolves, IndexedResolves
<1>4. CASE Resolve
  <2>1. RequestStands(r)'
    BY <1>0, <1>4 DEF Resolve, RequestStands, Quiet, On, Free
  <2> QED BY <1>0, <1>4, <2>1 DEF Resolve, RootsDisjoint, Resolved, WorkerResolves, PendingResolves, IndexedResolves
<1>5. CASE Record
  <2>1. RequestStands(r)'
    BY <1>0, <1>5 DEF Record, RequestStands, Quiet, On, Free
  <2> QED BY <1>0, <1>5, <2>1 DEF Record, RootsDisjoint, Resolved, WorkerResolves, PendingResolves, IndexedResolves
<1>6. ASSUME NEW x \in Places, Index(x) PROVE LocationsTypes' /\ RootsDisjoint' /\ Resolved' /\ RequestStands(r)'
  <2>1. RequestStands(r)'
    BY <1>0, <1>6 DEF Index, RequestStands, Quiet, On, Free
  <2> QED BY <1>0, <1>6, <2>1 DEF Index, RootsDisjoint, Resolved, WorkerResolves, PendingResolves, IndexedResolves
<1>7. ASSUME NEW x \in Places, Expire(x) PROVE LocationsTypes' /\ RootsDisjoint' /\ Resolved' /\ RequestStands(r)'
  <2>1. RequestStands(r)'
    BY <1>0, <1>7 DEF Expire, RequestStands, Quiet, On, Free
  <2> QED BY <1>0, <1>7, <2>1 DEF Expire, RootsDisjoint, Resolved, WorkerResolves, PendingResolves, IndexedResolves
<1>8. CASE UNCHANGED locations
  BY <1>0, <1>8 DEF locations, RootsDisjoint, Resolved, WorkerResolves, PendingResolves, IndexedResolves,
     RequestStands, Quiet, On, Free
<1> QED BY <1>1, <1>2, <1>3, <1>4, <1>5, <1>6, <1>7, <1>8 DEF LocationsNext


LEMMA LocationsInvariant ==
    ASSUME NEW admin, Sessions = {admin} PROVE LocationsSpec => []LocationsInv
<1>1. LocationsInit => LocationsInv
  BY LocationsStart
<1>2. LocationsInv /\ [LocationsNext]_locations => LocationsInv'
  BY LocationsStep
<1> QED BY <1>1, <1>2, PTL DEF LocationsSpec

\* With one console session no storage's folder ever is, contains or lies in
\* another's: then the check of check_storage_path_overlap before the write of
\* create_storage and update_storage is enough.
THEOREM OneConsoleKeepsRootsApart ==
    ASSUME NEW admin, Sessions = {admin} PROVE LocationsSpec => []RootsDisjoint
<1>1. LocationsInv => RootsDisjoint
  BY DEF LocationsInv
<1> QED BY <1>1, LocationsInvariant, PTL

\* With one console session, and operators who repoint and delete only what is at
\* rest, every indexed segment is in the folder that its storage has now, and in no
\* other storage's tree: the counts and the overlap check of update_storage and
\* delete_storage and the foreign keys are enough.
THEOREM RowsLeadToFootage ==
    ASSUME NEW admin, Sessions = {admin}, Careful PROVE LocationsSpec => []FootageResolves
<1>1. LocationsInv => FootageResolves
  <2> SUFFICES ASSUME LocationsInv, NEW x \in indexed
               PROVE  /\ root[x.storage] = x.folder
                      /\ \A t \in Existing \ {x.storage} : <<x.folder, root[t]>> \notin Nested
    BY DEF FootageResolves
  <2>1. root[x.storage] = x.folder /\ x \in Places
    BY DEF LocationsInv, Resolved, IndexedResolves, LocationsTypes, LocationsTypeOK
  <2>2. x.storage \in Existing
    BY <2>1, LocationsAssumption DEF Places, Existing
  <2> QED BY <2>1, <2>2 DEF LocationsInv, RootsDisjoint
<1> QED BY <1>1, LocationsInvariant, PTL

\* A behaviour of the two parts beside each other is one of each of them.
LEMMA PartsStand == ConfigSpec => Spec /\ LocationsSpec
<1>1. ConfigInit => Init /\ LocationsInit
  BY DEF ConfigInit
<1>2. [ConfigNext]_<<vars, locations, part>> => [Next]_vars /\ [LocationsNext]_locations
  BY DEF ConfigNext
<1> QED BY <1>1, <1>2, PTL DEF ConfigSpec, Spec, LocationsSpec

\* Every reference holds, whatever requests run beside each other on the policies, and
\* with one console session on the storages: cameras and groups have policies that
\* exist, seats have groups that exist, the live storage has a row.
THEOREM ConfigTypeCorrect ==
    ASSUME NEW admin, Sessions = {admin} PROVE ConfigSpec => []ConfigTypeOK
<1>1. LocationsInv => LocationsTypeOK
  BY DEF LocationsInv, LocationsTypes
<1>2. TypeOK /\ LocationsTypeOK => ConfigTypeOK
  BY DEF ConfigTypeOK
<1> QED BY <1>1, <1>2, PartsStand, PoliciesTypeCorrect, LocationsInvariant, PTL
=============================================================================
