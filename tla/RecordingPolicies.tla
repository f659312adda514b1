-------------------------- MODULE RecordingPolicies --------------------------
(***************************************************************************)
(* The recording policies of the cameras and the requests of the admin     *)
(* console that edit them: camera edits (copy on write), assignments,      *)
(* operator templates and groups, with the recorder's hourly reaper.       *)
(* Source: services/api/src/config_routes.rs and services/common/src/db.rs.*)
(*                                                                         *)
(* Every handler is a chain of SQL statements on pooled connections, and   *)
(* one step here is one statement; what a handler has read is kept in its  *)
(* request.  Only camera edits take the advisory lock.  A handler may be   *)
(* dropped between two statements: the caller leaves, a limit on its time, *)
(* or on its wait for the lock or for a connection, passes, or the service *)
(* restarts.                                                               *)
(***************************************************************************)
EXTENDS Naturals, FiniteSets

CONSTANTS
    Cameras, Groups,    \* rows that may exist
    Admins,             \* console sessions, each with one request at a time
    Knobs, Values,      \* the behaviour columns of a policy and their values
    PolicyIds, Default, \* ids that policies may have, and the default policy's
    OperatorNames,      \* names that operators type
    AutoNames,          \* a camera's name, with " 2", " 3", ...
    Overlapping,        \* kinds of request that may run beside each other
    Inherit,            \* a group with a NULL policy_id
    Keep,               \* a field that the request leaves out
    None                \* no such row

Names == OperatorNames \cup AutoNames \cup {"Default"}
Settings == [Knobs -> Values]
Patches == [knob : Knobs, value : Values]
Policy == [settings : Settings, origin : {"operator", "deviation"}, name : Names]

ASSUME PoliciesAssumption ==
    /\ Default \in PolicyIds
    /\ IsFiniteSet(Cameras)
    /\ Inherit # None /\ Inherit # Keep /\ Keep # None
    /\ {Inherit, Keep, None} \cap (PolicyIds \cup Names) = {}
    /\ None \notin Cameras \cup Groups \cup Policy \cup Settings

\* The suffixes never run out: a free id has a free name.
ASSUME NamesAssumption ==
    /\ "Default" \notin AutoNames
    /\ \A f \in [PolicyIds \ {Default} -> AutoNames \cup {None}] :
          (\E p \in PolicyIds \ {Default} : f[p] = None)
             => \E n \in AutoNames : \A p \in PolicyIds \ {Default} : f[p] # n

VARIABLES
    policies,       \* recording_policies: id -> row or None
    policyOf,       \* cameras.policy_id, None if there is no such camera
    groupPolicy,    \* camera_groups.policy_id, None if there is no such group
    groupOf,        \* camera_group_members, None if the camera is in no group
    req             \* what each session's handler is doing

vars == <<policies, policyOf, groupPolicy, groupOf, req>>
rows == <<policies, policyOf, groupPolicy, groupOf>>

Idle == [kind |-> "idle"]
InFlight == {a \in Admins : req[a] # Idle}
At(a, kind, step) == req[a].kind = kind /\ req[a].step = step

(***************************************************************************)
(* What the handlers read.                                                 *)
(***************************************************************************)
Exists(p) == policies[p] # None
Live == {p \in PolicyIds : Exists(p)}
Patched(settings, patch) == [settings EXCEPT ![patch.knob] = patch.value]

NameTaken(n, p) == \E q \in Live \ {p} : policies[q].name = n

Users(p) == {c \in Cameras : policyOf[c] = p}
References(p) == Users(p) \cup {g \in Groups : groupPolicy[g] = p}

\* Mutant: every policy that nothing refers to, as before origin.
Unreferenced(p) == Exists(p) /\ p # Default /\ References(p) = {}
\* Mutant: a policy that only groups use is reaped with them.
DeviationWithoutCameras(p) ==
    Exists(p) /\ p # Default /\ policies[p].origin = "deviation" /\ Users(p) = {}

\* reap_policy_if_orphan_deviation, reap_orphan_policy_forks: their predicate.
OrphanDeviation(p) ==
    /\ Exists(p) /\ p # Default
    /\ policies[p].origin = "deviation"
    /\ References(p) = {}

\* find_matching_policy: same settings; Default first, then a template (among
\* equals the code takes the first name, here it may be any).
Matching(want) == {p \in Live : policies[p].settings = want}
Preferred(S) ==
    LET templates == {p \in S : policies[p].origin = "operator"} IN
    IF Default \in S THEN {Default} ELSE IF templates # {} THEN templates ELSE S

\* A group pins its members to its own policy, else to Default.
PinOf(policy) == IF policy = Inherit THEN Default ELSE policy

\* An id is a UUID: it is never one that a running handler still holds.
Held == UNION {{req[a].was, req[a].target} : a \in {b \in InFlight : req[b].kind = "edit"}}
            \cup {req[a].policy : a \in {b \in InFlight : "policy" \in DOMAIN req[b]}}
Unused == PolicyIds \ (Live \cup Held)
Room == Cardinality(PolicyIds \ Live) > Cardinality(InFlight)

\* The edit that has the advisory lock.
LockHolder == {a \in InFlight : req[a].kind = "edit" /\ req[a].step \notin {"check", "lock"}}

(***************************************************************************)
(* Steps of a handler.                                                     *)
(***************************************************************************)
Answer(a) == req' = [req EXCEPT ![a] = Idle]
Go(a, step) == req' = [req EXCEPT ![a].step = step]

\* What a session may ask for: rows that the console has listed.
Requests ==
    LET shown == Live IN
    [kind : {"edit"}, step : {"check"}, camera : Cameras, patch : Patches,
        was : {None}, want : {None}, target : {None}, name : {None}]
    \cup [kind : {"assign"}, step : {"find"}, camera : Cameras, policy : shown]
    \cup [kind : {"update"}, step : {"read"}, policy : shown, patch : Patches,
            name : OperatorNames \cup {Keep}, old : {None}, want : {None}]
    \cup [kind : {"create"}, step : {"base"}, patch : Patches, name : OperatorNames,
            want : {None}]
    \cup [kind : {"delete"}, step : {"read"}, policy : shown \ {Default}]
    \cup [kind : {"group"}, step : {"read"}, group : Groups,
            policy : shown \cup {Inherit, Keep}, seats : {None}]
    \cup [kind : {"members"}, step : {"read"}, group : Groups, cameras : SUBSET Cameras,
            policy : {None}, seats : {None}]
    \cup [kind : {"newgroup"}, step : {"find"}, group : Groups, cameras : SUBSET Cameras,
            policy : shown \cup {Inherit}, seats : {None}]
    \cup [kind : {"newcamera", "delcamera"}, step : {"run"}, camera : Cameras]
    \cup [kind : {"delgroup"}, step : {"run"}, group : Groups]

Receive(a) == \E r \in Requests :
    /\ req[a] = Idle
    /\ InFlight = {} \/ {r.kind} \cup {req[b].kind : b \in InFlight} \subseteq Overlapping
    /\ r.kind \in {"edit", "create"} => Room
    /\ req' = [req EXCEPT ![a] = r]
    /\ UNCHANGED rows

\* A handler that is dropped, or fails, leaves what it has done so far; its
\* connection and its lock go with it.
Drop(a) == a \in InFlight /\ Answer(a) /\ UNCHANGED rows

(***************************************************************************)
(* PUT /config/cameras/{id}/policy: a camera edit.                         *)
(***************************************************************************)

\* update_camera_policy: a grouped camera is refused, before the lock.
EditCheck(a) ==
    /\ At(a, "edit", "check")
    /\ IF groupOf[req[a].camera] # None THEN Answer(a) ELSE Go(a, "lock")
    /\ UNCHANGED rows

\* Mutant: no lock.
EditUnlocked(a) == At(a, "edit", "lock") /\ Go(a, "read") /\ UNCHANGED rows

\* pg_advisory_xact_lock(CAMERA_POLICY_COW_LOCK).
EditLock(a) ==
    /\ At(a, "edit", "lock") /\ LockHolder = {}
    /\ Go(a, "read") /\ UNCHANGED rows

EditRead(a) ==
    /\ At(a, "edit", "read")
    /\ LET was == policyOf[req[a].camera] IN
       IF was = None THEN Answer(a)
       ELSE req' = [req EXCEPT ![a].step = "match", ![a].was = was,
                        ![a].want = Patched(policies[was].settings, req[a].patch)]
    /\ UNCHANGED rows

\* Mutant: a match with Default is taken for an edit that changes nothing.
EditMatchDefault(a) ==
    /\ At(a, "edit", "match")
    /\ LET found == Matching(req[a].want) IN
       \/ found = {} /\ Go(a, "own")
       \/ \E p \in Preferred(found) :
            IF p \in {req[a].was, Default} THEN Go(a, "commit")
            ELSE req' = [req EXCEPT ![a].step = "pin", ![a].target = p]
    /\ UNCHANGED rows

\* Nothing to do, a named policy to join, or one of its own to see to.
EditMatch(a) ==
    /\ At(a, "edit", "match")
    /\ LET found == Matching(req[a].want) IN
       \/ found = {} /\ Go(a, "own")
       \/ \E p \in Preferred(found) :
            IF p = req[a].was THEN Go(a, "commit")
            ELSE req' = [req EXCEPT ![a].step = "pin", ![a].target = p]
    /\ UNCHANGED rows

EditOwn(a) ==
    /\ At(a, "edit", "own")
    /\ LET was == req[a].was IN
       IF ~Exists(was) THEN Answer(a)
       ELSE IF was # Default /\ policies[was].origin = "deviation"
            THEN req' = [req EXCEPT ![a].step = "count", ![a].name = policies[was].name]
            ELSE Go(a, "mint")
    /\ UNCHANGED rows

\* Mutant: a deviation is taken for its camera's own without counting.
EditUncounted(a) ==
    At(a, "edit", "count") /\ Go(a, "inplace") /\ UNCHANGED rows

EditCount(a) ==
    /\ At(a, "edit", "count")
    /\ Go(a, IF Cardinality(Users(req[a].was)) = 1 THEN "inplace" ELSE "mint")
    /\ UNCHANGED rows

\* update_policy with the name that was read; the name must still be free.
EditInPlace(a) ==
    /\ At(a, "edit", "inplace")
    /\ LET was == req[a].was IN
       IF Exists(was) /\ ~NameTaken(req[a].name, was)
       THEN /\ policies' = [policies EXCEPT ![was].settings = req[a].want,
                                            ![was].name = req[a].name]
            /\ Go(a, "commit")
       ELSE Answer(a) /\ UNCHANGED policies
    /\ UNCHANGED <<policyOf, groupPolicy, groupOf>>

\* mint_deviation_name and create_policy: the camera's name, or a free suffix of it.
EditMint(a) ==
    /\ At(a, "edit", "mint")
    /\ \E new \in Unused :
        LET name == CHOOSE n \in AutoNames : ~NameTaken(n, None) IN
        /\ policies' = [policies EXCEPT ![new] =
                [settings |-> req[a].want, origin |-> "deviation", name |-> name]]
        /\ req' = [req EXCEPT ![a].step = "pin", ![a].target = new]
    /\ UNCHANGED <<policyOf, groupPolicy, groupOf>>

\* set_camera_policy: an error if the policy is gone, nothing if the camera is.
SetCameraPolicy(c, p) ==
    policyOf' = IF policyOf[c] = None THEN policyOf ELSE [policyOf EXCEPT ![c] = p]

EditPin(a) ==
    /\ At(a, "edit", "pin")
    /\ IF Exists(req[a].target)
       THEN SetCameraPolicy(req[a].camera, req[a].target) /\ Go(a, "reap")
       ELSE Answer(a) /\ UNCHANGED policyOf
    /\ UNCHANGED <<policies, groupPolicy, groupOf>>

\* reap_policy_if_orphan_deviation.
EditReap(a) ==
    /\ At(a, "edit", "reap")
    /\ policies' = IF OrphanDeviation(req[a].was)
                   THEN [policies EXCEPT ![req[a].was] = None] ELSE policies
    /\ Go(a, "commit")
    /\ UNCHANGED <<policyOf, groupPolicy, groupOf>>

\* The lock's transaction ends; the policy is answered.
EditCommit(a) == At(a, "edit", "commit") /\ Answer(a) /\ UNCHANGED rows

(***************************************************************************)
(* PUT /config/cameras/{id}: assignment to a policy, grouped or not.       *)
(***************************************************************************)
AssignFind(a) ==
    /\ At(a, "assign", "find")
    /\ IF policyOf[req[a].camera] = None THEN Answer(a) ELSE Go(a, "require")
    /\ UNCHANGED rows

AssignRequire(a) ==
    /\ At(a, "assign", "require")
    /\ IF Exists(req[a].policy) THEN Go(a, "set") ELSE Answer(a)
    /\ UNCHANGED rows

AssignSet(a) ==
    /\ At(a, "assign", "set")
    /\ IF Exists(req[a].policy) THEN SetCameraPolicy(req[a].camera, req[a].policy)
                                ELSE UNCHANGED policyOf
    /\ Answer(a)
    /\ UNCHANGED <<policies, groupPolicy, groupOf>>

(***************************************************************************)
(* Policies by id: PUT (and PUT /config/policy/default), POST, DELETE.     *)
(***************************************************************************)
UpdateRead(a) ==
    /\ At(a, "update", "read")
    /\ LET r == req[a]  p == r.policy IN
       IF ~Exists(p) THEN Answer(a)
       ELSE req' = [req EXCEPT ![a].step = "write",
                        ![a].old = policies[p].name,
                        ![a].name = IF p = Default \/ r.name = Keep
                                    THEN policies[p].name ELSE r.name,
                        ![a].want = Patched(policies[p].settings, r.patch)]
    /\ UNCHANGED rows

UpdateWrite(a) ==
    /\ At(a, "update", "write")
    /\ LET r == req[a]  p == r.policy IN
       IF Exists(p) /\ ~NameTaken(r.name, p)
       THEN /\ policies' = [policies EXCEPT ![p].settings = r.want, ![p].name = r.name]
            /\ IF policies[p].origin = "deviation" /\ p # Default /\ r.name # r.old
               THEN Go(a, "promote") ELSE Answer(a)
       ELSE Answer(a) /\ UNCHANGED policies
    /\ UNCHANGED <<policyOf, groupPolicy, groupOf>>

\* promote_policy_to_operator.
UpdatePromote(a) ==
    /\ At(a, "update", "promote")
    /\ policies' = IF Exists(req[a].policy)
                   THEN [policies EXCEPT ![req[a].policy].origin = "operator"] ELSE policies
    /\ Answer(a)
    /\ UNCHANGED <<policyOf, groupPolicy, groupOf>>

CreateBase(a) ==
    /\ At(a, "create", "base")
    /\ req' = [req EXCEPT ![a].step = "insert",
                          ![a].want = Patched(policies[Default].settings, req[a].patch)]
    /\ UNCHANGED rows

CreateInsert(a) ==
    /\ At(a, "create", "insert")
    /\ \/ NameTaken(req[a].name, None) /\ UNCHANGED policies
       \/ \E new \in Unused :
            /\ ~NameTaken(req[a].name, None)
            /\ policies' = [policies EXCEPT ![new] =
                    [settings |-> req[a].want, origin |-> "operator", name |-> req[a].name]]
    /\ Answer(a)
    /\ UNCHANGED <<policyOf, groupPolicy, groupOf>>

\* A policy that is in use is refused by the count, and by its foreign keys.
DeleteCount(a) ==
    /\ At(a, "delete", "read")
    /\ IF Exists(req[a].policy) /\ References(req[a].policy) = {}
       THEN Go(a, "delete") ELSE Answer(a)
    /\ UNCHANGED rows

DeletePolicy(a) ==
    /\ At(a, "delete", "delete")
    /\ policies' = IF References(req[a].policy) = {}
                   THEN [policies EXCEPT ![req[a].policy] = None] ELSE policies
    /\ Answer(a)
    /\ UNCHANGED <<policyOf, groupPolicy, groupOf>>

(***************************************************************************)
(* Groups.  update_group and set_group_members are transactions: what they *)
(* read is read before, and their writes are seen at the commit.           *)
(***************************************************************************)
Grouped(g) == {c \in Cameras : groupOf[c] = g}
Pinned(cams, p) == [c \in Cameras |-> IF c \in cams /\ policyOf[c] # None THEN p ELSE policyOf[c]]

GroupRead(a) ==
    /\ At(a, "group", "read")
    /\ LET own == groupPolicy[req[a].group] IN
       IF own = None THEN Answer(a)
       ELSE req' = [req EXCEPT ![a].step = "require",
                               ![a].policy = IF @ = Keep THEN own ELSE @]
    /\ UNCHANGED rows

GroupRequire(a) ==
    /\ At(a, "group", "require")
    /\ IF req[a].policy # Inherit /\ ~Exists(req[a].policy) THEN Answer(a)
       ELSE req' = [req EXCEPT ![a].step = "commit", ![a].seats = Grouped(req[a].group)]
    /\ UNCHANGED rows

GroupCommit(a) ==
    /\ At(a, "group", "commit")
    /\ LET r == req[a] IN
       IF groupPolicy[r.group] # None /\ Exists(PinOf(r.policy))
       THEN /\ groupPolicy' = [groupPolicy EXCEPT ![r.group] = r.policy]
            /\ policyOf' = Pinned(r.seats, PinOf(r.policy))
       ELSE UNCHANGED <<groupPolicy, policyOf>>
    /\ Answer(a)
    /\ UNCHANGED <<policies, groupOf>>

\* create_group, then its members if the request names any.
NewGroup(a) ==
    /\ At(a, "newgroup", "find")
    /\ LET r == req[a] IN
       IF groupPolicy[r.group] = None /\ Exists(PinOf(r.policy))
       THEN /\ groupPolicy' = [groupPolicy EXCEPT ![r.group] = r.policy]
            /\ IF r.cameras = {} THEN Answer(a)
               ELSE req' = [req EXCEPT ![a].kind = "members", ![a].step = "pin"]
       ELSE Answer(a) /\ UNCHANGED groupPolicy
    /\ UNCHANGED <<policies, policyOf, groupOf>>

MembersRead(a) ==
    /\ At(a, "members", "read")
    /\ IF groupPolicy[req[a].group] = None THEN Answer(a) ELSE Go(a, "pin")
    /\ UNCHANGED rows

\* The statements of the transaction: the policy and the seats that they saw.
MembersPin(a) ==
    /\ At(a, "members", "pin")
    /\ LET r == req[a] IN
       IF groupPolicy[r.group] = None \/ \E c \in r.cameras : policyOf[c] = None
       THEN Answer(a)
       ELSE req' = [req EXCEPT ![a].step = "commit", ![a].seats = groupOf,
                               ![a].policy = PinOf(groupPolicy[r.group])]
    /\ UNCHANGED rows

\* A camera that another transaction has seated meanwhile breaks
\* one_group_per_camera; the foreign keys hold at the commit.
MembersCommit(a) ==
    /\ At(a, "members", "commit")
    /\ LET r == req[a] IN
       IF /\ groupPolicy[r.group] # None /\ Exists(r.policy)
          /\ \A c \in r.cameras : policyOf[c] # None /\ groupOf[c] \in {r.seats[c], None}
       THEN /\ groupOf' = [c \in Cameras |-> IF c \in r.cameras THEN r.group
                                ELSE IF r.seats[c] = r.group THEN None ELSE groupOf[c]]
            /\ policyOf' = Pinned(r.cameras, r.policy)
       ELSE UNCHANGED <<groupOf, policyOf>>
    /\ Answer(a)
    /\ UNCHANGED <<policies, groupPolicy>>

DelGroup(a) ==
    /\ At(a, "delgroup", "run")
    /\ groupPolicy' = [groupPolicy EXCEPT ![req[a].group] = None]
    /\ groupOf' = [c \in Cameras |-> IF groupOf[c] = req[a].group THEN None ELSE groupOf[c]]
    /\ Answer(a)
    /\ UNCHANGED <<policies, policyOf>>

(***************************************************************************)
(* Cameras come on Default and go with their membership; the policy stays. *)
(***************************************************************************)
NewCamera(a) ==
    /\ At(a, "newcamera", "run")
    /\ policyOf' = [policyOf EXCEPT ![req[a].camera] = IF @ = None THEN Default ELSE @]
    /\ Answer(a)
    /\ UNCHANGED <<policies, groupPolicy, groupOf>>

DelCamera(a) ==
    /\ At(a, "delcamera", "run")
    /\ policyOf' = [policyOf EXCEPT ![req[a].camera] = None]
    /\ groupOf' = [groupOf EXCEPT ![req[a].camera] = None]
    /\ Answer(a)
    /\ UNCHANGED <<policies, groupPolicy>>

\* The recorder's run_policy_reaper.
Reap ==
    /\ \E p \in PolicyIds : OrphanDeviation(p)
    /\ policies' = [p \in PolicyIds |-> IF OrphanDeviation(p) THEN None ELSE policies[p]]
    /\ UNCHANGED <<policyOf, groupPolicy, groupOf, req>>

(***************************************************************************)
(* The specification.                                                      *)
(***************************************************************************)
Init ==
    /\ \E s \in Settings : policies = [p \in PolicyIds |->
            IF p = Default THEN [settings |-> s, origin |-> "operator", name |-> "Default"]
                           ELSE None]
    /\ policyOf = [c \in Cameras |-> Default]
    /\ groupPolicy = [g \in Groups |-> None]
    /\ groupOf = [c \in Cameras |-> None]
    /\ req = [a \in Admins |-> Idle]

Edit(a) ==
    \/ EditCheck(a) \/ EditLock(a) \/ EditRead(a) \/ EditMatch(a)
    \/ EditOwn(a) \/ EditCount(a) \/ EditInPlace(a) \/ EditMint(a) \/ EditPin(a)
    \/ EditReap(a) \/ EditCommit(a)

Handle(a) ==
    \/ Edit(a)
    \/ AssignFind(a) \/ AssignRequire(a) \/ AssignSet(a)
    \/ UpdateRead(a) \/ UpdateWrite(a) \/ UpdatePromote(a)
    \/ CreateBase(a) \/ CreateInsert(a) \/ DeleteCount(a) \/ DeletePolicy(a)
    \/ GroupRead(a) \/ GroupRequire(a) \/ GroupCommit(a) \/ NewGroup(a)
    \/ MembersRead(a) \/ MembersPin(a) \/ MembersCommit(a) \/ DelGroup(a)
    \/ NewCamera(a) \/ DelCamera(a)

Next == Reap \/ \E a \in Admins : Receive(a) \/ Handle(a) \/ Drop(a)

Spec == Init /\ [][Next]_vars

(***************************************************************************)
(* Correctness.                                                            *)
(***************************************************************************)
TypeOK ==
    /\ policies \in [PolicyIds -> Policy \cup {None}] /\ Exists(Default)
    /\ policyOf \in [Cameras -> Live \cup {None}]
    /\ groupPolicy \in [Groups -> Live \cup {Inherit, None}]
    /\ groupOf \in [Cameras -> {g \in Groups : groupPolicy[g] # None} \cup {None}]

\* The settings that the recorder applies to a camera.
Recorded(c) == IF policyOf[c] = None THEN None ELSE policies[policyOf[c]].settings

\* What a camera edit keeps to.  When it is about to be answered, its camera records
\* with what the request asked for over what the camera had.
AnsweredEditHolds == \A a \in Admins :
    At(a, "edit", "commit") => Recorded(req[a].camera) \in {req[a].want, None}

\* It changes the recording of no other camera, whether it joins a policy, edits its
\* own in place or mints one.
EditsAreLocal == \A a \in Admins : Edit(a) =>
    \A c \in Cameras \ {req[a].camera} : Recorded(c)' = Recorded(c)

\* It mints a policy only if no policy has its settings: cameras with the same
\* settings end up on one policy, whatever edits run beside each other.
NoTwins == \A a \in Admins : EditMint(a) => Matching(req[a].want) = {}

\* A policy that an operator named, and Default, go or change only through the
\* requests about that policy.
TemplatesAreTheOperators == \A p \in Live :
    (policies[p].origin = "operator" /\ policies'[p] # policies[p])
        => \E a \in Admins : req[a].kind \in {"update", "delete"} /\ req[a].policy = p

\* All of it, of every step (update_camera_policy and what it calls, under the lock).
EditsKeepTheirWord ==
    [][AnsweredEditHolds' /\ EditsAreLocal /\ NoTwins /\ TemplatesAreTheOperators]_vars

=============================================================================
