----------------------------- MODULE DeployProofs -----------------------------
(***************************************************************************)
(* What deploy and teardown leave behind and report, for one terminal and  *)
(* whatever fails, dies or changes in between.  First the steps at each    *)
(* resource, kind by kind: what they make of the command (Moves), of the   *)
(* other resources (Spared) and of what the command knows (Knows); then    *)
(* the steps that are no resource's; then the two invariants, what they    *)
(* say of a run, and the refinement of Deployer.                           *)
(***************************************************************************)
EXTENDS DeployInvariants, FiniteSetTheorems, TLAPS

-----------------------------------------------------------------------------
(* The list. *)

\* Where a resource stands in the code's list.
Place(r) ==
    CASE r[1] = "table" -> 1
      [] r[1] = "bucket" -> IF r[2] = "web" THEN 2 ELSE 3
      [] r[1] = "role" -> IF r[2] = "gateway" THEN 4 ELSE IF r[2] = "webapi" THEN 5 ELSE 6
      [] r[1] = "profile" -> 7
      [] r[1] = "logs" -> IF r[2] = "gateway" THEN 8 ELSE IF r[2] = "webapi" THEN 9 ELSE 12
      [] r[1] = "function" -> IF r[2] = "gateway" THEN 10 ELSE 11
      [] r[1] = "http api" -> 13
      [] r[1] = "distribution" -> 14
      [] r[1] = "sync" -> 15

\* The code's list, position by position.
LEMMA TheList ==
  /\ DOMAIN AllResources = 1 .. 15
  /\ AllResources[1] = Sessions /\ AllResources[2] = Bucket("web")
  /\ AllResources[3] = Bucket("data") /\ AllResources[4] = Role("gateway")
  /\ AllResources[5] = Role("webapi") /\ AllResources[6] = Role("spawn")
  /\ AllResources[7] = Profile /\ AllResources[8] = Logs("gateway")
  /\ AllResources[9] = Logs("webapi") /\ AllResources[10] = Function("gateway")
  /\ AllResources[11] = Function("webapi") /\ AllResources[12] = Logs("api")
  /\ AllResources[13] = HttpApi /\ AllResources[14] = Cdn /\ AllResources[15] = WebSync
  <1>1. DOMAIN AllResources = 1 .. 15 BY DEF AllResources
  <1>2. /\ AllResources[1] = Sessions /\ AllResources[2] = Bucket("web")
        /\ AllResources[3] = Bucket("data") /\ AllResources[4] = Role("gateway")
        /\ AllResources[5] = Role("webapi") /\ AllResources[6] = Role("spawn")
        /\ AllResources[7] = Profile /\ AllResources[8] = Logs("gateway")
    BY DEF AllResources, Sessions, Bucket, Role, Profile, Logs
  <1>3. /\ AllResources[9] = Logs("webapi") /\ AllResources[10] = Function("gateway")
        /\ AllResources[11] = Function("webapi") /\ AllResources[12] = Logs("api")
        /\ AllResources[13] = HttpApi /\ AllResources[14] = Cdn /\ AllResources[15] = WebSync
    BY DEF AllResources, Logs, Function, HttpApi, Cdn, WebSync
  <1> QED BY <1>1, <1>2, <1>3

\* Every resource there is, by its name, and where it stands.
LEMMA ThePlaces ==
  /\ Place(Sessions) = 1 /\ Place(Bucket("web")) = 2 /\ Place(Bucket("data")) = 3
  /\ Place(Role("gateway")) = 4 /\ Place(Role("webapi")) = 5 /\ Place(Role("spawn")) = 6
  /\ Place(Profile) = 7 /\ Place(Logs("gateway")) = 8 /\ Place(Logs("webapi")) = 9
  /\ Place(Function("gateway")) = 10 /\ Place(Function("webapi")) = 11
  /\ Place(Logs("api")) = 12 /\ Place(HttpApi) = 13 /\ Place(Cdn) = 14
  /\ Place(WebSync) = 15
  <1>1. /\ Place(Sessions) = 1 /\ Place(Bucket("web")) = 2 /\ Place(Bucket("data")) = 3
        /\ Place(Role("gateway")) = 4 /\ Place(Role("webapi")) = 5 /\ Place(Role("spawn")) = 6
        /\ Place(Profile) = 7
    BY DEF Place, Sessions, Bucket, Role, Profile
  <1>2. /\ Place(Logs("gateway")) = 8 /\ Place(Logs("webapi")) = 9
        /\ Place(Function("gateway")) = 10 /\ Place(Function("webapi")) = 11
        /\ Place(Logs("api")) = 12 /\ Place(HttpApi) = 13 /\ Place(Cdn) = 14
        /\ Place(WebSync) = 15
    BY DEF Place, Logs, Function, HttpApi, Cdn, WebSync
  <1> QED BY <1>1, <1>2

LEMMA EachIsListed ==
  /\ {Sessions, Bucket("web"), Bucket("data"), Profile} \subseteq Range(AllResources)
  /\ {Function("gateway"), Function("webapi"), HttpApi, Cdn, WebSync} \subseteq Range(AllResources)
  <1>1. {1, 2, 3, 7, 10, 11, 13, 14, 15} \subseteq DOMAIN AllResources BY TheList
  <1> QED BY <1>1, TheList DEF Range

LEMMA PlaceOfEach == \A i \in 1 .. 15 : Place(AllResources[i]) = i
  <1> TAKE i \in 1 .. 15
  <1>1. \/ i = 1 \/ i = 2 \/ i = 3 \/ i = 4 \/ i = 5 \/ i = 6 \/ i = 7 \/ i = 8 \/ i = 9
        \/ i = 10 \/ i = 11 \/ i = 12 \/ i = 13 \/ i = 14 \/ i = 15
    OBVIOUS
  <1>2. CASE i = 1 \/ i = 2 \/ i = 3 \/ i = 4 \/ i = 5 \/ i = 6 \/ i = 7 \/ i = 8
    BY <1>2, TheList, ThePlaces, Zenon
  <1>3. CASE i = 9 \/ i = 10 \/ i = 11 \/ i = 12 \/ i = 13 \/ i = 14 \/ i = 15
    BY <1>3, TheList, ThePlaces, Zenon
  <1> QED BY <1>1, <1>2, <1>3, Zenon

LEMMA PlaceOfAny == \A r \in Range(AllResources) : Place(r) \in 1 .. 15
  <1> TAKE r \in Range(AllResources)
  <1>1. PICK k \in 1 .. 15 : AllResources[k] = r BY TheList DEF Range
  <1> QED BY <1>1, PlaceOfEach

\* The code's own list is one of those the walk may have.
LEMMA TheWholeList ==
  /\ AllResources \in Seq(Range(AllResources))
  /\ \A i, j \in DOMAIN AllResources : i < j => Before(AllResources[i], AllResources[j])
  <1>1. AllResources =
          << Sessions, Bucket("web"), Bucket("data"), Role("gateway"), Role("webapi"),
             Role("spawn"), Profile, Logs("gateway"), Logs("webapi"), Function("gateway"),
             Function("webapi"), Logs("api"), HttpApi, Cdn, WebSync >>
    BY DEF AllResources, Sessions, Bucket, Role, Profile, Logs, Function, HttpApi, Cdn, WebSync
  <1>2. /\ Sessions \in Range(AllResources) /\ Bucket("web") \in Range(AllResources)
        /\ Bucket("data") \in Range(AllResources) /\ Role("gateway") \in Range(AllResources)
        /\ Role("webapi") \in Range(AllResources) /\ Role("spawn") \in Range(AllResources)
        /\ Profile \in Range(AllResources) /\ Logs("gateway") \in Range(AllResources)
        /\ Logs("webapi") \in Range(AllResources) /\ Function("gateway") \in Range(AllResources)
        /\ Function("webapi") \in Range(AllResources) /\ Logs("api") \in Range(AllResources)
        /\ HttpApi \in Range(AllResources) /\ Cdn \in Range(AllResources)
        /\ WebSync \in Range(AllResources)
    <2>1. \A i \in 1 .. 15 : AllResources[i] \in Range(AllResources) BY TheList DEF Range
    <2> QED BY <2>1, TheList
  <1>3. AllResources \in Seq(Range(AllResources)) BY <1>1, <1>2
  <1> QED BY <1>3 DEF Before

\* What is walked: resources of the code's list, in its order.
LEMMA TheWalk ==
  /\ Len(Resources) \in Nat \ {0} /\ DOMAIN Resources = 1 .. Len(Resources)
  /\ \A i \in DOMAIN Resources : Resources[i] \in Range(AllResources)
  /\ \A i, j \in DOMAIN Resources : i < j => Place(Resources[i]) < Place(Resources[j])
  /\ \A i, j \in DOMAIN Resources : Resources[i] = Resources[j] => i = j
  <1>1. Resources \in Seq(Range(AllResources)) BY ListAssumption
  <1>2. \A i \in DOMAIN Resources : Resources[i] \in Range(AllResources) BY <1>1
  <1>3. \A i, j \in DOMAIN Resources : i < j => Place(Resources[i]) < Place(Resources[j])
    <2> SUFFICES ASSUME NEW i \in DOMAIN Resources, NEW j \in DOMAIN Resources, i < j
                 PROVE  Place(Resources[i]) < Place(Resources[j])
      OBVIOUS
    <2>1. PICK k \in 1 .. 15, l \in 1 .. 15 :
             k < l /\ AllResources[k] = Resources[i] /\ AllResources[l] = Resources[j]
      BY ListAssumption, TheList DEF Before
    <2>2. Place(AllResources[k]) = k /\ Place(AllResources[l]) = l BY PlaceOfEach
    <2> QED BY <2>1, <2>2
  <1>4. DOMAIN Resources = 1 .. Len(Resources) /\ Len(Resources) \in Nat BY <1>1
  <1>5. \A i, j \in DOMAIN Resources : Resources[i] = Resources[j] => i = j
    <2> SUFFICES ASSUME NEW i \in DOMAIN Resources, NEW j \in DOMAIN Resources,
                        Resources[i] = Resources[j], i # j
                 PROVE  FALSE
      OBVIOUS
    <2>1. Place(Resources[i]) \in 1 .. 15
      <3>1. PICK k \in 1 .. 15 : AllResources[k] = Resources[i]
        BY <1>2, TheList DEF Range
      <3> QED BY <3>1, PlaceOfEach
    <2>2. i < j \/ j < i BY <1>4
    <2> QED BY <1>3, <2>1, <2>2
  <1>6. Len(Resources) # 0
    <2>1. HttpApi \in Range(AllResources) /\ HttpApi[1] = "http api"
      <3>1. 13 \in DOMAIN AllResources BY TheList
      <3> QED BY <3>1, TheList DEF Range, HttpApi
    <2>2. HttpApi \in Range(Resources) BY <2>1, ListAssumption
    <2>3. PICK i \in DOMAIN Resources : TRUE BY <2>2 DEF Range
    <2> QED BY <1>4, <2>3
  <1> QED BY <1>2, <1>3, <1>4, <1>5, <1>6

\* The page is the last of the list.
LEMMA SyncIsLast ==
  ASSUME NEW i \in DOMAIN Resources, Resources[i] = WebSync
  PROVE  i = Len(Resources) /\ \A j \in DOMAIN Resources : j = i \/ j < i
  <1>1. \A j \in DOMAIN Resources : ~(i < j)
    <2> SUFFICES ASSUME NEW j \in DOMAIN Resources, i < j PROVE FALSE OBVIOUS
    <2>1. Place(Resources[j]) \in 1 .. 15 BY TheWalk, PlaceOfAny
    <2>2. 15 < Place(Resources[j]) BY TheWalk, ThePlaces
    <2> QED BY <2>1, <2>2
  <1>2. DOMAIN Resources = 1 .. Len(Resources) /\ Len(Resources) \in Nat \ {0} BY TheWalk
  <1>3. \A j \in DOMAIN Resources : j = i \/ j < i BY <1>1, <1>2
  <1>4. Len(Resources) \in DOMAIN Resources BY <1>2
  <1> QED BY <1>2, <1>3, <1>4

-----------------------------------------------------------------------------
(* How the one command moves. *)

\* One terminal: two deploys at once can make two APIs (see the hazards).
Alone == \E o : Operators = {o}

LEMMA OneTerminal == Alone => Operators = {Me}
  BY DEF Alone, Me

\* It stays at its resource.
Stays ==
    /\ run' \in [Operators -> Commands]
    /\ Cmd'.verb = Cmd.verb /\ Cmd'.at = Cmd.at /\ Cmd'.met = Cmd.met
    /\ Cmd'.outcome = Cmd.outcome

\* It comes to the first step of a resource, or to its end.
Leaves ==
    /\ run' \in [Operators -> Commands]
    /\ \/ /\ Cmd'.verb = Cmd.verb /\ Cmd'.at # 0 /\ Cmd'.step = "start"
          /\ Cmd'.outcome = Cmd.outcome
       \/ Cmd'.verb = "idle" /\ Cmd'.at = 0

LEMMA CmdType ==
  ASSUME Alone, TypeOK
  PROVE  /\ Cmd \in Commands /\ Me \in Operators
         /\ Cmd.at \in Nat /\ Cmd.at \in 0 .. Len(Resources)
         /\ Cmd.at # 0 => Cmd.at \in DOMAIN Resources
         /\ Cmd.saw \in References /\ Cmd.tries \in Nat
         /\ Cmd.verb \in {"idle", "apply", "teardown"}
         /\ Cmd.met \in {"nothing", "refusal", "mishap"}
  <1>1. Me \in Operators /\ Cmd \in Commands BY OneTerminal DEF TypeOK, Cmd
  <1>2. Cmd.at \in 0 .. Len(Resources) BY <1>1 DEF Commands
  <1> QED BY <1>1, <1>2, TheWalk DEF Commands

\* What the command becomes is what it is then, and the only command.
LEMMA Becoming ==
  ASSUME Alone, TypeOK, NEW c \in Commands, Becomes(Me, c)
  PROVE  run' \in [Operators -> Commands] /\ Cmd' = c
  BY OneTerminal DEF Becomes, TypeOK, Cmd

LEMMA Going ==
  ASSUME Alone, TypeOK, NEW step \in Steps, Goto(Me, step)
  PROVE  /\ Stays
         /\ Cmd'.step = step /\ Cmd'.saw = Cmd.saw
         /\ Cmd'.fresh = Cmd.fresh /\ Cmd'.tries = Cmd.tries
  <1>1. [Cmd EXCEPT !.step = step] \in Commands BY CmdType DEF Commands
  <1>2. run' \in [Operators -> Commands] /\ Cmd' = [Cmd EXCEPT !.step = step]
    BY <1>1, Becoming DEF Goto, Cmd
  <1> QED BY <1>2, CmdType DEF Stays, Commands

LEMMA Finding ==
  ASSUME Alone, TypeOK, NEW step \in Steps, NEW id \in References, Found(Me, id, step)
  PROVE  Stays /\ Cmd'.step = step /\ Cmd'.saw = id
  <1>1. [Cmd EXCEPT !.saw = id, !.step = step] \in Commands BY CmdType DEF Commands
  <1>2. run' \in [Operators -> Commands] /\ Cmd' = [Cmd EXCEPT !.saw = id, !.step = step]
    BY <1>1, Becoming DEF Found, Cmd
  <1> QED BY <1>2, CmdType DEF Stays, Commands

\* The next resource's first step, in either direction.
LEMMA Arriving ==
  ASSUME NEW c \in Commands, NEW i \in 0 .. Len(Resources)
  PROVE  /\ Arrive(c, i) \in Commands
         /\ Arrive(c, i).at = i /\ Arrive(c, i).step = "start"
         /\ Arrive(c, i).verb = c.verb /\ Arrive(c, i).met = c.met
         /\ Arrive(c, i).outcome = c.outcome
  <1>1. None \in References BY DEF References
  <1>2. "start" \in Steps BY DEF Steps
  <1> QED BY <1>1, <1>2 DEF Arrive, Commands

LEMMA Ending ==
  ASSUME NEW c \in Commands, NEW how \in Outcomes
  PROVE  /\ Ended(c, how) \in Commands
         /\ Ended(c, how).at = 0 /\ Ended(c, how).verb = "idle"
         /\ Ended(c, how).met = c.met /\ Ended(c, how).outcome = how
  <1>1. AtRest \in Commands
    <2>1. 0 \in 0 .. Len(Resources) BY TheWalk
    <2>2. None \in References /\ "none" \in Outcomes BY DEF References, Outcomes
    <2>3. "" \in Steps BY DEF Steps
    <2> QED BY <2>1, <2>2, <2>3 DEF AtRest, Commands
  <1>2. AtRest.at = 0 /\ AtRest.verb = "idle" BY DEF AtRest
  <1> QED BY <1>1, <1>2 DEF Ended, Commands

\* What Passed makes of a command at a resource.
LEMMA Passing ==
  ASSUME NEW c \in Commands, c.at # 0, c.verb # "idle"
  PROVE  /\ Passed(c) \in Commands /\ Passed(c).met = c.met
         /\ \/ /\ Passed(c).verb = c.verb /\ Passed(c).at # 0 /\ Passed(c).step = "start"
               /\ Passed(c).outcome = c.outcome
               /\ \/ c.verb = "apply" /\ c.at < Len(Resources) /\ Passed(c).at = c.at + 1
                  \/ c.verb = "teardown" /\ c.at > 1 /\ Passed(c).at = c.at - 1
            \/ /\ Passed(c).verb = "idle" /\ Passed(c).at = 0
               /\ \/ /\ c.verb = "apply" /\ c.at = Len(Resources)
                     /\ Passed(c).outcome = "applied"
                  \/ /\ c.verb = "teardown" /\ c.at = 1
                     /\ Passed(c).outcome =
                          IF c.met = "nothing" THEN "torn down" ELSE "teardown failed"
  <1>1. c.at \in 1 .. Len(Resources) /\ Len(Resources) \in Nat BY TheWalk DEF Commands
  <1>2. c.verb \in {"apply", "teardown"} BY DEF Commands
  <1>3. CASE c.verb = "apply" /\ c.at < Len(Resources)
    <2>1. Passed(c) = Arrive(c, c.at + 1) BY <1>3 DEF Passed
    <2>2. c.at + 1 \in 0 .. Len(Resources) /\ c.at + 1 # 0 BY <1>1, <1>3
    <2> QED BY <1>3, <2>1, <2>2, Arriving
  <1>4. CASE c.verb = "apply" /\ c.at = Len(Resources)
    <2>1. Passed(c) = Ended(c, "applied") BY <1>1, <1>4 DEF Passed
    <2>2. "applied" \in Outcomes BY DEF Outcomes
    <2> QED BY <1>4, <2>1, <2>2, Ending
  <1>5. CASE c.verb = "teardown" /\ c.at > 1
    <2>0. c.verb # "apply" /\ c.at # 1 BY <1>1, <1>5
    <2>1. Passed(c) = Arrive(c, c.at - 1) BY <1>5, <2>0 DEF Passed
    <2>2. c.at - 1 \in 0 .. Len(Resources) /\ c.at - 1 # 0 BY <1>1, <1>5
    <2>3. /\ Passed(c) \in Commands /\ Passed(c).at = c.at - 1 /\ Passed(c).step = "start"
          /\ Passed(c).verb = c.verb /\ Passed(c).met = c.met
          /\ Passed(c).outcome = c.outcome
      BY <2>1, <2>2, Arriving
    <2> QED BY <1>5, <2>2, <2>3
  <1>6. CASE c.verb = "teardown" /\ c.at = 1
    <2> DEFINE how == IF c.met = "nothing" THEN "torn down" ELSE "teardown failed"
    <2>1. Passed(c) = Ended(c, how) BY <1>1, <1>6 DEF Passed
    <2>2. how \in Outcomes BY DEF Outcomes
    <2> HIDE DEF how
    <2>3. Ended(c, how) \in Commands /\ Ended(c, how).at = 0 /\ Ended(c, how).verb = "idle"
          /\ Ended(c, how).met = c.met /\ Ended(c, how).outcome = how
      BY <2>2, Ending
    <2> QED BY <1>6, <2>1, <2>3 DEF how
  <1>7. \/ c.verb = "apply" /\ (c.at < Len(Resources) \/ c.at = Len(Resources))
        \/ c.verb = "teardown" /\ (c.at > 1 \/ c.at = 1)
    BY <1>1, <1>2
  <1> QED BY <1>3, <1>4, <1>5, <1>6, <1>7, Zenon

\* What Failed makes of it.
LEMMA Failing ==
  ASSUME NEW c \in Commands, c.at # 0, c.verb # "idle", NEW what \in {"refusal", "mishap"}
  PROVE  /\ Failed(c, what) \in Commands
         /\ Failed(c, what).met = IF c.met = "mishap" THEN "mishap" ELSE what
         /\ \/ /\ Failed(c, what).verb = c.verb /\ Failed(c, what).at # 0
               /\ Failed(c, what).step = "start" /\ Failed(c, what).outcome = c.outcome
               /\ c.verb = "teardown" /\ c.at > 1 /\ Failed(c, what).at = c.at - 1
            \/ /\ Failed(c, what).verb = "idle" /\ Failed(c, what).at = 0
               /\ \/ c.verb = "apply" /\ Failed(c, what).outcome = "apply failed"
                  \/ /\ c.verb = "teardown" /\ c.at = 1
                     /\ Failed(c, what).outcome = "teardown failed"
  <1> DEFINE noted == [c EXCEPT !.met = IF @ = "mishap" THEN @ ELSE what]
  <1>1. /\ noted \in Commands /\ noted.at = c.at /\ noted.verb = c.verb
        /\ noted.outcome = c.outcome
        /\ noted.met = IF c.met = "mishap" THEN "mishap" ELSE what
    BY DEF Commands
  <1>2. Failed(c, what) = IF c.verb = "apply" THEN Ended(noted, "apply failed") ELSE Passed(noted)
    BY DEF Failed
  <1> HIDE DEF noted
  <1>3. CASE c.verb = "apply"
    <2>1. "apply failed" \in Outcomes BY DEF Outcomes
    <2>2. /\ Ended(noted, "apply failed") \in Commands
          /\ Ended(noted, "apply failed").at = 0 /\ Ended(noted, "apply failed").verb = "idle"
          /\ Ended(noted, "apply failed").met = noted.met
          /\ Ended(noted, "apply failed").outcome = "apply failed"
      BY <1>1, <2>1, Ending
    <2> QED BY <1>1, <1>2, <1>3, <2>2
  <1>4. CASE c.verb # "apply"
    <2>1. c.verb = "teardown" BY <1>4 DEF Commands
    <2>2. noted.met # "nothing" BY <1>1
    <2> QED BY <1>1, <1>2, <2>1, <2>2, Passing
  <1> QED BY <1>3, <1>4

-----------------------------------------------------------------------------
(* What a step at one resource does to the others. *)

\* Every resource is one of these.
LEMMA EveryKind ==
  \A r \in Range(AllResources) :
     \/ r = Sessions \/ r = Profile \/ r = HttpApi \/ r = Cdn \/ r = WebSync
     \/ \E b \in BucketNames : r = Bucket(b)
     \/ \E n \in RoleNames : r = Role(n)
     \/ \E f \in FunctionNames : r = Function(f)
     \/ \E g \in GroupNames : r = Logs(g)
  <1> TAKE r \in Range(AllResources)
  <1>1. PICK i \in 1 .. 15 : AllResources[i] = r BY TheList DEF Range
  <1>2. \/ i = 1 \/ i = 2 \/ i = 3 \/ i = 4 \/ i = 5 \/ i = 6 \/ i = 7 \/ i = 8 \/ i = 9
        \/ i = 10 \/ i = 11 \/ i = 12 \/ i = 13 \/ i = 14 \/ i = 15
    OBVIOUS
  <1>3. /\ "web" \in BucketNames /\ "data" \in BucketNames /\ "gateway" \in RoleNames
        /\ "webapi" \in RoleNames /\ "spawn" \in RoleNames /\ "gateway" \in FunctionNames
        /\ "webapi" \in FunctionNames /\ "gateway" \in GroupNames /\ "webapi" \in GroupNames
        /\ "api" \in GroupNames
    BY DEF BucketNames, RoleNames, FunctionNames, GroupNames
  <1>4. CASE i = 1 \/ i = 2 \/ i = 3 \/ i = 4 \/ i = 5 \/ i = 6 \/ i = 7 \/ i = 8
    BY <1>1, <1>3, <1>4, TheList, Zenon
  <1>5. CASE i = 9 \/ i = 10 \/ i = 11 \/ i = 12 \/ i = 13 \/ i = 14 \/ i = 15
    BY <1>1, <1>3, <1>5, TheList, Zenon
  <1> QED BY <1>2, <1>4, <1>5, Zenon

\* What is said of a resource is said of its service.
LEMMA OfTheService ==
  /\ (Absent(Sessions) <=> TableAbsent) /\ (Whole(Sessions) <=> TableWhole)
  /\ \A b : (Absent(Bucket(b)) <=> BucketAbsent(b)) /\ (Whole(Bucket(b)) <=> BucketWhole(b))
  /\ \A n : (Absent(Role(n)) <=> RoleAbsent(n)) /\ (Whole(Role(n)) <=> RoleWhole(n))
  /\ (Absent(Profile) <=> ProfileAbsent) /\ (Whole(Profile) <=> ProfileWhole)
  /\ \A g : (Absent(Logs(g)) <=> LogsAbsent(g)) /\ (Whole(Logs(g)) <=> LogsWhole(g))
  /\ \A f : (Absent(Function(f)) <=> FunctionAbsent(f)) /\ (Whole(Function(f)) <=> FunctionWhole(f))
  /\ (Absent(HttpApi) <=> ApiAbsent) /\ (Whole(HttpApi) <=> ApiWhole)
  /\ (Absent(Cdn) <=> CdnAbsent) /\ (Whole(Cdn) <=> CdnWhole)
  /\ (Absent(WebSync) <=> PageAbsent) /\ (Whole(WebSync) <=> PageWhole)
  BY DEF Absent, Whole, Sessions, Bucket, Role, Profile, Logs, Function, HttpApi, Cdn, WebSync

LEMMA OfTheServiceNext ==
  /\ (Absent(Sessions)' <=> TableAbsent') /\ (Whole(Sessions)' <=> TableWhole')
  /\ \A b : (Absent(Bucket(b))' <=> BucketAbsent(b)') /\ (Whole(Bucket(b))' <=> BucketWhole(b)')
  /\ \A n : (Absent(Role(n))' <=> RoleAbsent(n)') /\ (Whole(Role(n))' <=> RoleWhole(n)')
  /\ (Absent(Profile)' <=> ProfileAbsent') /\ (Whole(Profile)' <=> ProfileWhole')
  /\ \A g : (Absent(Logs(g))' <=> LogsAbsent(g)') /\ (Whole(Logs(g))' <=> LogsWhole(g)')
  /\ \A f : (Absent(Function(f))' <=> FunctionAbsent(f)') /\ (Whole(Function(f))' <=> FunctionWhole(f)')
  /\ (Absent(HttpApi)' <=> ApiAbsent') /\ (Whole(HttpApi)' <=> ApiWhole')
  /\ (Absent(Cdn)' <=> CdnAbsent') /\ (Whole(Cdn)' <=> CdnWhole')
  /\ (Absent(WebSync)' <=> PageAbsent') /\ (Whole(WebSync)' <=> PageWhole')
  BY DEF Absent, Whole, Sessions, Bucket, Role, Profile, Logs, Function, HttpApi, Cdn, WebSync

Same(r) == (Absent(r)' <=> Absent(r)) /\ (Whole(r)' <=> Whole(r))

\* A resource looks the same while what it is made of stays.
LEMMA Unmoved ==
  /\ table' = table => Same(Sessions)
  /\ \A b \in BucketNames :
        bucket'[b].there = bucket[b].there /\ bucket'[b].posture = bucket[b].posture
           => Same(Bucket(b))
  /\ bucket'["web"].objects = bucket["web"].objects => Same(WebSync)
  /\ \A n \in RoleNames : role'[n] = role[n] => Same(Role(n))
  /\ profile' = profile => Same(Profile)
  /\ \A g \in GroupNames : logs'[g] = logs[g] => Same(Logs(g))
  /\ \A f \in FunctionNames :
        function'[f].there = function[f].there /\ function'[f].code = function[f].code
          /\ function'[f].config = function[f].config
           => Same(Function(f))
  /\ apis' = apis /\ (\A f \in FunctionNames : function'[f].allows = function[f].allows)
        => Same(HttpApi)
  /\ dists' = dists /\ oac' = oac /\ apis' = apis
       /\ (\A b \in BucketNames : bucket'[b].names = bucket[b].names)
        => Same(Cdn)
  <1>1. table' = table => Same(Sessions)
    BY OfTheService, OfTheServiceNext DEF Same, TableAbsent, TableWhole
  <1>2. \A b \in BucketNames :
           bucket'[b].there = bucket[b].there /\ bucket'[b].posture = bucket[b].posture
              => Same(Bucket(b))
    BY OfTheService, OfTheServiceNext DEF Same, BucketAbsent, BucketWhole, Posture
  <1>3. bucket'["web"].objects = bucket["web"].objects => Same(WebSync)
    BY OfTheService, OfTheServiceNext DEF Same, PageAbsent, PageWhole
  <1>4. \A n \in RoleNames : role'[n] = role[n] => Same(Role(n))
    BY OfTheService, OfTheServiceNext DEF Same, RoleAbsent, RoleWhole, Policies
  <1>5. profile' = profile => Same(Profile)
    BY OfTheService, OfTheServiceNext DEF Same, ProfileAbsent, ProfileWhole
  <1>6. \A g \in GroupNames : logs'[g] = logs[g] => Same(Logs(g))
    BY OfTheService, OfTheServiceNext DEF Same, LogsAbsent, LogsWhole
  <1>7. \A f \in FunctionNames :
        function'[f].there = function[f].there /\ function'[f].code = function[f].code
          /\ function'[f].config = function[f].config
           => Same(Function(f))
    <2> TAKE f \in FunctionNames
    <2> HAVE /\ function'[f].there = function[f].there /\ function'[f].code = function[f].code
             /\ function'[f].config = function[f].config
    <2>1. (FunctionAbsent(f)' <=> FunctionAbsent(f)) /\ (FunctionWhole(f)' <=> FunctionWhole(f))
      BY DEF FunctionAbsent, FunctionWhole
    <2> QED BY <2>1, OfTheService, OfTheServiceNext DEF Same
  <1>8. apis' = apis /\ (\A f \in FunctionNames : function'[f].allows = function[f].allows)
        => Same(HttpApi)
    BY OfTheService, OfTheServiceNext DEF Same, ApiAbsent, ApiWhole
  <1>9. dists' = dists /\ oac' = oac /\ apis' = apis
          /\ (\A b \in BucketNames : bucket'[b].names = bucket[b].names)
           => Same(Cdn)
    <2> HAVE /\ dists' = dists /\ oac' = oac /\ apis' = apis
             /\ \A b \in BucketNames : bucket'[b].names = bucket[b].names
    <2>1. bucket'["web"].names = bucket["web"].names /\ bucket'["data"].names = bucket["data"].names
      BY DEF BucketNames
    <2>2. (CdnAbsent' <=> CdnAbsent) /\ (CdnWhole' <=> CdnWhole)
      BY <2>1 DEF CdnAbsent, CdnWhole
    <2> QED BY <2>2, OfTheService, OfTheServiceNext DEF Same
  <1> QED BY <1>1, <1>2, <1>3, <1>4, <1>5, <1>6, <1>7, <1>8, <1>9

\* What a resource's own steps may change, besides itself.
Leads(r, s) ==
    \/ r[1] = "bucket" /\ s[1] \in {"distribution", "sync"}
    \/ r[1] = "function" /\ s[1] = "http api"
    \/ r[1] = "http api" /\ s[1] = "distribution"

\* No other resource changes, but one that this one leads to, and that is not made.
Spared(here) ==
    \A r \in Range(AllResources) :
       r # here => Same(r) \/ (Leads(here, r) /\ (Absent(r) => Absent(r)'))

-----------------------------------------------------------------------------
(* What a step makes of the command. *)

LEMMA DoingIs ==
  /\ \A verb, r, step :
        Doing(Me, verb, r, step) <=>
           Cmd.step = step /\ Cmd.verb = verb /\ Cmd.at # 0 /\ Resources[Cmd.at] = r
  /\ \A verb, r, step :
        Doing(Me, verb, r, step)' <=>
           Cmd'.step = step /\ Cmd'.verb = verb /\ Cmd'.at # 0 /\ Resources[Cmd'.at] = r
  BY DEF Doing, Cmd

Advances == run' \in [Operators -> Commands] /\ Cmd' = Passed(Cmd)

Stumbles(what) == run' \in [Operators -> Commands] /\ Cmd' = Failed(Cmd, what)

\* The end of an apply that has no page to upload.
EndsBare ==
    /\ Cmd.verb = "apply"
    /\ run' \in [Operators -> Commands] /\ Cmd' = Ended(Cmd, "applied bare")
    /\ UNCHANGED cloud

\* What a step at a resource comes to: only one that has done its work goes on to the
\* next, or had none to do at the last; and none is refused to a command that met no mishap and has the right behind it.
Moves(here) ==
    \/ Stays /\ Cmd'.step # "layer"
    \/ /\ Advances
       /\ Cmd.verb = "apply" => Whole(here)'
       /\ Cmd.verb = "teardown" => Absent(here)' \/ here = WebSync
    \/ Stumbles("mishap")
    \/ Stumbles("refusal") /\ (Cmd.met = "nothing" => ~Behind)
    \/ here = WebSync /\ EndsBare

\* What it makes of the command.
LEMMA EndingBare ==
  ASSUME Alone, TypeOK, EndsBare
  PROVE  /\ run' \in [Operators -> Commands] /\ Cmd'.verb = "idle" /\ Cmd'.at = 0
         /\ Cmd'.met = Cmd.met /\ Cmd'.outcome = "applied bare"
  <1>1. Cmd \in Commands /\ "applied bare" \in Outcomes BY CmdType DEF Outcomes
  <1> QED BY <1>1, Ending DEF EndsBare

LEMMA Completing ==
  ASSUME Alone, TypeOK, Cmd.at # 0, Cmd.verb # "idle", Complete(Me)
  PROVE  Advances \/ Stumbles("mishap")
  <1>1. Cmd \in Commands BY CmdType
  <1>2. Passed(Cmd) \in Commands /\ Failed(Cmd, "mishap") \in Commands
    BY <1>1, Passing, Failing
  <1>3. CASE Becomes(Me, Passed(Cmd))
    BY <1>2, <1>3, Becoming DEF Advances
  <1>4. CASE Becomes(Me, Failed(Cmd, "mishap"))
    BY <1>2, <1>4, Becoming DEF Stumbles
  <1> QED BY <1>3, <1>4 DEF Complete, Errs, Cmd

LEMMA Erring ==
  ASSUME Alone, TypeOK, Cmd.at # 0, Cmd.verb # "idle", NEW what \in {"refusal", "mishap"},
         Errs(Me, what)
  PROVE  Stumbles(what)
  <1>1. Cmd \in Commands BY CmdType
  <1>2. Failed(Cmd, what) \in Commands BY <1>1, Failing
  <1>3. Becomes(Me, Failed(Cmd, what)) BY DEF Errs, Cmd
  <1> QED BY <1>2, <1>3, Becoming DEF Stumbles

\* A command that leaves its resource comes to the next one, or to its end.
LEMMA Leaving ==
  ASSUME Alone, TypeOK, Somewhere, Cmd.at # 0,
         Advances \/ Stumbles("mishap") \/ Stumbles("refusal") \/ EndsBare
  PROVE  Leaves
  <1>1. Cmd \in Commands /\ Cmd.verb # "idle" BY CmdType DEF Somewhere
  <1>2. CASE Advances
    BY <1>1, <1>2, Passing DEF Advances, Leaves
  <1>3. ASSUME NEW what \in {"refusal", "mishap"}, Stumbles(what) PROVE Leaves
    BY <1>1, <1>3, Failing DEF Stumbles, Leaves
  <1>4. CASE EndsBare
    BY <1>4, EndingBare DEF Leaves
  <1> QED BY <1>2, <1>3, <1>4

\* It knows nothing yet where it comes to.
LEMMA KnowsNothingYet == ASSUME Leaves PROVE Knows'
  <1>1. Cmd'.at = 0 \/ Cmd'.step = "start" BY DEF Leaves
  <1>2. \A verb, r, step : step # "start" => ~ Doing(Me, verb, r, step)'
    BY <1>1, DoingIs
  <1>3. KnowsBucket' /\ KnowsRole' /\ KnowsProfile' BY <1>2 DEF KnowsBucket, KnowsRole, KnowsProfile
  <1>4. KnowsFunction' BY <1>2 DEF KnowsFunction
  <1>5. KnowsApi'
    <2>1. \A f \in FunctionNames : f # "start" BY DEF FunctionNames
    <2> QED BY <1>2, <2>1 DEF KnowsApi
  <1>6. KnowsCdn' BY <1>2 DEF KnowsCdn
  <1> QED BY <1>3, <1>4, <1>5, <1>6 DEF Knows

LEMMA StillSomewhere ==
  ASSUME Alone, TypeOK, Somewhere, Cmd.at # 0, NEW here, Moves(here)
  PROVE  Somewhere'
  <1>1. Cmd.verb # "idle" BY DEF Somewhere
  <1>2. CASE Stays /\ Cmd'.step # "layer" BY <1>1, <1>2 DEF Stays, Somewhere
  <1>3. CASE Leaves BY <1>1, <1>3 DEF Leaves, Somewhere
  <1> QED BY <1>2, <1>3, Leaving DEF Moves

\* What is known of other services is of no concern where the command is.
LEMMA KnowsNoMore ==
  ASSUME NEW here, Cmd'.at # 0 => Resources[Cmd'.at] = here
  PROVE  /\ here[1] \notin {"bucket", "sync"} => KnowsBucket'
         /\ here[1] # "role" => KnowsRole'
         /\ here[1] # "profile" => KnowsProfile'
         /\ here[1] # "function" => KnowsFunction'
         /\ here[1] # "http api" => KnowsApi'
         /\ here[1] # "distribution" => KnowsCdn'
  <1>1. \A verb, r, step : r # here => ~ Doing(Me, verb, r, step)' BY DoingIs
  <1>2. here[1] \notin {"bucket", "sync"} => KnowsBucket'
    BY <1>1 DEF KnowsBucket, Bucket, WebSync
  <1>3. here[1] # "role" => KnowsRole' BY <1>1 DEF KnowsRole, Role
  <1>4. here[1] # "profile" => KnowsProfile' BY <1>1 DEF KnowsProfile, Profile
  <1>5. here[1] # "function" => KnowsFunction' BY <1>1 DEF KnowsFunction, Function
  <1>6. here[1] # "http api" => KnowsApi'
    <2> HAVE here[1] # "http api"
    <2>0. HttpApi[1] = "http api" BY DEF HttpApi
    <2>1. here # HttpApi BY <2>0
    <2>2. \A verb, step : ~ Doing(Me, verb, HttpApi, step)' BY <1>1, <2>1
    <2> QED BY <2>2 DEF KnowsApi
  <1>7. here[1] # "distribution" => KnowsCdn' BY <1>1 DEF KnowsCdn, Cdn
  <1> QED BY <1>2, <1>3, <1>4, <1>5, <1>6, <1>7

-----------------------------------------------------------------------------
(* The kinds of step. *)

\* The command has come to this resource.
AtWork(here) == StackInv /\ Cmd.at # 0 /\ Resources[Cmd.at] = here

\* What holds of the services by themselves.
CloudSound == CloudTypeOK /\ OneOfEach /\ Granted /\ Kept

LEMMA AtWorkMeans ==
  ASSUME Alone, NEW here, AtWork(here)
  PROVE  /\ TypeOK /\ Somewhere /\ CloudSound /\ Knows
         /\ Cmd.at # 0 /\ Cmd.verb # "idle" /\ Cmd.verb \in {"apply", "teardown"}
         /\ Resources[Cmd.at] = here
         /\ Cmd.met \in {"nothing", "refusal", "mishap"} /\ Cmd.saw \in References
  <1>1. TypeOK /\ Somewhere BY DEF AtWork, StackInv
  <1>2. Cmd.verb # "idle" BY <1>1 DEF AtWork, Somewhere
  <1> QED BY <1>1, <1>2, CmdType DEF AtWork, StackInv, TypeOK, CloudSound

\* It has done its work here.
LEMMA Finishing ==
  ASSUME Alone, NEW here, AtWork(here), Complete(Me),
         Cmd.verb = "apply" => Whole(here)',
         Cmd.verb = "teardown" => Absent(here)' \/ here = WebSync
  PROVE  Moves(here) /\ Knows'
  <1>1. TypeOK /\ Somewhere /\ Cmd.at # 0 /\ Cmd.verb # "idle" BY AtWorkMeans
  <1>2. Advances \/ Stumbles("mishap") BY <1>1, Completing
  <1>3. Knows' BY <1>1, <1>2, Leaving, KnowsNothingYet
  <1> QED BY <1>2, <1>3 DEF Moves

\* It has failed here.
LEMMA Misfiring ==
  ASSUME Alone, NEW here, AtWork(here), Errs(Me, "mishap")
  PROVE  Moves(here) /\ Knows'
  <1>1. TypeOK /\ Somewhere /\ Cmd.at # 0 /\ Cmd.verb # "idle" BY AtWorkMeans
  <1>2. Stumbles("mishap") BY <1>1, Erring
  <1>3. Knows' BY <1>1, <1>2, Leaving, KnowsNothingYet
  <1> QED BY <1>2, <1>3 DEF Moves

LEMMA Refusing ==
  ASSUME Alone, NEW here, AtWork(here), Errs(Me, "refusal"), Cmd.met = "nothing" => ~Behind
  PROVE  Moves(here) /\ Knows'
  <1>1. TypeOK /\ Somewhere /\ Cmd.at # 0 /\ Cmd.verb # "idle" BY AtWorkMeans
  <1>2. Stumbles("refusal") BY <1>1, Erring
  <1>3. Knows' BY <1>1, <1>2, Leaving, KnowsNothingYet
  <1> QED BY <1>2, <1>3 DEF Moves

\* It goes on here.
LEMMA Continuing ==
  ASSUME Alone, NEW here, AtWork(here), NEW step \in Steps \ {"layer"}, Goto(Me, step)
  PROVE  /\ Moves(here) /\ Cmd'.step = step /\ Cmd'.saw = Cmd.saw /\ Cmd'.verb = Cmd.verb
         /\ Cmd'.at # 0 /\ Resources[Cmd'.at] = here
  <1>1. TypeOK /\ Cmd.at # 0 /\ Resources[Cmd.at] = here BY AtWorkMeans
  <1>2. Stays /\ Cmd'.step = step /\ Cmd'.saw = Cmd.saw BY <1>1, Going
  <1> QED BY <1>1, <1>2 DEF Moves, Stays

LEMMA Looking ==
  ASSUME Alone, NEW here, AtWork(here), NEW step \in Steps \ {"layer"}, NEW id \in References,
         Found(Me, id, step)
  PROVE  /\ Moves(here) /\ Cmd'.step = step /\ Cmd'.saw = id /\ Cmd'.verb = Cmd.verb
         /\ Cmd'.at # 0 /\ Resources[Cmd'.at] = here
  <1>1. TypeOK /\ Cmd.at # 0 /\ Resources[Cmd.at] = here BY AtWorkMeans
  <1>2. Stays /\ Cmd'.step = step /\ Cmd'.saw = id BY <1>1, Finding
  <1> QED BY <1>1, <1>2 DEF Moves, Stays

\* What every step keeps, from what it comes to.
LEMMA StillSound ==
  ASSUME Alone, NEW here, AtWork(here), Moves(here), Knows', CloudSound', UNCHANGED probeVars
  PROVE  StackInv'
  <1>1. TypeOK /\ Somewhere /\ Cmd.at # 0 BY AtWorkMeans
  <1>2. Somewhere' BY <1>1, StillSomewhere
  <1>3. run' \in [Operators -> Commands] BY DEF Moves, Stays, Advances, Stumbles, EndsBare
  <1>4. TypeOK' BY <1>1, <1>3 DEF TypeOK, CloudSound, probeVars
  <1> QED BY <1>2, <1>4 DEF StackInv, CloudSound

\* Apply has whole resources behind it, and Teardown none that it was to remove.
LEMMA BehindApply ==
  ASSUME Alone, TypeOK, Behind, Cmd.verb = "apply", Cmd.at # 0,
         NEW r \in Range(AllResources), r[1] \notin {"role", "logs"},
         Place(r) < Place(Resources[Cmd.at])
  PROVE  Whole(r)
  <1>1. PICK i \in DOMAIN Resources : Resources[i] = r BY ListAssumption DEF Range
  <1>2. Cmd.at \in DOMAIN Resources BY CmdType
  <1>3. Place(r) \in 1 .. 15 /\ Place(Resources[Cmd.at]) \in 1 .. 15 BY <1>2, TheWalk, PlaceOfAny
  <1>4. ~ (Cmd.at < i) /\ i # Cmd.at
    <2>1. Cmd.at < i => Place(Resources[Cmd.at]) < Place(Resources[i]) BY <1>2, TheWalk
    <2> QED BY <1>1, <1>3, <2>1
  <1>5. i < Cmd.at BY <1>2, <1>4, TheWalk
  <1> QED BY <1>1, <1>5 DEF Behind

LEMMA BehindTeardown ==
  ASSUME Alone, TypeOK, Behind, Cmd.verb = "teardown", Cmd.at # 0, Cmd.met = "nothing",
         NEW r \in Range(AllResources), r[1] \notin {"role", "logs", "sync"},
         Place(Resources[Cmd.at]) < Place(r)
  PROVE  Absent(r)
  <1>0. r # WebSync BY DEF WebSync
  <1>1. PICK i \in DOMAIN Resources : Resources[i] = r BY ListAssumption DEF Range
  <1>2. Cmd.at \in DOMAIN Resources BY CmdType
  <1>3. Place(r) \in 1 .. 15 /\ Place(Resources[Cmd.at]) \in 1 .. 15 BY <1>2, TheWalk, PlaceOfAny
  <1>4. ~ (i < Cmd.at) /\ i # Cmd.at
    <2>1. i < Cmd.at => Place(Resources[i]) < Place(Resources[Cmd.at]) BY <1>2, TheWalk
    <2> QED BY <1>1, <1>3, <2>1
  <1>5. i > Cmd.at BY <1>2, <1>4, TheWalk
  <1> QED BY <1>0, <1>1, <1>5 DEF Behind, Walking

\* The table.
LEMMA TableWork ==
  ASSUME Alone, AtWork(Sessions), TableStep(Me),
         UNCHANGED <<bucket, role, profile, function, logs, apis, dists, oac>>
  PROVE  Moves(Sessions) /\ Spared(Sessions) /\ Knows' /\ CloudSound'
  <1>0. Sessions[1] = "table" BY DEF Sessions
  <1>1. TypeOK /\ CloudSound /\ CloudTypeOK BY AtWorkMeans DEF CloudSound
  <1>2. Spared(Sessions)
    <2> SUFFICES ASSUME NEW r \in Range(AllResources), r # Sessions PROVE Same(r) BY DEF Spared
    <2> QED BY EveryKind, Unmoved, Zenon
  <1>3. ASSUME Moves(Sessions), Cmd'.at # 0, Resources[Cmd'.at] = Sessions PROVE Knows'
    BY <1>0, <1>3, KnowsNoMore DEF Knows
  <1>4. ASSUME table' \in [status : {"none", "CREATING", "ACTIVE"}, ttl : BOOLEAN]
        PROVE  CloudSound'
    BY <1>1, <1>4 DEF CloudSound, CloudTypeOK, OneOfEach, Granted, Kept
  <1>5. CASE EnsureTable(Me)
    <2>1. "wait" \in Steps \ {"layer"} /\ "ttl" \in Steps \ {"layer"} BY DEF Steps
    <2>2. table' \in [status : {"none", "CREATING", "ACTIVE"}, ttl : BOOLEAN]
      <3>1. table' = NewTable \/ table' = table BY <1>5 DEF EnsureTable
      <3>2. NewTable \in [status : {"none", "CREATING", "ACTIVE"}, ttl : BOOLEAN]
        BY DEF NewTable
      <3> QED BY <1>1, <3>1, <3>2 DEF CloudTypeOK
    <2>3. Goto(Me, "wait") \/ Goto(Me, "ttl") BY <1>5 DEF EnsureTable
    <2> QED BY <1>2, <1>3, <1>4, <2>1, <2>2, <2>3, Continuing
  <1>6. CASE WaitActive(Me)
    <2>1. "ttl" \in Steps \ {"layer"} BY DEF Steps
    <2>2. table' \in [status : {"none", "CREATING", "ACTIVE"}, ttl : BOOLEAN]
      BY <1>1, <1>6 DEF WaitActive, CloudTypeOK, TableSettles
    <2>3. Goto(Me, "ttl") \/ Errs(Me, "mishap") BY <1>6 DEF WaitActive
    <2> QED BY <1>2, <1>3, <1>4, <2>1, <2>2, <2>3, Continuing, Misfiring
  <1>7. CASE EnsureTTL(Me)
    <2>1. Cmd.verb = "apply" BY <1>7, DoingIs DEF EnsureTTL
    <2>2. CASE table' = [status |-> "ACTIVE", ttl |-> TRUE] /\ Complete(Me)
      <3>1. Whole(Sessions)' BY <2>2, OfTheServiceNext DEF TableWhole
      <3> QED BY <1>2, <1>4, <2>1, <2>2, <3>1, Finishing
    <2>3. CASE UNCHANGED table /\ Errs(Me, "mishap")
      BY <1>1, <1>2, <1>4, <2>3, Misfiring DEF CloudTypeOK
    <2> QED BY <1>7, <2>2, <2>3 DEF EnsureTTL
  <1>8. CASE RemoveTable(Me)
    <2>1. Cmd.verb = "teardown" BY <1>8, DoingIs DEF RemoveTable
    <2>2. table' = NoTable /\ Complete(Me) BY <1>8 DEF RemoveTable
    <2>3. Absent(Sessions)' BY <2>2, OfTheServiceNext DEF TableAbsent, NoTable
    <2>4. table' \in [status : {"none", "CREATING", "ACTIVE"}, ttl : BOOLEAN]
      BY <2>2 DEF NoTable
    <2> QED BY <1>2, <1>4, <2>1, <2>2, <2>3, <2>4, Finishing
  <1> QED BY <1>5, <1>6, <1>7, <1>8 DEF TableStep

\* The log groups.
LEMMA LogWork ==
  ASSUME Alone, NEW g \in GroupNames, AtWork(Logs(g)), EnsureLogs(Me, g) \/ RemoveLogs(Me, g),
         UNCHANGED <<table, bucket, role, profile, function, apis, dists, oac>>
  PROVE  Moves(Logs(g)) /\ Spared(Logs(g)) /\ Knows' /\ CloudSound'
  <1>0. Logs(g)[1] = "logs" /\ \A h : Logs(h) = Logs(g) => h = g BY DEF Logs
  <1>1. TypeOK /\ CloudSound /\ CloudTypeOK BY AtWorkMeans DEF CloudSound
  <1>2. PICK value \in {"none", "forever", "retained"} : logs' = [logs EXCEPT ![g] = value]
    BY <1>1 DEF EnsureLogs, RemoveLogs, CreateLogGroup, CloudTypeOK
  <1>3. Spared(Logs(g))
    <2> SUFFICES ASSUME NEW r \in Range(AllResources), r # Logs(g) PROVE Same(r) BY DEF Spared
    <2>1. \A h \in GroupNames : h # g => logs'[h] = logs[h] BY <1>1, <1>2 DEF CloudTypeOK
    <2>2. CASE \E h \in GroupNames : r = Logs(h) BY <1>0, <2>1, <2>2, Unmoved
    <2> QED BY <2>2, EveryKind, Unmoved, Zenon
  <1>4. CloudSound'
    <2>1. logs' \in [GroupNames -> {"none", "forever", "retained"}]
      BY <1>1, <1>2 DEF CloudTypeOK
    <2> QED BY <1>1, <2>1 DEF CloudSound, CloudTypeOK, OneOfEach, Granted, Kept
  <1>5. CASE Goto(Me, "retention")
    <2>1. "retention" \in Steps \ {"layer"} BY DEF Steps
    <2>2. Moves(Logs(g)) /\ Cmd'.at # 0 /\ Resources[Cmd'.at] = Logs(g)
      BY <1>5, <2>1, Continuing
    <2>3. Knows' BY <1>0, <2>2, KnowsNoMore DEF Knows
    <2> QED BY <1>3, <1>4, <2>2, <2>3
  <1>6. CASE /\ Doing(Me, "apply", Logs(g), "retention") /\ Complete(Me)
             /\ logs' = [logs EXCEPT ![g] = "retained"]
    <2>1. Cmd.verb = "apply" BY <1>6, DoingIs
    <2>2. logs'[g] = "retained" BY <1>1, <1>6 DEF CloudTypeOK
    <2>3. Whole(Logs(g))' BY <2>2, OfTheServiceNext DEF LogsWhole
    <2> QED BY <1>3, <1>4, <1>6, <2>1, <2>3, Finishing
  <1>7. CASE RemoveLogs(Me, g)
    <2>1. Cmd.verb = "teardown" BY <1>7, DoingIs DEF RemoveLogs
    <2>2. logs'[g] = "none" /\ Complete(Me) BY <1>1, <1>7 DEF RemoveLogs, CloudTypeOK
    <2>3. Absent(Logs(g))' BY <2>2, OfTheServiceNext DEF LogsAbsent
    <2> QED BY <1>3, <1>4, <2>1, <2>2, <2>3, Finishing
  <1> QED BY <1>5, <1>6, <1>7 DEF EnsureLogs

\* A role.
LEMMA RoleWork ==
  ASSUME Alone, NEW n \in RoleNames, AtWork(Role(n)), EnsureRole(Me, n) \/ RemoveRole(Me, n),
         UNCHANGED <<table, bucket, function, logs, apis, dists, oac>>
  PROVE  Moves(Role(n)) /\ Spared(Role(n)) /\ Knows' /\ CloudSound'
  <1>0. Role(n)[1] = "role" /\ \A m : Role(m) = Role(n) => m = n BY DEF Role
  <1>1. TypeOK /\ CloudSound /\ CloudTypeOK BY AtWorkMeans DEF CloudSound
  <1>2. profile' = profile BY DEF EnsureRole, RemoveRole
  <1>3. \A m \in RoleNames : Policies(m) \subseteq {"managed", "inline"} BY DEF Policies, Managed
  <1>4. role[n] \in [there : BOOLEAN, policies : SUBSET Policies(n)]
    <2>1. role[n] \in [there : BOOLEAN, policies : SUBSET {"managed", "inline"}]
      BY <1>1 DEF CloudTypeOK
    <2>2. role[n].policies \subseteq Policies(n) BY <1>1 DEF CloudSound, Kept
    <2> QED BY <2>1, <2>2
  <1>5. ASSUME NEW value \in [there : BOOLEAN, policies : SUBSET Policies(n)],
               role' = [role EXCEPT ![n] = value]
        PROVE  Spared(Role(n)) /\ CloudSound' /\ role'[n] = value
    <2>1. \A m \in RoleNames : m # n => role'[m] = role[m] BY <1>1, <1>5 DEF CloudTypeOK
    <2>2. role'[n] = value BY <1>1, <1>5 DEF CloudTypeOK
    <2>3. Spared(Role(n))
      <3> SUFFICES ASSUME NEW r \in Range(AllResources), r # Role(n) PROVE Same(r) BY DEF Spared
      <3>1. CASE \E m \in RoleNames : r = Role(m) BY <1>0, <2>1, <3>1, Unmoved
      <3> QED BY <1>2, <3>1, EveryKind, Unmoved, Zenon
    <2>4. value \in [there : BOOLEAN, policies : SUBSET {"managed", "inline"}] BY <1>3
    <2>5. role' \in [RoleNames -> [there : BOOLEAN, policies : SUBSET {"managed", "inline"}]]
      BY <1>1, <1>5, <2>4 DEF CloudTypeOK
    <2>6. \A m \in RoleNames : role'[m].policies \subseteq Policies(m)
      BY <1>1, <2>1, <2>2 DEF CloudSound, Kept
    <2>7. CloudSound'
      BY <1>1, <1>2, <2>5, <2>6 DEF CloudSound, CloudTypeOK, OneOfEach, Granted, Kept, Policies
    <2> QED BY <2>2, <2>3, <2>7
  <1>6. \A step : Goto(Me, step) /\ step \in Steps \ {"layer"} =>
           Moves(Role(n)) /\ Cmd'.step = step /\ Cmd'.verb = Cmd.verb /\ Cmd'.at # 0
             /\ Resources[Cmd'.at] = Role(n)
    BY Continuing
  <1>7. ASSUME Cmd'.at # 0, Resources[Cmd'.at] = Role(n),
               Cmd'.verb = "apply" /\ Cmd'.step = "policies" => role'[n].there,
               Cmd'.verb = "teardown" /\ Cmd'.step = "detach" =>
                  role'[n].there /\ "inline" \notin role'[n].policies,
               Cmd'.verb = "teardown" /\ Cmd'.step = "delete" =>
                  role'[n].there /\ role'[n].policies = {}
        PROVE  Knows'
    <2>1. KnowsRole' BY <1>0, <1>7, DoingIs DEF KnowsRole
    <2> QED BY <1>0, <1>7, <2>1, KnowsNoMore DEF Knows
  <1>8. {"policies", "detach", "delete"} \subseteq Steps \ {"layer"} BY DEF Steps
  <1>9. CASE Doing(Me, "apply", Role(n), "start") /\ CreateRole(n) /\ Goto(Me, "policies")
    <2> DEFINE value == IF role[n].there THEN role[n] ELSE NewRole
    <2>1. role' = [role EXCEPT ![n] = value] BY <1>9 DEF CreateRole, PutRole
    <2>2. value \in [there : BOOLEAN, policies : SUBSET Policies(n)] /\ value.there
      BY <1>4 DEF NewRole, NoRole
    <2> HIDE DEF value
    <2>4. Cmd.verb = "apply" BY <1>9, DoingIs
    <2> QED BY <1>5, <1>6, <1>7, <1>8, <1>9, <2>1, <2>2, <2>4
  <1>10. CASE Doing(Me, "apply", Role(n), "policies") /\ Attach(n, Policies(n)) /\ Complete(Me)
    <2>1. Cmd.verb = "apply" /\ role[n].there
      BY <1>1, <1>10, DoingIs, AtWorkMeans DEF Knows, KnowsRole
    <2> DEFINE value == [role[n] EXCEPT !.policies = @ \cup Policies(n)]
    <2>2. role' = [role EXCEPT ![n] = value] BY <1>10 DEF Attach, PutRole
    <2>3. /\ value \in [there : BOOLEAN, policies : SUBSET Policies(n)]
          /\ value.there /\ value.policies = Policies(n)
      BY <1>4, <2>1
    <2> HIDE DEF value
    <2>4. Spared(Role(n)) /\ CloudSound' /\ role'[n] = value BY <1>5, <2>2, <2>3
    <2>5. Whole(Role(n))' BY <2>3, <2>4, OfTheServiceNext DEF RoleWhole, Policies
    <2> QED BY <1>10, <2>1, <2>4, <2>5, Finishing
  <1>11. CASE /\ Doing(Me, "teardown", Role(n), "start") /\ Detach(n, "inline")
              /\ IF role[n].there THEN Goto(Me, "detach") ELSE Complete(Me)
    <2> DEFINE value == [role[n] EXCEPT !.policies = @ \ {"inline"}]
    <2>1. role' = [role EXCEPT ![n] = value] BY <1>11 DEF Detach, PutRole
    <2>2. value \in [there : BOOLEAN, policies : SUBSET Policies(n)]
          /\ value.there = role[n].there /\ "inline" \notin value.policies
      BY <1>4
    <2> HIDE DEF value
    <2>3. Spared(Role(n)) /\ CloudSound' /\ role'[n] = value BY <1>5, <2>1, <2>2
    <2>4. Cmd.verb = "teardown" BY <1>11, DoingIs
    <2>5. CASE role[n].there
      <3>1. Goto(Me, "detach") BY <1>11, <2>5
      <3>2. /\ Moves(Role(n)) /\ Cmd'.step = "detach" /\ Cmd'.verb = Cmd.verb /\ Cmd'.at # 0
            /\ Resources[Cmd'.at] = Role(n)
        BY <1>6, <1>8, <3>1
      <3> QED BY <1>7, <2>2, <2>3, <2>4, <2>5, <3>2
    <2>6. CASE ~role[n].there
      <3>1. Absent(Role(n))' BY <2>2, <2>3, <2>6, OfTheServiceNext DEF RoleAbsent
      <3> QED BY <1>11, <2>3, <2>4, <2>6, <3>1, Finishing
    <2> QED BY <2>5, <2>6
  <1>12. CASE Doing(Me, "teardown", Role(n), "detach") /\ Detach(n, "managed") /\ Goto(Me, "delete")
    <2>1. Cmd.verb = "teardown" /\ role[n].there /\ "inline" \notin role[n].policies
      BY <1>1, <1>12, DoingIs, AtWorkMeans DEF Knows, KnowsRole
    <2> DEFINE value == [role[n] EXCEPT !.policies = @ \ {"managed"}]
    <2>2. role' = [role EXCEPT ![n] = value] BY <1>12 DEF Detach, PutRole
    <2>3. role[n].policies \ {"managed"} = {} BY <1>3, <1>4, <2>1
    <2>4. /\ value \in [there : BOOLEAN, policies : SUBSET Policies(n)]
          /\ value.there /\ value.policies = {}
      BY <1>4, <2>1, <2>3
    <2> HIDE DEF value
    <2>5. Spared(Role(n)) /\ CloudSound' /\ role'[n] = value BY <1>5, <2>2, <2>4
    <2> QED BY <1>6, <1>7, <1>8, <1>12, <2>1, <2>4, <2>5
  <1>13. CASE Doing(Me, "teardown", Role(n), "delete") /\ PutRole(n, NoRole) /\ Complete(Me)
    <2>1. Cmd.verb = "teardown" BY <1>13, DoingIs
    <2>2. role' = [role EXCEPT ![n] = NoRole] BY <1>13 DEF PutRole
    <2>3. NoRole \in [there : BOOLEAN, policies : SUBSET Policies(n)] /\ ~NoRole.there
      BY DEF NoRole
    <2>4. Spared(Role(n)) /\ CloudSound' /\ role'[n] = NoRole BY <1>5, <2>2, <2>3
    <2>5. Absent(Role(n))' BY <2>3, <2>4, OfTheServiceNext DEF RoleAbsent
    <2> QED BY <1>13, <2>1, <2>4, <2>5, Finishing
  <1>14. CASE /\ Doing(Me, "teardown", Role(n), "delete") /\ ~CanDeleteRole(n)
              /\ UNCHANGED role /\ Errs(Me, "refusal")
    <2>1. Cmd.verb = "teardown" /\ role[n].there /\ role[n].policies = {}
      BY <1>1, <1>14, DoingIs, AtWorkMeans DEF Knows, KnowsRole
    <2>2. n = "spawn" /\ profile.holds BY <1>14, <2>1 DEF CanDeleteRole
    <2>3. Cmd.met = "nothing" => ~Behind
      <3> SUFFICES ASSUME Cmd.met = "nothing", Behind PROVE FALSE OBVIOUS
      <3>1. Absent(Profile)
        <4>1. Cmd.at # 0 /\ Resources[Cmd.at] = Role("spawn") BY <2>2, AtWorkMeans
        <4>2. Place(Role("spawn")) < Place(Profile) BY ThePlaces
        <4>3. Profile \in Range(AllResources) /\ Profile[1] = "profile" BY EachIsListed DEF Profile
        <4> QED BY <1>1, <2>1, <4>1, <4>2, <4>3, BehindTeardown
      <3> QED BY <1>1, <2>2, <3>1, OfTheService DEF ProfileAbsent, CloudSound, Kept
    <2>4. Spared(Role(n)) BY <1>2, <1>14, EveryKind, Unmoved, Zenon DEF Spared
    <2>5. CloudSound'
      BY <1>1, <1>2, <1>14 DEF CloudSound, CloudTypeOK, OneOfEach, Granted, Kept, Policies
    <2> QED BY <1>14, <2>3, <2>4, <2>5, Refusing
  <1> QED
    BY <1>9, <1>10, <1>11, <1>12, <1>13, <1>14 DEF EnsureRole, RemoveRole

\* The instance profile.
LEMMA ProfileWork ==
  ASSUME Alone, AtWork(Profile), EnsureProfile(Me) \/ RemoveProfile(Me),
         UNCHANGED <<table, bucket, function, logs, apis, dists, oac>>
  PROVE  Moves(Profile) /\ Spared(Profile) /\ Knows' /\ CloudSound'
  <1>0. Profile[1] = "profile" BY DEF Profile
  <1>1. TypeOK /\ CloudSound /\ CloudTypeOK /\ Knows BY AtWorkMeans DEF CloudSound
  <1>2. role' = role BY DEF EnsureProfile, RemoveProfile
  <1>3. profile \in [there : BOOLEAN, holds : BOOLEAN] /\ (profile.holds => profile.there)
    BY <1>1 DEF CloudSound, CloudTypeOK, Kept
  <1>4. Spared(Profile)
    <2> SUFFICES ASSUME NEW r \in Range(AllResources), r # Profile PROVE Same(r) BY DEF Spared
    <2> QED BY <1>2, EveryKind, Unmoved, Zenon
  <1>5. ASSUME profile' \in [there : BOOLEAN, holds : BOOLEAN],
               profile'.holds => profile'.there
        PROVE  CloudSound'
    BY <1>1, <1>2, <1>5 DEF CloudSound, CloudTypeOK, OneOfEach, Granted, Kept, Policies
  <1>6. {"add", "delete"} \subseteq Steps \ {"layer"} BY DEF Steps
  <1>7. ASSUME NEW step \in {"add", "delete"}, Goto(Me, step),
               profile'.there /\ ~profile'.holds
        PROVE  Moves(Profile) /\ Knows'
    <2>1. Moves(Profile) /\ Cmd'.at # 0 /\ Resources[Cmd'.at] = Profile
      BY <1>6, <1>7, Continuing
    <2>2. KnowsProfile' BY <1>7 DEF KnowsProfile
    <2> QED BY <1>0, <2>1, <2>2, KnowsNoMore DEF Knows
  <1>8. CASE /\ Doing(Me, "apply", Profile, "start")
             /\ profile' = [profile EXCEPT !.there = TRUE]
             /\ IF profile.holds THEN Complete(Me) ELSE Goto(Me, "add")
    <2>1. Cmd.verb = "apply" BY <1>8, DoingIs
    <2>2. /\ profile' \in [there : BOOLEAN, holds : BOOLEAN] /\ profile'.there
          /\ profile'.holds = profile.holds
      BY <1>3, <1>8
    <2>3. CloudSound' BY <1>5, <2>2
    <2>4. CASE profile.holds
      <3>1. Whole(Profile)' BY <2>2, <2>4, OfTheServiceNext DEF ProfileWhole
      <3> QED BY <1>4, <1>8, <2>1, <2>3, <2>4, <3>1, Finishing
    <2>5. CASE ~profile.holds
      BY <1>4, <1>7, <1>8, <2>2, <2>3, <2>5
    <2> QED BY <2>4, <2>5
  <1>9. CASE /\ Doing(Me, "apply", Profile, "add") /\ Complete(Me)
             /\ profile' = [profile EXCEPT !.holds = TRUE]
    <2>1. Cmd.verb = "apply" /\ profile.there
      BY <1>1, <1>9, DoingIs DEF Knows, KnowsProfile
    <2>2. /\ profile' \in [there : BOOLEAN, holds : BOOLEAN] /\ profile'.holds
          /\ profile'.there
      BY <1>3, <1>9, <2>1
    <2>3. Whole(Profile)' BY <2>2, OfTheServiceNext DEF ProfileWhole
    <2> QED BY <1>4, <1>5, <1>9, <2>1, <2>2, <2>3, Finishing
  <1>10. CASE UNCHANGED profile /\ Errs(Me, "mishap")
    BY <1>3, <1>4, <1>5, <1>10, Misfiring
  <1>11. CASE /\ Doing(Me, "teardown", Profile, "start")
              /\ profile' = [profile EXCEPT !.holds = FALSE]
              /\ IF profile.there THEN Goto(Me, "delete") ELSE Complete(Me)
    <2>1. Cmd.verb = "teardown" BY <1>11, DoingIs
    <2>2. /\ profile' \in [there : BOOLEAN, holds : BOOLEAN] /\ ~profile'.holds
          /\ profile'.there = profile.there
      BY <1>3, <1>11
    <2>3. CloudSound' BY <1>5, <2>2
    <2>4. CASE profile.there BY <1>4, <1>7, <1>11, <2>2, <2>3, <2>4
    <2>5. CASE ~profile.there
      <3>1. Absent(Profile)' BY <2>2, <2>5, OfTheServiceNext DEF ProfileAbsent
      <3> QED BY <1>4, <1>11, <2>1, <2>3, <2>5, <3>1, Finishing
    <2> QED BY <2>4, <2>5
  <1>12. CASE Doing(Me, "teardown", Profile, "delete") /\ profile' = NoProfile /\ Complete(Me)
    <2>1. Cmd.verb = "teardown" BY <1>12, DoingIs
    <2>2. profile' \in [there : BOOLEAN, holds : BOOLEAN] /\ ~profile'.holds /\ ~profile'.there
      BY <1>12 DEF NoProfile
    <2>3. Absent(Profile)' BY <2>2, OfTheServiceNext DEF ProfileAbsent
    <2> QED BY <1>4, <1>5, <1>12, <2>1, <2>2, <2>3, Finishing
  <1>13. CASE Doing(Me, "teardown", Profile, "delete") /\ ~CanDeleteProfile
    BY <1>1, <1>13 DEF Knows, KnowsProfile, CanDeleteProfile
  <1> QED
    BY <1>8, <1>9, <1>10, <1>11, <1>12, <1>13 DEF EnsureProfile, RemoveProfile

\* A function.
LEMMA FunctionWork ==
  ASSUME Alone, NEW f \in FunctionNames, AtWork(Function(f)),
         EnsureFunction(Me, f) \/ CreateFunction(Me, f) \/ RemoveFunction(Me, f),
         UNCHANGED <<table, bucket, role, profile, logs, apis, dists, oac>>
  PROVE  Moves(Function(f)) /\ Spared(Function(f)) /\ Knows' /\ CloudSound'
  <1>0. Function(f)[1] = "function" /\ \A h : Function(h) = Function(f) => h = f
    BY DEF Function
  <1>1. TypeOK /\ CloudSound /\ CloudTypeOK /\ Knows BY AtWorkMeans DEF CloudSound
  <1> DEFINE Functions == [there : BOOLEAN, code : {"none", "built", "old"},
                           config : {"none", "built", "old"}, allows : References]
  <1>2. /\ function \in [FunctionNames -> Functions] /\ function[f] \in Functions
        /\ function[f].allows \in DOMAIN apis \cup {None}
        /\ ~function[f].there => function[f] = NoFunction
    BY <1>1 DEF CloudSound, CloudTypeOK, Granted, Kept
  <1>3. None \in References /\ NoFunction \in Functions /\ NewFunction \in Functions
    BY DEF References, NoFunction, NewFunction
  <1> HIDE DEF Functions
  <1>4. ASSUME NEW value \in Functions, function' = [function EXCEPT ![f] = value],
               value.allows \in DOMAIN apis \cup {None},
               ~value.there => value = NoFunction
        PROVE  Spared(Function(f)) /\ CloudSound' /\ function'[f] = value
    <2>1. \A h \in FunctionNames : h # f => function'[h] = function[h] BY <1>2, <1>4
    <2>2. function'[f] = value /\ function' \in [FunctionNames -> Functions] BY <1>2, <1>4
    <2>3. Spared(Function(f))
      <3> SUFFICES ASSUME NEW r \in Range(AllResources), r # Function(f)
                   PROVE  Same(r) \/ (Leads(Function(f), r) /\ (Absent(r) => Absent(r)'))
        BY DEF Spared
      <3>1. CASE \E h \in FunctionNames : r = Function(h) BY <1>0, <2>1, <3>1, Unmoved
      <3>2. CASE r = HttpApi
        <4>1. Leads(Function(f), HttpApi) BY <1>0 DEF Leads, HttpApi
        <4>2. Absent(HttpApi) => Absent(HttpApi)'
          BY OfTheService, OfTheServiceNext DEF ApiAbsent
        <4> QED BY <3>2, <4>1, <4>2
      <3> QED BY <3>1, <3>2, EveryKind, Unmoved, Zenon
    <2>4. CloudTypeOK' BY <1>1, <2>2 DEF CloudTypeOK, Functions
    <2>5. Granted' BY <1>1, <1>4, <2>1, <2>2 DEF CloudSound, Granted
    <2>6. Kept' BY <1>1, <1>4, <2>1, <2>2 DEF CloudSound, Kept, Policies
    <2>7. OneOfEach' BY <1>1 DEF CloudSound, OneOfEach
    <2> QED BY <2>2, <2>3, <2>4, <2>5, <2>6, <2>7 DEF CloudSound
  <1>5. ASSUME UNCHANGED function PROVE Spared(Function(f)) /\ CloudSound'
    <2>1. Spared(Function(f)) BY <1>5, EveryKind, Unmoved, Zenon DEF Spared
    <2>2. CloudSound'
      BY <1>1, <1>5 DEF CloudSound, CloudTypeOK, OneOfEach, Granted, Kept, Policies
    <2> QED BY <2>1, <2>2
  <1>6. ASSUME Cmd'.at # 0, Resources[Cmd'.at] = Function(f),
               Cmd'.verb = "apply" /\ Cmd'.step = "create" => ~function'[f].there,
               Cmd'.verb = "apply" /\ Cmd'.step = "configuration" =>
                  function'[f].there /\ function'[f].code = "built"
        PROVE  Knows'
    <2>1. KnowsFunction' BY <1>0, <1>6, DoingIs DEF KnowsFunction
    <2> QED BY <1>0, <1>6, <2>1, KnowsNoMore DEF Knows
  <1>7. {"create", "configuration"} \subseteq Steps \ {"layer"} BY DEF Steps
  <1>8. CASE /\ Doing(Me, "apply", Function(f), "start") /\ function[f].there
             /\ UpdateFunctionCode(f) /\ Goto(Me, "configuration")
    <2> DEFINE value == [function[f] EXCEPT !.code = "built"]
    <2>1. function' = [function EXCEPT ![f] = value]
      BY <1>8 DEF UpdateFunctionCode, PutFunction
    <2>2. value \in Functions /\ value.there /\ value.code = "built"
          /\ value.allows = function[f].allows
      BY <1>2, <1>8 DEF Functions
    <2> HIDE DEF value
    <2>3. Spared(Function(f)) /\ CloudSound' /\ function'[f] = value BY <1>2, <1>4, <2>1, <2>2
    <2>4. /\ Moves(Function(f)) /\ Cmd'.step = "configuration" /\ Cmd'.at # 0
          /\ Resources[Cmd'.at] = Function(f)
      BY <1>7, <1>8, Continuing
    <2> QED BY <1>6, <2>2, <2>3, <2>4
  <1>9. CASE /\ Doing(Me, "apply", Function(f), "start") /\ ~function[f].there
             /\ UNCHANGED function /\ Goto(Me, "create")
    <2>1. /\ Moves(Function(f)) /\ Cmd'.step = "create" /\ Cmd'.at # 0
          /\ Resources[Cmd'.at] = Function(f)
      BY <1>7, <1>9, Continuing
    <2> QED BY <1>5, <1>6, <1>9, <2>1
  <1>10. CASE /\ Doing(Me, "apply", Function(f), "configuration")
              /\ UpdateFunctionConfiguration(f) /\ Complete(Me)
    <2>1. Cmd.verb = "apply" /\ function[f].there /\ function[f].code = "built"
      BY <1>1, <1>10, DoingIs DEF Knows, KnowsFunction
    <2> DEFINE value == [function[f] EXCEPT !.config = "built"]
    <2>2. function' = [function EXCEPT ![f] = value]
      BY <1>10 DEF UpdateFunctionConfiguration, PutFunction
    <2>3. value \in Functions /\ value.there /\ value.code = "built" /\ value.config = "built"
          /\ value.allows = function[f].allows
      BY <1>2, <2>1 DEF Functions
    <2> HIDE DEF value
    <2>4. Spared(Function(f)) /\ CloudSound' /\ function'[f] = value BY <1>2, <1>4, <2>2, <2>3
    <2>5. Whole(Function(f))' BY <2>3, <2>4, OfTheServiceNext DEF FunctionWhole
    <2> QED BY <1>10, <2>1, <2>4, <2>5, Finishing
  <1>11. CASE Doing(Me, "apply", Function(f), "create") /\ CreateFunction(Me, f)
    <2>1. Cmd.verb = "apply" /\ ~function[f].there /\ Cmd.step = "create" /\ Cmd.at # 0
          /\ Resources[Cmd.at] = Function(f)
      BY <1>1, <1>11, DoingIs DEF Knows, KnowsFunction
    <2>2. CASE PutFunction(f, NewFunction) /\ Complete(Me)
      <3>1. Spared(Function(f)) /\ CloudSound' /\ function'[f] = NewFunction
        BY <1>3, <1>4, <2>2 DEF PutFunction, NewFunction
      <3>2. Whole(Function(f))' BY <3>1, OfTheServiceNext DEF FunctionWhole, NewFunction
      <3> QED BY <2>1, <2>2, <3>1, <3>2, Finishing
    <2>3. CASE UNCHANGED function /\ Becomes(Me, [run[Me] EXCEPT !.tries = @ + 1])
      <3>1. [Cmd EXCEPT !.tries = @ + 1] \in Commands BY <1>1, CmdType DEF Commands
      <3>2. run' \in [Operators -> Commands] /\ Cmd' = [Cmd EXCEPT !.tries = @ + 1]
        BY <1>1, <2>3, <3>1, Becoming DEF Cmd
      <3>3. Stays /\ Cmd'.step = Cmd.step BY <1>1, <3>2, CmdType DEF Stays, Commands
      <3>4. Moves(Function(f)) BY <2>1, <3>3 DEF Moves
      <3>5. Cmd'.at # 0 /\ Resources[Cmd'.at] = Function(f) /\ Cmd'.step = "create"
        BY <2>1, <3>3 DEF Stays
      <3> QED BY <1>5, <1>6, <2>1, <2>3, <3>4, <3>5
    <2>4. CASE UNCHANGED function /\ Errs(Me, "mishap") BY <1>5, <2>4, Misfiring
    <2> QED BY <1>11, <2>1, <2>2, <2>3, <2>4 DEF CreateFunction
  <1>12. CASE RemoveFunction(Me, f)
    <2>1. Cmd.verb = "teardown" BY <1>12, DoingIs DEF RemoveFunction
    <2>2. function' = [function EXCEPT ![f] = NoFunction] /\ Complete(Me)
      BY <1>12 DEF RemoveFunction, DeleteFunction, PutFunction
    <2>3. Spared(Function(f)) /\ CloudSound' /\ function'[f] = NoFunction
      BY <1>3, <1>4, <2>2 DEF NoFunction
    <2>4. Absent(Function(f))' BY <2>3, OfTheServiceNext DEF FunctionAbsent, NoFunction
    <2> QED BY <2>1, <2>2, <2>3, <2>4, Finishing
  <1> QED
    BY <1>8, <1>9, <1>10, <1>11, <1>12 DEF EnsureFunction, CreateFunction

\* A bucket, and the page in one of them: a step puts another value for one bucket.
BucketValues ==
    [there : BOOLEAN, names : References,
     posture : SUBSET {"blocked", "encrypted", "tagged", "bundles expire"},
     objects : SUBSET {"page", "old page", "saves"}]

LEMMA Putting ==
  ASSUME Alone, TypeOK, CloudSound, NEW b \in BucketNames, NEW value \in BucketValues,
         Put(b, value),
         ~value.there => value.objects = {},
         b = "web" => value.objects \subseteq {"page", "old page"},
         UNCHANGED <<table, role, profile, function, logs, apis, dists, oac>>
  PROVE  CloudSound' /\ bucket'[b] = value /\ \A c \in BucketNames : c # b => bucket'[c] = bucket[c]
  <1>1. CloudTypeOK /\ Kept /\ OneOfEach /\ Granted BY DEF CloudSound
  <1>2. bucket \in [BucketNames -> BucketValues] BY <1>1 DEF CloudTypeOK, BucketValues
  <1>3. bucket' = [bucket EXCEPT ![b] = value] BY DEF Put
  <1>4. bucket'[b] = value /\ bucket' \in [BucketNames -> BucketValues] BY <1>2, <1>3
  <1>5. \A c \in BucketNames : c # b => bucket'[c] = bucket[c] BY <1>2, <1>3
  <1>6. CloudTypeOK' BY <1>1, <1>4 DEF CloudTypeOK, BucketValues
  <1>7. Kept'
    <2>1. \A c \in BucketNames : ~bucket'[c].there => bucket'[c].objects = {}
      BY <1>1, <1>4, <1>5 DEF Kept
    <2>2. bucket'["web"].objects \subseteq {"page", "old page"}
      <3>1. "web" \in BucketNames BY DEF BucketNames
      <3> QED BY <1>1, <1>4, <1>5, <3>1 DEF Kept
    <2> QED BY <1>1, <2>1, <2>2 DEF Kept, Policies
  <1>8. OneOfEach' /\ Granted' BY <1>1 DEF OneOfEach, Granted
  <1> QED BY <1>4, <1>5, <1>6, <1>7, <1>8 DEF CloudSound

LEMMA BucketFacts ==
  ASSUME CloudSound, NEW b \in BucketNames
  PROVE  /\ bucket[b] \in BucketValues /\ (~bucket[b].there => bucket[b].objects = {})
         /\ b = "web" => bucket[b].objects \subseteq {"page", "old page"}
         /\ Posture(b) \in SUBSET {"blocked", "encrypted", "tagged", "bundles expire"}
  <1>1. CloudTypeOK /\ Kept BY DEF CloudSound
  <1>2. bucket[b] \in BucketValues BY <1>1 DEF CloudTypeOK, BucketValues
  <1>3. Posture(b) \in SUBSET {"blocked", "encrypted", "tagged", "bundles expire"}
    BY DEF Posture, BasePosture, BundleLifecycle
  <1> QED BY <1>1, <1>2, <1>3 DEF Kept

\* A bucket.
LEMMA BucketWork ==
  ASSUME Alone, NEW b \in BucketNames, AtWork(Bucket(b)),
         EnsureBucket(Me, b) \/ EmptyBucket(Me, b) \/ RemoveBucket(Me, b),
         UNCHANGED <<table, role, profile, function, logs, apis, dists, oac>>
  PROVE  Moves(Bucket(b)) /\ Spared(Bucket(b)) /\ Knows' /\ CloudSound'
  <1>0. Bucket(b)[1] = "bucket" /\ (\A c : Bucket(c) = Bucket(b) => c = b) /\ Bucket(b) # WebSync
    BY DEF Bucket, WebSync
  <1>1. TypeOK /\ CloudSound /\ CloudTypeOK /\ Knows BY AtWorkMeans DEF CloudSound
  <1>2. /\ bucket[b] \in BucketValues /\ (~bucket[b].there => bucket[b].objects = {})
        /\ b = "web" => bucket[b].objects \subseteq {"page", "old page"}
        /\ Posture(b) \in SUBSET {"blocked", "encrypted", "tagged", "bundles expire"}
    BY <1>1, BucketFacts
  <1>3. ASSUME NEW value \in BucketValues, Put(b, value),
               ~value.there => value.objects = {}, value.objects \subseteq bucket[b].objects
        PROVE  Spared(Bucket(b)) /\ CloudSound' /\ bucket'[b] = value
    <2>1. /\ CloudSound' /\ bucket'[b] = value
          /\ \A c \in BucketNames : c # b => bucket'[c] = bucket[c]
      BY <1>1, <1>2, <1>3, Putting
    <2>2. Spared(Bucket(b))
      <3> SUFFICES ASSUME NEW r \in Range(AllResources), r # Bucket(b)
                   PROVE  Same(r) \/ (Leads(Bucket(b), r) /\ (Absent(r) => Absent(r)'))
        BY DEF Spared
      <3>1. CASE \E c \in BucketNames : r = Bucket(c) BY <2>1, <3>1, Unmoved
      <3>2. CASE r = Cdn
        <4>1. Leads(Bucket(b), Cdn) BY <1>0 DEF Leads, Cdn
        <4>2. Absent(Cdn) => Absent(Cdn)'
          BY OfTheService, OfTheServiceNext DEF CdnAbsent
        <4> QED BY <3>2, <4>1, <4>2
      <3>3. CASE r = WebSync
        <4>1. Leads(Bucket(b), WebSync) BY <1>0 DEF Leads, WebSync
        <4>2. bucket["web"].objects = {} => bucket'["web"].objects = {}
          <5>1. "web" \in BucketNames BY DEF BucketNames
          <5> QED BY <1>3, <2>1, <5>1
        <4>3. Absent(WebSync) => Absent(WebSync)'
          BY <4>2, OfTheService, OfTheServiceNext DEF PageAbsent
        <4> QED BY <3>3, <4>1, <4>3
      <3> QED BY <3>1, <3>2, <3>3, EveryKind, Unmoved, Zenon
    <2> QED BY <2>1, <2>2
  <1>4. ASSUME UNCHANGED bucket PROVE Spared(Bucket(b)) /\ CloudSound'
    <2>1. Spared(Bucket(b)) BY <1>4, EveryKind, Unmoved, Zenon DEF Spared
    <2>2. CloudSound'
      BY <1>1, <1>4 DEF CloudSound, CloudTypeOK, OneOfEach, Granted, Kept, Policies
    <2> QED BY <2>1, <2>2
  <1>5. {"posture", "delete"} \subseteq Steps \ {"layer"} BY DEF Steps
  <1>6. ASSUME NEW step \in {"posture", "delete"}, Goto(Me, step),
               Cmd.verb = "apply" => bucket'[b].there,
               Cmd.verb = "teardown" => bucket'[b].objects \subseteq {"saves"}
        PROVE  Moves(Bucket(b)) /\ Knows'
    <2>1. /\ Moves(Bucket(b)) /\ Cmd'.step = step /\ Cmd'.verb = Cmd.verb /\ Cmd'.at # 0
          /\ Resources[Cmd'.at] = Bucket(b)
      BY <1>5, <1>6, Continuing
    <2>2. KnowsBucket' BY <1>0, <1>6, <2>1, DoingIs DEF KnowsBucket
    <2> QED BY <1>0, <2>1, <2>2, KnowsNoMore DEF Knows
  <1>7. CASE Doing(Me, "apply", Bucket(b), "start") /\ CreateBucket(b) /\ Goto(Me, "posture")
    <2> DEFINE value == IF bucket[b].there THEN bucket[b] ELSE NewBucket
    <2>1. Put(b, value) BY <1>7 DEF CreateBucket
    <2>2. NewBucket \in BucketValues /\ NewBucket.there /\ NewBucket.objects = {}
      BY DEF NewBucket, NoBucket, BucketValues, References
    <2>3. value \in BucketValues /\ value.there /\ value.objects \subseteq bucket[b].objects
      BY <1>2, <2>2
    <2> HIDE DEF value
    <2>4. Spared(Bucket(b)) /\ CloudSound' /\ bucket'[b] = value BY <1>3, <2>1, <2>3
    <2>5. Cmd.verb = "apply" BY <1>7, DoingIs
    <2> QED BY <1>6, <1>7, <2>3, <2>4, <2>5
  <1>8. CASE Doing(Me, "apply", Bucket(b), "posture") /\ PutSettings(b, Posture(b)) /\ Complete(Me)
    <2>1. Cmd.verb = "apply" /\ bucket[b].there BY <1>1, <1>8, DoingIs DEF Knows, KnowsBucket
    <2> DEFINE value == [bucket[b] EXCEPT !.posture = Posture(b)]
    <2>2. Put(b, value) BY <1>8 DEF PutSettings
    <2>3. value \in BucketValues /\ value.there /\ value.posture = Posture(b)
          /\ value.objects \subseteq bucket[b].objects
      BY <1>2, <2>1 DEF BucketValues
    <2> HIDE DEF value
    <2>4. Spared(Bucket(b)) /\ CloudSound' /\ bucket'[b] = value BY <1>3, <2>2, <2>3
    <2>5. Whole(Bucket(b))' BY <2>3, <2>4, OfTheServiceNext DEF BucketWhole, Posture
    <2> QED BY <1>8, <2>1, <2>4, <2>5, Finishing
  <1>9. ASSUME Doing(Me, "teardown", Bucket(b), "start"),
               NEW keys \in SUBSET bucket[b].objects, DeleteObjects(b, keys),
               (Goto(Me, "delete") /\ keys = bucket[b].objects) \/ Errs(Me, "mishap")
        PROVE  Moves(Bucket(b)) /\ Spared(Bucket(b)) /\ Knows' /\ CloudSound'
    <2> DEFINE value == [bucket[b] EXCEPT !.objects = @ \ keys]
    <2>1. Put(b, value) BY <1>9 DEF DeleteObjects
    <2>2. value \in BucketValues /\ value.there = bucket[b].there
          /\ value.objects \subseteq bucket[b].objects
          /\ (keys = bucket[b].objects => value.objects = {})
      BY <1>2 DEF BucketValues
    <2> HIDE DEF value
    <2>3. Spared(Bucket(b)) /\ CloudSound' /\ bucket'[b] = value BY <1>2, <1>3, <2>1, <2>2
    <2>4. Cmd.verb = "teardown" BY <1>9, DoingIs
    <2> QED BY <1>6, <1>9, <2>2, <2>3, <2>4, Misfiring
  <1>10. CASE EmptyBucket(Me, b) BY <1>9, <1>10 DEF EmptyBucket
  <1>11. CASE /\ Doing(Me, "teardown", Bucket(b), "start") /\ ~bucket[b].there
              /\ UNCHANGED bucket /\ Complete(Me)
    <2>1. Cmd.verb = "teardown" BY <1>11, DoingIs
    <2>2. Absent(Bucket(b))' BY <1>11, OfTheServiceNext DEF BucketAbsent
    <2> QED BY <1>4, <1>11, <2>1, <2>2, Finishing
  <1>12. CASE Doing(Me, "teardown", Bucket(b), "delete") /\ Put(b, NoBucket) /\ Complete(Me)
    <2>1. Cmd.verb = "teardown" BY <1>12, DoingIs
    <2>2. NoBucket \in BucketValues /\ ~NoBucket.there /\ NoBucket.objects = {}
      BY DEF NoBucket, BucketValues, References
    <2>3. Spared(Bucket(b)) /\ CloudSound' /\ bucket'[b] = NoBucket BY <1>3, <1>12, <2>2
    <2>4. Absent(Bucket(b))' BY <2>2, <2>3, OfTheServiceNext DEF BucketAbsent
    <2> QED BY <1>12, <2>1, <2>3, <2>4, Finishing
  <1>13. CASE /\ Doing(Me, "teardown", Bucket(b), "delete") /\ UNCHANGED bucket
              /\ Errs(Me, InTheWay(b))
    <2>1. InTheWay(b) = "mishap" BY <1>1, <1>13 DEF Knows, KnowsBucket, InTheWay
    <2> QED BY <1>4, <1>13, <2>1, Misfiring
  <1> QED BY <1>7, <1>8, <1>10, <1>11, <1>12, <1>13 DEF EnsureBucket, RemoveBucket

\* The page.
LEMMA SyncWork ==
  ASSUME Alone, AtWork(WebSync),
         NothingToUpload(Me) \/ Upload(Me) \/ RemoveStale(Me) \/ RemoveSync(Me),
         UNCHANGED <<table, role, profile, function, logs, apis, dists, oac>>
  PROVE  Moves(WebSync) /\ Spared(WebSync) /\ Knows' /\ CloudSound'
  <1>0. WebSync[1] = "sync" /\ (\A b : Bucket(b) # WebSync) /\ "web" \in BucketNames
    BY DEF WebSync, Bucket, BucketNames
  <1>1. TypeOK /\ CloudSound /\ CloudTypeOK /\ Knows BY AtWorkMeans DEF CloudSound
  <1>2. /\ bucket["web"] \in BucketValues
        /\ bucket["web"].objects \subseteq {"page", "old page"}
        /\ ~bucket["web"].there => bucket["web"].objects = {}
    BY <1>0, <1>1, BucketFacts
  <1>3. ASSUME NEW keys \in SUBSET {"page", "old page"}, bucket["web"].there,
               Put("web", [bucket["web"] EXCEPT !.objects = keys])
        PROVE  Spared(WebSync) /\ CloudSound' /\ bucket'["web"].objects = keys
    <2> DEFINE value == [bucket["web"] EXCEPT !.objects = keys]
    <2>1. /\ value \in BucketValues /\ value.there = bucket["web"].there /\ value.objects = keys
          /\ value.posture = bucket["web"].posture /\ value.names = bucket["web"].names
      BY <1>2 DEF BucketValues
    <2>2. Put("web", value) BY <1>3
    <2> HIDE DEF value
    <2>3. /\ CloudSound' /\ bucket'["web"] = value
          /\ \A c \in BucketNames : c # "web" => bucket'[c] = bucket[c]
      BY <1>0, <1>1, <1>3, <2>1, <2>2, Putting
    <2>4. \A c \in BucketNames :
             /\ bucket'[c].there = bucket[c].there /\ bucket'[c].posture = bucket[c].posture
             /\ bucket'[c].names = bucket[c].names
      BY <2>1, <2>3
    <2>5. Spared(WebSync) BY <2>4, EveryKind, Unmoved, Zenon DEF Spared
    <2> QED BY <2>1, <2>3, <2>5
  <1>4. ASSUME UNCHANGED bucket PROVE Spared(WebSync) /\ CloudSound'
    <2>1. Spared(WebSync) BY <1>4, EveryKind, Unmoved, Zenon DEF Spared
    <2>2. CloudSound'
      BY <1>1, <1>4 DEF CloudSound, CloudTypeOK, OneOfEach, Granted, Kept, Policies
    <2> QED BY <2>1, <2>2
  <1>5. CASE /\ Doing(Me, "apply", WebSync, "start") /\ bucket["web"].there
             /\ PutObject("web", "page") /\ Goto(Me, "prune")
    <2> DEFINE keys == bucket["web"].objects \cup {"page"}
    <2>1. keys \in SUBSET {"page", "old page"} /\ "page" \in keys BY <1>2
    <2>2. Put("web", [bucket["web"] EXCEPT !.objects = keys]) BY <1>5 DEF PutObject
    <2> HIDE DEF keys
    <2>3. Spared(WebSync) /\ CloudSound' /\ bucket'["web"].objects = keys
      BY <1>3, <1>5, <2>1, <2>2
    <2>4. "prune" \in Steps \ {"layer"} BY DEF Steps
    <2>5. Moves(WebSync) /\ Cmd'.at # 0 /\ Resources[Cmd'.at] = WebSync
      BY <1>5, <2>4, Continuing
    <2>6. KnowsBucket'
      <3>1. \A b, verb, step : ~ Doing(Me, verb, Bucket(b), step)' BY <1>0, <2>5, DoingIs
      <3>2. "page" \in bucket'["web"].objects BY <2>1, <2>3
      <3> QED BY <3>1, <3>2 DEF KnowsBucket
    <2> QED BY <1>0, <2>3, <2>5, <2>6, KnowsNoMore DEF Knows
  <1>6. CASE /\ Doing(Me, "apply", WebSync, "start") /\ ~bucket["web"].there
             /\ UNCHANGED bucket /\ Errs(Me, "refusal")
    <2>1. Cmd.verb = "apply" /\ Cmd.at # 0 /\ Resources[Cmd.at] = WebSync BY <1>6, DoingIs
    <2>2. ~Behind
      <3> SUFFICES ASSUME Behind PROVE FALSE OBVIOUS
      <3>1. Place(Bucket("web")) < Place(WebSync) BY ThePlaces
      <3>2. Bucket("web") \in Range(AllResources) /\ Bucket("web")[1] = "bucket"
        BY EachIsListed DEF Bucket
      <3>3. Whole(Bucket("web")) BY <1>1, <2>1, <3>1, <3>2, BehindApply
      <3> QED BY <1>6, <3>3, OfTheService DEF BucketWhole
    <2> QED BY <1>4, <1>6, <2>2, Refusing
  <1>7. CASE RemoveStale(Me)
    <2>1. /\ Cmd.verb = "apply" /\ "page" \in bucket["web"].objects /\ bucket["web"].there
          /\ Complete(Me)
      BY <1>1, <1>2, <1>7, DoingIs DEF RemoveStale, Knows, KnowsBucket
    <2>2. bucket["web"].objects \ {"old page"} = {"page"} BY <1>2, <2>1
    <2>3. Put("web", [bucket["web"] EXCEPT !.objects = {"page"}])
      BY <1>7, <2>2 DEF RemoveStale, DeleteObjects
    <2>4. Spared(WebSync) /\ CloudSound' /\ bucket'["web"].objects = {"page"}
      BY <1>3, <2>1, <2>3
    <2>5. Whole(WebSync)' BY <2>4, OfTheServiceNext DEF PageWhole
    <2> QED BY <2>1, <2>4, <2>5, Finishing
  <1>8. CASE RemoveSync(Me)
    <2>1. Cmd.verb = "teardown" /\ Complete(Me) BY <1>8, DoingIs DEF RemoveSync, Complete
    <2> QED BY <1>4, <1>8, <2>1, Finishing DEF RemoveSync
  <1>9. CASE NothingToUpload(Me)
    <2>1. /\ Cmd.verb = "apply" /\ UNCHANGED bucket
          /\ Becomes(Me, Ended(Cmd, "applied bare"))
      BY <1>9, DoingIs DEF NothingToUpload, Cmd
    <2>2. Cmd \in Commands /\ "applied bare" \in Outcomes BY <1>1, CmdType DEF Outcomes
    <2>3. Ended(Cmd, "applied bare") \in Commands BY <2>2, Ending
    <2>4. run' \in [Operators -> Commands] /\ Cmd' = Ended(Cmd, "applied bare")
      BY <1>1, <2>1, <2>3, Becoming
    <2>5. EndsBare BY <2>1, <2>4 DEF EndsBare, cloud
    <2>6. Knows' BY <1>1, <2>5, AtWorkMeans, Leaving, KnowsNothingYet
    <2> QED BY <1>4, <2>1, <2>5, <2>6 DEF Moves
  <1> QED BY <1>5, <1>6, <1>7, <1>8, <1>9 DEF Upload

\* The HTTP API.  There is one at most, so it is the one that is found.
LEMMA TheOnly ==
  /\ ~Several({}) /\ TheOne({}) = None
  /\ \A i : ~Several({i}) /\ TheOne({i}) = i
  <1>1. Cardinality({}) = 0 BY FS_EmptySet
  <1>2. ~Several({}) /\ TheOne({}) = None BY <1>1 DEF Several, TheOne
  <1>3. ASSUME NEW i PROVE ~Several({i}) /\ TheOne({i}) = i
    <2>1. Cardinality({i}) = 1 BY FS_Singleton
    <2>2. ~Several({i}) BY <2>1 DEF Several
    <2>3. (CHOOSE j \in {i} : TRUE) \in {i} OBVIOUS
    <2>4. {i} # {} OBVIOUS
    <2>5. TheOne({i}) = i BY <2>3, <2>4 DEF TheOne
    <2> QED BY <2>2, <2>5
  <1> QED BY <1>2, <1>3

FunctionValues ==
    [there : BOOLEAN, code : {"none", "built", "old"}, config : {"none", "built", "old"},
     allows : References]

DistributionValues ==
    [enabled : BOOLEAN, status : {"InProgress", "Deployed"}, host : Ids \cup {Gone}]

\* What a step at the API may do to the services.
LEMMA ApiTouches ==
  ASSUME Alone, TypeOK, CloudSound,
         UNCHANGED <<table, bucket, role, profile, logs, oac>>,
         function' \in [FunctionNames -> FunctionValues],
         \A f \in FunctionNames :
            /\ function'[f].there = function[f].there /\ function'[f].code = function[f].code
            /\ function'[f].config = function[f].config
            /\ function'[f].allows \in DOMAIN apis' \cup {None}
            /\ ~function'[f].there => function'[f].allows = None,
         apis' \in [DOMAIN apis' -> SUBSET Parts],
         DOMAIN apis' = {} \/ \E i \in Ids : DOMAIN apis' = {i},
         dists' = OriginsLeft(DOMAIN apis')
  PROVE  Spared(HttpApi) /\ CloudSound'
  <1>1. CloudTypeOK /\ Kept /\ OneOfEach BY DEF CloudSound
  <1>2. dists \in [DOMAIN dists -> DistributionValues]
    BY <1>1 DEF CloudTypeOK, DistributionValues
  <1>3. DOMAIN dists' = DOMAIN dists BY DEF OriginsLeft
  <1>4. dists' \in [DOMAIN dists' -> DistributionValues]
    <2> SUFFICES ASSUME NEW i \in DOMAIN dists PROVE dists'[i] \in DistributionValues
      BY <1>3 DEF OriginsLeft
    <2>1. dists'[i] = [dists[i] EXCEPT !.host = IF @ \in DOMAIN apis' THEN @ ELSE Gone]
      BY DEF OriginsLeft
    <2>2. dists[i] \in DistributionValues BY <1>2
    <2> QED BY <2>1, <2>2 DEF DistributionValues
  <1>5. Spared(HttpApi)
    <2> SUFFICES ASSUME NEW r \in Range(AllResources), r # HttpApi
                 PROVE  Same(r) \/ (Leads(HttpApi, r) /\ (Absent(r) => Absent(r)'))
      BY DEF Spared
    <2>1. CASE \E f \in FunctionNames : r = Function(f) BY <2>1, Unmoved
    <2>2. CASE r = Cdn
      <3>1. Leads(HttpApi, Cdn) BY DEF Leads, HttpApi, Cdn
      <3>2. Absent(Cdn) => Absent(Cdn)'
        BY <1>3, OfTheService, OfTheServiceNext DEF CdnAbsent
      <3> QED BY <2>2, <3>1, <3>2
    <2> QED BY <2>1, <2>2, EveryKind, Unmoved, Zenon
  <1>6. CloudTypeOK'
    <2>1. DOMAIN apis' \subseteq Ids /\ DOMAIN dists' \subseteq Ids BY <1>1, <1>3 DEF CloudTypeOK
    <2> QED BY <1>1, <1>4, <2>1 DEF CloudTypeOK, DistributionValues, FunctionValues
  <1>7. Kept'
    <2>1. \A f \in FunctionNames : ~function'[f].there => function'[f] = NoFunction
      <3> SUFFICES ASSUME NEW f \in FunctionNames, ~function'[f].there
                   PROVE  function'[f] = NoFunction
        OBVIOUS
      <3>1. function[f] = NoFunction BY <1>1 DEF Kept
      <3>2. function'[f].code = "none" /\ function'[f].config = "none"
            /\ function'[f].allows = None /\ function'[f].there = FALSE
        BY <3>1 DEF NoFunction
      <3>3. function'[f] \in FunctionValues OBVIOUS
      <3> QED BY <3>2, <3>3 DEF FunctionValues, NoFunction
    <2> QED BY <1>1, <2>1 DEF Kept, Policies
  <1>8. OneOfEach' BY <1>1, <1>3 DEF OneOfEach
  <1>9. Granted' BY DEF Granted
  <1> QED BY <1>5, <1>6, <1>7, <1>8, <1>9 DEF CloudSound

\* What it knows where it goes on.
LEMMA KnowsApiNext ==
  ASSUME Cmd'.at # 0, Resources[Cmd'.at] = HttpApi,
         \/ Cmd'.verb = "apply" /\ Cmd'.step = "create" /\ DOMAIN apis' = {}
         \/ Cmd'.verb = "apply" /\ Cmd'.step = "build"
         \/ /\ Cmd'.verb = "apply" /\ Cmd'.step = "gateway"
            /\ Cmd'.saw \in DOMAIN apis' /\ apis'[Cmd'.saw] = Parts
         \/ /\ Cmd'.verb = "apply" /\ Cmd'.step = "webapi"
            /\ Cmd'.saw \in DOMAIN apis' /\ apis'[Cmd'.saw] = Parts
            /\ function'["gateway"].allows = Cmd'.saw
         \/ Cmd'.verb = "teardown" /\ Cmd'.step = "gateway" /\ Cmd'.saw \in DOMAIN apis'
         \/ /\ Cmd'.verb = "teardown" /\ Cmd'.step = "webapi" /\ Cmd'.saw \in DOMAIN apis'
            /\ function'["gateway"].allows = None
         \/ /\ Cmd'.verb = "teardown" /\ Cmd'.step = "done" /\ Cmd'.saw \in DOMAIN apis'
            /\ \A f \in FunctionNames : function'[f].allows = None
  PROVE  Knows'
  <1>1. HttpApi[1] = "http api" BY DEF HttpApi
  <1>2. \A verb, step : Doing(Me, verb, HttpApi, step)' <=> Cmd'.verb = verb /\ Cmd'.step = step
    BY DoingIs
  <1>3. "create" \notin FunctionNames /\ "build" \notin FunctionNames /\ "done" \notin FunctionNames
    BY DEF FunctionNames
  <1>4. KnowsApi' BY <1>2, <1>3 DEF KnowsApi
  <1> QED BY <1>1, <1>4, KnowsNoMore DEF Knows

LEMMA ApiFacts ==
  ASSUME CloudSound
  PROVE  /\ function \in [FunctionNames -> FunctionValues]
         /\ \A f \in FunctionNames :
               /\ function[f] \in FunctionValues
               /\ function[f].allows \in DOMAIN apis \cup {None}
               /\ ~function[f].there => function[f] = NoFunction
               /\ ~function[f].there => function[f].allows = None
         /\ apis \in [DOMAIN apis -> SUBSET Parts]
         /\ DOMAIN apis = {} \/ \E i \in Ids : DOMAIN apis = {i}
         /\ None \notin DOMAIN apis /\ DOMAIN apis \subseteq Ids
         /\ None \in References /\ Ids \subseteq References
  <1>1. CloudTypeOK /\ Kept /\ OneOfEach /\ Granted BY DEF CloudSound
  <1>2. function \in [FunctionNames -> FunctionValues] BY <1>1 DEF CloudTypeOK, FunctionValues
  <1>3. None \notin Ids BY DeployAssumption DEF None
  <1>4. \A f \in FunctionNames :
           /\ ~function[f].there => function[f] = NoFunction
           /\ ~function[f].there => function[f].allows = None
    <2>1. NoFunction.allows = None BY DEF NoFunction
    <2>2. \A f \in FunctionNames : ~function[f].there => function[f] = NoFunction
      BY <1>1 DEF Kept
    <2> QED BY <2>1, <2>2
  <1> QED BY <1>1, <1>2, <1>3, <1>4 DEF CloudTypeOK, OneOfEach, Granted, References

LEMMA ApiTouchesNoFunction ==
  ASSUME Alone, TypeOK, CloudSound, UNCHANGED function,
         UNCHANGED <<table, bucket, role, profile, logs, oac>>,
         apis' \in [DOMAIN apis' -> SUBSET Parts], DOMAIN apis \subseteq DOMAIN apis',
         DOMAIN apis' = {} \/ \E i \in Ids : DOMAIN apis' = {i},
         dists' = OriginsLeft(DOMAIN apis')
  PROVE  Spared(HttpApi) /\ CloudSound'
  <1>1. \A f \in FunctionNames :
            /\ function'[f].there = function[f].there /\ function'[f].code = function[f].code
            /\ function'[f].config = function[f].config
            /\ function'[f].allows \in DOMAIN apis' \cup {None}
            /\ ~function'[f].there => function'[f].allows = None
    BY ApiFacts
  <1>2. function' \in [FunctionNames -> FunctionValues] BY ApiFacts
  <1> QED BY <1>1, <1>2, ApiTouches

\* It is looked up, and it is the only one.
LEMMA ApiLooks ==
  ASSUME Alone, AtWork(HttpApi),
         FindApi(Me) \/ (Doing(Me, "teardown", HttpApi, "start") /\ RemoveApi(Me)),
         dists' = OriginsLeft(DOMAIN apis'), UNCHANGED <<table, bucket, role, profile, logs, oac>>
  PROVE  Moves(HttpApi) /\ Spared(HttpApi) /\ Knows' /\ CloudSound'
  <1>1. TypeOK /\ CloudSound /\ Knows BY AtWorkMeans
  <1>2. UNCHANGED <<apis, function>>
    BY DoingIs DEF FindApi, RemoveApi, FunctionNames
  <1>3. Spared(HttpApi) /\ CloudSound' BY <1>1, <1>2, ApiFacts, ApiTouchesNoFunction
  <1>4. {"create", "build", "gateway"} \subseteq Steps \ {"layer"} BY DEF Steps
  <1>5. ~Several(DOMAIN apis) /\ TheOne(DOMAIN apis) \in References
        /\ (DOMAIN apis # {} => TheOne(DOMAIN apis) \in DOMAIN apis)
    BY <1>1, ApiFacts, TheOnly
  <1>6. CASE FindApi(Me)
    <2> DEFINE next == IF DOMAIN apis = {} THEN "create" ELSE "build"
    <2>1. Cmd.verb = "apply" /\ Found(Me, TheOne(DOMAIN apis), next)
      BY <1>5, <1>6, DoingIs DEF FindApi
    <2>2. next \in Steps \ {"layer"} /\ (next = "create" => DOMAIN apis = {})
          /\ next \in {"create", "build"}
      BY <1>4
    <2> HIDE DEF next
    <2>3. /\ Moves(HttpApi) /\ Cmd'.step = next /\ Cmd'.verb = "apply"
          /\ Cmd'.at # 0 /\ Resources[Cmd'.at] = HttpApi
      BY <1>5, <2>1, <2>2, Looking
    <2>4. Knows' BY <1>2, <2>2, <2>3, KnowsApiNext
    <2> QED BY <1>3, <2>3, <2>4
  <1>7. CASE Doing(Me, "teardown", HttpApi, "start") /\ RemoveApi(Me)
    <2>1. Cmd.verb = "teardown" /\ Cmd.step = "start" BY <1>7, DoingIs
    <2>2. \/ DOMAIN apis = {} /\ Complete(Me)
          \/ DOMAIN apis # {} /\ Found(Me, TheOne(DOMAIN apis), "gateway")
      BY <1>5, <1>7, <2>1, DoingIs DEF RemoveApi, FunctionNames
    <2>3. CASE DOMAIN apis = {} /\ Complete(Me)
      <3>1. Absent(HttpApi)' BY <1>2, <2>3, OfTheServiceNext DEF ApiAbsent
      <3> QED BY <1>3, <2>1, <2>3, <3>1, Finishing
    <2>4. CASE DOMAIN apis # {} /\ Found(Me, TheOne(DOMAIN apis), "gateway")
      <3>1. /\ Moves(HttpApi) /\ Cmd'.step = "gateway" /\ Cmd'.saw \in DOMAIN apis
            /\ Cmd'.verb = "teardown" /\ Cmd'.at # 0 /\ Resources[Cmd'.at] = HttpApi
        BY <1>4, <1>5, <2>1, <2>4, Looking
      <3>2. Knows' BY <1>2, <3>1, KnowsApiNext
      <3> QED BY <1>3, <3>1, <3>2
    <2> QED BY <2>2, <2>3, <2>4
  <1> QED BY <1>6, <1>7

\* It is made and built.
LEMMA ApiBuilds ==
  ASSUME Alone, AtWork(HttpApi), CreateForayApi(Me, FreshId(DOMAIN apis)) \/ BuildApi(Me),
         dists' = OriginsLeft(DOMAIN apis'), UNCHANGED <<table, bucket, role, profile, logs, oac>>
  PROVE  Moves(HttpApi) /\ Spared(HttpApi) /\ Knows' /\ CloudSound'
  <1>1. TypeOK /\ CloudSound /\ Knows BY AtWorkMeans
  <1>2. UNCHANGED function BY DEF CreateForayApi, BuildApi
  <1>3. {"build", "gateway"} \subseteq Steps \ {"layer"} BY DEF Steps
  <1>4. ASSUME apis' \in [DOMAIN apis' -> SUBSET Parts], DOMAIN apis \subseteq DOMAIN apis',
               DOMAIN apis' = {} \/ \E i \in Ids : DOMAIN apis' = {i}
        PROVE  Spared(HttpApi) /\ CloudSound'
    BY <1>1, <1>2, <1>4, ApiTouchesNoFunction
  <1>5. CASE CreateForayApi(Me, FreshId(DOMAIN apis))
    <2>1. Cmd.verb = "apply" /\ DOMAIN apis = {}
      BY <1>1, <1>5, DoingIs DEF CreateForayApi, Knows, KnowsApi
    <2> DEFINE id == FreshId(DOMAIN apis)
    <2>2. id \in Ids BY <2>1, DeployAssumption DEF FreshId
    <2>3. CreateApi(id) /\ Found(Me, id, "build") BY <1>5 DEF CreateForayApi
    <2> HIDE DEF id
    <2>4. DOMAIN apis' = {id} /\ apis'[id] = {} BY <2>1, <2>3 DEF CreateApi
    <2>5. apis' \in [DOMAIN apis' -> SUBSET Parts] BY <2>1, <2>3, <2>4 DEF CreateApi
    <2>6. Spared(HttpApi) /\ CloudSound' BY <1>4, <2>1, <2>2, <2>4, <2>5
    <2>7. /\ Moves(HttpApi) /\ Cmd'.step = "build" /\ Cmd'.verb = "apply"
          /\ Cmd'.at # 0 /\ Resources[Cmd'.at] = HttpApi
      BY <1>1, <1>3, <2>1, <2>2, <2>3, ApiFacts, Looking
    <2>8. Knows' BY <2>7, KnowsApiNext
    <2> QED BY <2>6, <2>7, <2>8
  <1>6. CASE BuildApi(Me)
    <2> DEFINE parts == EnsureStage(EnsureRoutes(EnsureIntegrations({})))
    <2>1. Cmd.verb = "apply" BY <1>6, DoingIs DEF BuildApi
    <2>2. parts = Parts
      BY DEF EnsureStage, EnsureRoutes, EnsureIntegrations, Parts
    <2>3. CASE Cmd.saw \in DOMAIN apis /\ Build(Cmd.saw, Parts) /\ Goto(Me, "gateway")
      <3>1. apis' = [apis EXCEPT ![Cmd.saw] = @ \cup Parts] BY <2>3 DEF Build
      <3>2. apis[Cmd.saw] \subseteq Parts BY <1>1, <2>3, ApiFacts
      <3>3. DOMAIN apis' = DOMAIN apis /\ apis'[Cmd.saw] = Parts
        BY <2>3, <3>1, <3>2
      <3>4. apis' \in [DOMAIN apis' -> SUBSET Parts]
        BY <1>1, <3>1, <3>2, <3>3, ApiFacts
      <3>5. Spared(HttpApi) /\ CloudSound' BY <1>1, <1>4, <3>3, <3>4, ApiFacts
      <3>6. /\ Moves(HttpApi) /\ Cmd'.step = "gateway" /\ Cmd'.verb = "apply"
            /\ Cmd'.saw = Cmd.saw /\ Cmd'.at # 0 /\ Resources[Cmd'.at] = HttpApi
        BY <1>3, <2>1, <2>3, Continuing
      <3>7. Knows' BY <2>3, <3>3, <3>6, KnowsApiNext
      <3> QED BY <3>5, <3>6, <3>7
    <2>4. CASE UNCHANGED apis /\ Errs(Me, "mishap")
      BY <1>1, <1>4, <2>4, ApiFacts, Misfiring
    <2> HIDE DEF parts
    <2>5. \/ Cmd.saw \in DOMAIN apis /\ Build(Cmd.saw, parts) /\ Goto(Me, "gateway")
          \/ UNCHANGED apis /\ Errs(Me, "mishap")
      BY <1>6 DEF BuildApi, Cmd, parts
    <2> QED BY <2>2, <2>3, <2>4, <2>5
  <1> QED BY <1>5, <1>6

\* The functions let it invoke them.
LEMMA ApiPermits ==
  ASSUME Alone, AtWork(HttpApi), NEW f \in FunctionNames, EnsureInvokePermission(Me, f),
         dists' = OriginsLeft(DOMAIN apis'), UNCHANGED <<table, bucket, role, profile, logs, oac>>
  PROVE  Moves(HttpApi) /\ Spared(HttpApi) /\ Knows' /\ CloudSound'
  <1>1. TypeOK /\ CloudSound /\ Knows BY AtWorkMeans
  <1>2. /\ Cmd.verb = "apply" /\ Cmd.step = f /\ Cmd.at # 0 /\ Resources[Cmd.at] = HttpApi
        /\ Cmd.saw \in DOMAIN apis /\ apis[Cmd.saw] = Parts /\ UNCHANGED apis
        /\ f = "webapi" => function["gateway"].allows = Cmd.saw
    BY <1>1, DoingIs DEF EnsureInvokePermission, Knows, KnowsApi
  <1>3. PICK id \in Ids : DOMAIN apis = {id} BY <1>1, <1>2, ApiFacts
  <1>4. Cmd.saw = id BY <1>2, <1>3
  <1>5. CASE function[f].there /\ AddPermission(f, id)
    <2> DEFINE value == [function[f] EXCEPT !.allows = IF @ = None THEN id ELSE @]
    <2>1. function' = [function EXCEPT ![f] = value] BY <1>5 DEF AddPermission, PutFunction
    <2>2. /\ value \in FunctionValues /\ value.allows = id /\ value.there = function[f].there
          /\ value.code = function[f].code /\ value.config = function[f].config
      BY <1>1, <1>3, ApiFacts DEF FunctionValues
    <2> HIDE DEF value
    <2>3. /\ function' \in [FunctionNames -> FunctionValues] /\ function'[f] = value
          /\ \A h \in FunctionNames : h # f => function'[h] = function[h]
      BY <1>1, <2>1, <2>2, ApiFacts
    <2>4. \A h \in FunctionNames :
            /\ function'[h].there = function[h].there /\ function'[h].code = function[h].code
            /\ function'[h].config = function[h].config
            /\ function'[h].allows \in DOMAIN apis' \cup {None}
            /\ ~function'[h].there => function'[h].allows = None
      BY <1>1, <1>2, <1>3, <1>5, <2>2, <2>3, ApiFacts
    <2>5. Spared(HttpApi) /\ CloudSound'
      BY <1>1, <1>2, <2>3, <2>4, ApiFacts, ApiTouches
    <2>6. CASE f = "gateway" /\ Goto(Me, "webapi")
      <3>1. "webapi" \in Steps \ {"layer"} BY DEF Steps
      <3>2. /\ Moves(HttpApi) /\ Cmd'.step = "webapi" /\ Cmd'.verb = "apply"
            /\ Cmd'.saw = Cmd.saw /\ Cmd'.at # 0 /\ Resources[Cmd'.at] = HttpApi
        BY <1>2, <2>6, <3>1, Continuing
      <3>3. function'["gateway"].allows = Cmd'.saw BY <1>4, <2>2, <2>3, <2>6, <3>2
      <3>4. Knows' BY <1>2, <3>2, <3>3, KnowsApiNext
      <3> QED BY <2>5, <3>2, <3>4
    <2>7. CASE f = "webapi" /\ Complete(Me)
      <3>1. function'["gateway"].allows = id /\ function'["webapi"].allows = id
        BY <1>2, <1>4, <2>2, <2>3, <2>7 DEF FunctionNames
      <3>2. Whole(HttpApi)'
        BY <1>2, <1>3, <1>4, <3>1, OfTheServiceNext DEF ApiWhole, FunctionNames
      <3> QED BY <1>2, <2>5, <2>7, <3>2, Finishing
    <2> QED BY <1>5, <2>6, <2>7 DEF EnsureInvokePermission, FunctionNames, NextPermit
  <1>6. CASE ~function[f].there /\ UNCHANGED function /\ Errs(Me, "refusal")
    <2>1. ~Behind
      <3> SUFFICES ASSUME Behind PROVE FALSE OBVIOUS
      <3>1. Place(Function(f)) < Place(HttpApi) BY ThePlaces DEF FunctionNames
      <3>2. Function(f) \in Range(AllResources) /\ Function(f)[1] = "function"
        BY EachIsListed DEF Function, FunctionNames
      <3>3. Whole(Function(f)) BY <1>1, <1>2, <3>1, <3>2, BehindApply
      <3>4. function[f].code = "built" BY <3>3, OfTheService DEF FunctionWhole
      <3> QED BY <1>1, <1>6, <3>4, ApiFacts DEF NoFunction
    <2>2. Spared(HttpApi) /\ CloudSound'
      BY <1>1, <1>2, <1>6, ApiFacts, ApiTouchesNoFunction
    <2> QED BY <1>6, <2>1, <2>2, Refusing
  <1>7. EnsureInvokePermission(Me, f) =>
          \/ function[f].there /\ AddPermission(f, Cmd.saw)
          \/ ~function[f].there /\ UNCHANGED function /\ Errs(Me, "refusal")
    BY DEF EnsureInvokePermission, Cmd
  <1> QED BY <1>4, <1>5, <1>6, <1>7

LEMMA NextPermits ==
  \A f : (f = "gateway" => NextPermit[f] = "webapi") /\ (f = "webapi" => NextPermit[f] = "done")
  <1>1. NextPermit["gateway"] = "webapi" /\ NextPermit["webapi"] = "done" BY DEF NextPermit
  <1> QED BY <1>1, Zenon

\* It is removed, after the permissions.
LEMMA ApiRemoved ==
  ASSUME Alone, AtWork(HttpApi), RemoveApi(Me), ~Doing(Me, "teardown", HttpApi, "start"),
         dists' = OriginsLeft(DOMAIN apis'), UNCHANGED <<table, bucket, role, profile, logs, oac>>
  PROVE  Moves(HttpApi) /\ Spared(HttpApi) /\ Knows' /\ CloudSound'
  <1>1. TypeOK /\ CloudSound /\ Knows BY AtWorkMeans
  <1>2. ASSUME NEW f \in FunctionNames, Doing(Me, "teardown", HttpApi, f), UNCHANGED apis,
               RemovePermission(f), Goto(Me, NextPermit[f])
        PROVE  Moves(HttpApi) /\ Spared(HttpApi) /\ Knows' /\ CloudSound'
    <2>1. /\ Cmd.verb = "teardown" /\ Cmd.step = f /\ Cmd.saw \in DOMAIN apis
          /\ f = "webapi" => function["gateway"].allows = None
      BY <1>1, <1>2, DoingIs DEF Knows, KnowsApi
    <2> DEFINE value == [function[f] EXCEPT !.allows = None]
    <2>2. function' = [function EXCEPT ![f] = value] BY <1>2 DEF RemovePermission, PutFunction
    <2>3. /\ value \in FunctionValues /\ value.allows = None /\ value.there = function[f].there
          /\ value.code = function[f].code /\ value.config = function[f].config
      BY <1>1, ApiFacts DEF FunctionValues
    <2> HIDE DEF value
    <2>4. /\ function' \in [FunctionNames -> FunctionValues] /\ function'[f] = value
          /\ \A h \in FunctionNames : h # f => function'[h] = function[h]
      BY <1>1, <2>2, <2>3, ApiFacts
    <2>5. \A h \in FunctionNames :
            /\ function'[h].there = function[h].there /\ function'[h].code = function[h].code
            /\ function'[h].config = function[h].config
            /\ function'[h].allows \in DOMAIN apis' \cup {None}
            /\ ~function'[h].there => function'[h].allows = None
      BY <1>1, <1>2, <2>3, <2>4, ApiFacts
    <2>6. Spared(HttpApi) /\ CloudSound'
      BY <1>1, <1>2, <2>4, <2>5, ApiFacts, ApiTouches
    <2>7. \/ f = "gateway" /\ NextPermit[f] = "webapi"
          \/ f = "webapi" /\ NextPermit[f] = "done"
      BY NextPermits DEF FunctionNames
    <2>8. NextPermit[f] \in Steps \ {"layer"} BY <2>7 DEF Steps
    <2>9. /\ Moves(HttpApi) /\ Cmd'.step = NextPermit[f] /\ Cmd'.verb = "teardown"
          /\ Cmd'.saw = Cmd.saw /\ Cmd'.at # 0 /\ Resources[Cmd'.at] = HttpApi
      BY <1>2, <2>1, <2>8, Continuing
    <2>10. CASE f = "gateway"
      <3>1. Cmd'.step = "webapi" /\ Cmd'.saw \in DOMAIN apis' /\ function'["gateway"].allows = None
        BY <1>2, <2>1, <2>3, <2>4, <2>7, <2>9, <2>10
      <3>2. Knows' BY <2>9, <3>1, KnowsApiNext
      <3> QED BY <2>6, <2>9, <3>2
    <2>11. CASE f = "webapi"
      <3>1. \A h \in FunctionNames : function'[h].allows = None
        BY <2>1, <2>3, <2>4, <2>11 DEF FunctionNames
      <3>2. Cmd'.step = "done" /\ Cmd'.saw \in DOMAIN apis' BY <1>2, <2>1, <2>7, <2>9, <2>11
      <3>3. Knows' BY <2>9, <3>1, <3>2, KnowsApiNext
      <3> QED BY <2>6, <2>9, <3>3
    <2> QED BY <2>7, <2>10, <2>11
  <1>3. CASE Doing(Me, "teardown", HttpApi, "done") /\ DeleteApi(run[Me].saw) /\ Complete(Me)
    <2>1. /\ Cmd.verb = "teardown" /\ Cmd.saw \in DOMAIN apis
          /\ \A f \in FunctionNames : function[f].allows = None
      BY <1>1, <1>3, DoingIs DEF Knows, KnowsApi
    <2>2. DeleteApi(Cmd.saw) BY <1>3 DEF Cmd
    <2>3. DOMAIN apis = {Cmd.saw} /\ Cmd.saw # None BY <1>1, <2>1, ApiFacts
    <2>4. DOMAIN apis' = {} BY <2>2, <2>3 DEF DeleteApi, Restrict
    <2>5. apis' \in [DOMAIN apis' -> SUBSET Parts] BY <2>2, <2>3, <2>4 DEF DeleteApi, Restrict
    <2>6. \A f \in FunctionNames : function'[f] = function[f]
      <3> TAKE f \in FunctionNames
      <3>1. function'[f] = [function[f] EXCEPT !.allows = IF @ = Cmd.saw THEN Gone ELSE @]
        BY <2>2 DEF DeleteApi
      <3>2. function[f].allows # Cmd.saw /\ function[f] \in FunctionValues
        BY <1>1, <2>1, <2>3, ApiFacts
      <3>3. function'[f] = [function[f] EXCEPT !.allows = function[f].allows] BY <3>1, <3>2
      <3> QED BY <3>2, <3>3 DEF FunctionValues
    <2>7. function' \in [FunctionNames -> FunctionValues]
      <3>1. function' = [f \in FunctionNames |-> function'[f]] BY <2>2 DEF DeleteApi
      <3> QED BY <1>1, <2>6, <3>1, ApiFacts
    <2>8. Spared(HttpApi) /\ CloudSound'
      BY <1>1, <2>1, <2>4, <2>5, <2>6, <2>7, ApiTouches
    <2>9. Absent(HttpApi)' BY <2>4, OfTheServiceNext DEF ApiAbsent
    <2> QED BY <1>3, <2>1, <2>8, <2>9, Finishing
  <1> QED BY <1>2, <1>3 DEF RemoveApi

\* The distribution: what its steps may do to the services.
LEMMA CdnTouches ==
  ASSUME Alone, TypeOK, CloudSound,
         UNCHANGED <<table, role, profile, function, logs, apis>>,
         bucket' \in [BucketNames -> BucketValues],
         \A b \in BucketNames :
            /\ bucket'[b].there = bucket[b].there /\ bucket'[b].posture = bucket[b].posture
            /\ bucket'[b].objects = bucket[b].objects,
         dists' \in [DOMAIN dists' -> DistributionValues],
         DOMAIN dists' = {} \/ \E i \in Ids : DOMAIN dists' = {i},
         oac' \in BOOLEAN
  PROVE  Spared(Cdn) /\ CloudSound'
  <1>1. CloudTypeOK /\ Kept /\ OneOfEach /\ Granted BY DEF CloudSound
  <1>2. "web" \in BucketNames BY DEF BucketNames
  <1>3. Spared(Cdn)
    <2> SUFFICES ASSUME NEW r \in Range(AllResources), r # Cdn PROVE Same(r) BY DEF Spared
    <2> QED BY <1>2, EveryKind, Unmoved, Zenon
  <1>4. DOMAIN dists' \subseteq Ids OBVIOUS
  <1>5. CloudTypeOK' BY <1>1, <1>4 DEF CloudTypeOK, DistributionValues, BucketValues
  <1>6. Kept' BY <1>1, <1>2 DEF Kept, Policies
  <1>7. OneOfEach' BY <1>1 DEF OneOfEach
  <1>8. Granted' BY <1>1 DEF Granted
  <1> QED BY <1>3, <1>5, <1>6, <1>7, <1>8 DEF CloudSound

LEMMA CdnFacts ==
  ASSUME CloudSound
  PROVE  /\ bucket \in [BucketNames -> BucketValues]
         /\ \A b \in BucketNames : bucket[b] \in BucketValues
         /\ "web" \in BucketNames /\ "data" \in BucketNames
         /\ dists \in [DOMAIN dists -> DistributionValues]
         /\ \A i \in DOMAIN dists : dists[i] \in DistributionValues
         /\ DOMAIN dists = {} \/ \E i \in Ids : DOMAIN dists = {i}
         /\ DOMAIN dists \subseteq Ids
         /\ oac \in BOOLEAN
  <1>1. CloudTypeOK /\ OneOfEach BY DEF CloudSound
  <1>2. "web" \in BucketNames /\ "data" \in BucketNames BY DEF BucketNames
  <1>3. bucket \in [BucketNames -> BucketValues] /\ dists \in [DOMAIN dists -> DistributionValues]
    BY <1>1 DEF CloudTypeOK, BucketValues, DistributionValues
  <1> QED BY <1>1, <1>2, <1>3 DEF CloudTypeOK, OneOfEach

\* The buckets stay, or their names change.
LEMMA CdnTouchesNoBucket ==
  ASSUME Alone, TypeOK, CloudSound,
         UNCHANGED <<table, role, profile, function, logs, apis, bucket>>,
         dists' \in [DOMAIN dists' -> DistributionValues],
         DOMAIN dists' = {} \/ \E i \in Ids : DOMAIN dists' = {i},
         oac' \in BOOLEAN
  PROVE  Spared(Cdn) /\ CloudSound'
  BY CdnFacts, CdnTouches

LEMMA CdnNames ==
  ASSUME Alone, TypeOK, CloudSound, NEW b \in BucketNames, NEW id \in References,
         PutBucketPolicy(b, id),
         UNCHANGED <<table, role, profile, function, logs, apis, dists, oac>>
  PROVE  /\ Spared(Cdn) /\ CloudSound' /\ bucket'[b].names = id
         /\ \A c \in BucketNames : c # b => bucket'[c].names = bucket[c].names
  <1> DEFINE value == [bucket[b] EXCEPT !.names = id]
  <1>1. bucket' = [bucket EXCEPT ![b] = value] BY DEF PutBucketPolicy, Put
  <1>2. /\ value \in BucketValues /\ value.names = id /\ value.there = bucket[b].there
        /\ value.posture = bucket[b].posture /\ value.objects = bucket[b].objects
    BY CdnFacts DEF BucketValues
  <1> HIDE DEF value
  <1>3. /\ bucket' \in [BucketNames -> BucketValues] /\ bucket'[b] = value
        /\ \A c \in BucketNames : c # b => bucket'[c] = bucket[c]
    BY <1>1, <1>2, CdnFacts
  <1>4. \A c \in BucketNames :
            /\ bucket'[c].there = bucket[c].there /\ bucket'[c].posture = bucket[c].posture
            /\ bucket'[c].objects = bucket[c].objects
    BY <1>2, <1>3
  <1>5. Spared(Cdn) /\ CloudSound' BY <1>3, <1>4, CdnFacts, CdnTouches
  <1> QED BY <1>2, <1>3, <1>5

\* The one distribution changes.
LEMMA CdnUpdates ==
  ASSUME Alone, TypeOK, CloudSound, NEW id \in DOMAIN dists, NEW value \in DistributionValues,
         dists' = [dists EXCEPT ![id] = value],
         UNCHANGED <<table, role, profile, function, logs, apis, bucket, oac>>
  PROVE  /\ Spared(Cdn) /\ CloudSound' /\ dists'[id] = value /\ DOMAIN dists' = DOMAIN dists
  <1>1. DOMAIN dists' = DOMAIN dists /\ dists'[id] = value OBVIOUS
  <1>2. dists' \in [DOMAIN dists' -> DistributionValues] BY <1>1, CdnFacts
  <1> QED BY <1>1, <1>2, CdnFacts, CdnTouchesNoBucket

\* What it knows where it goes on.
LEMMA KnowsCdnNext ==
  ASSUME Cmd'.at # 0, Resources[Cmd'.at] = Cdn,
         \/ /\ Cmd'.verb = "apply" /\ oac'
            /\ Cmd'.step \in {"find", "converge", "policy", "cors", "wait"}
            /\ Cmd'.step # "find" => Cmd'.saw \in DOMAIN dists'
            /\ Cmd'.step \in {"policy", "cors", "wait"} => dists'[Cmd'.saw].host \in DOMAIN apis'
            /\ Cmd'.step \in {"cors", "wait"} => bucket'["web"].names = Cmd'.saw
            /\ Cmd'.step = "wait" => bucket'["data"].names = Cmd'.saw
         \/ /\ Cmd'.verb = "teardown" /\ Cmd'.step \in {"wait", "delete"}
            /\ Cmd'.saw \in DOMAIN dists' /\ ~dists'[Cmd'.saw].enabled
         \/ Cmd'.verb = "teardown" /\ Cmd'.step = "oac" /\ DOMAIN dists' = {}
  PROVE  Knows'
  <1>1. Cdn[1] = "distribution" BY DEF Cdn
  <1>2. \A verb, step : Doing(Me, verb, Cdn, step)' <=> Cmd'.verb = verb /\ Cmd'.step = step
    BY DoingIs
  <1>3. KnowsCdn' BY <1>2 DEF KnowsCdn
  <1> QED BY <1>1, <1>3, KnowsNoMore DEF Knows

\* An apply that has come to the distribution has an API and both buckets behind it.
LEMMA CdnBehind ==
  ASSUME Alone, TypeOK, CloudSound, Behind, Cmd.verb = "apply", Cmd.at # 0,
         Resources[Cmd.at] = Cdn
  PROVE  ~NoSingleApi /\ bucket["web"].there /\ bucket["data"].there
  <1>1. /\ Place(HttpApi) < Place(Cdn) /\ Place(Bucket("web")) < Place(Cdn)
        /\ Place(Bucket("data")) < Place(Cdn)
    BY ThePlaces
  <1>2. /\ HttpApi[1] = "http api" /\ Bucket("web")[1] = "bucket" /\ Bucket("data")[1] = "bucket"
    BY DEF HttpApi, Bucket
  <1>3. Whole(HttpApi) /\ Whole(Bucket("web")) /\ Whole(Bucket("data"))
    BY <1>1, <1>2, EachIsListed, BehindApply
  <1>4. PICK id \in Ids : DOMAIN apis = {id} BY <1>3, OfTheService DEF ApiWhole
  <1>5. ~NoSingleApi BY <1>4, TheOnly DEF NoSingleApi
  <1> QED BY <1>3, <1>5, OfTheService DEF BucketWhole

\* What is known of it, and of the one that is seen.
LEMMA CdnSeen ==
  ASSUME Alone, AtWork(Cdn)
  PROVE  /\ \A verb, step : Doing(Me, verb, Cdn, step) <=> Cmd.verb = verb /\ Cmd.step = step
         /\ Cmd.verb = "apply" /\ Cmd.step \in {"find", "converge", "policy", "cors", "wait"} => oac
         /\ Cmd.verb = "apply" /\ Cmd.step \in {"converge", "policy", "cors", "wait"} =>
              Cmd.saw \in DOMAIN dists
         /\ Cmd.verb = "apply" /\ Cmd.step \in {"policy", "cors", "wait"} =>
              dists[Cmd.saw].host \in DOMAIN apis
         /\ Cmd.verb = "apply" /\ Cmd.step \in {"cors", "wait"} => bucket["web"].names = Cmd.saw
         /\ Cmd.verb = "apply" /\ Cmd.step = "wait" => bucket["data"].names = Cmd.saw
         /\ Cmd.verb = "teardown" /\ Cmd.step \in {"wait", "delete"} =>
              Cmd.saw \in DOMAIN dists /\ ~dists[Cmd.saw].enabled
         /\ Cmd.verb = "teardown" /\ Cmd.step = "oac" => DOMAIN dists = {}
         /\ Cmd.saw \in DOMAIN dists => DOMAIN dists = {Cmd.saw}
  <1>1. CloudSound /\ KnowsCdn BY AtWorkMeans DEF Knows
  <1>2. \A verb, step : Doing(Me, verb, Cdn, step) <=> Cmd.verb = verb /\ Cmd.step = step
    BY AtWorkMeans, DoingIs
  <1>3. Cmd.saw \in DOMAIN dists => DOMAIN dists = {Cmd.saw} BY <1>1, CdnFacts
  <1> QED BY <1>1, <1>2, <1>3 DEF KnowsCdn

\* It is found or made, and brought to the API there is now.
LEMMA CdnEnsured ==
  ASSUME Alone, AtWork(Cdn),
         \/ EnsureOAC(Me) \/ FindDistribution(Me)
         \/ CreateForayDistribution(Me, FreshId(DOMAIN dists)) \/ Converge(Me),
         UNCHANGED <<table, role, profile, function, logs, apis>>
  PROVE  Moves(Cdn) /\ Spared(Cdn) /\ Knows' /\ CloudSound'
  <1>1. TypeOK /\ CloudSound /\ Knows /\ Cmd.at # 0 /\ Resources[Cmd.at] = Cdn BY AtWorkMeans
  <1>2. {"find", "converge", "policy"} \subseteq Steps \ {"layer"} BY DEF Steps
  <1>3. UNCHANGED bucket
    BY DEF EnsureOAC, FindDistribution, CreateForayDistribution, Converge
  <1>4. Cmd.verb = "apply"
    BY CdnSeen DEF EnsureOAC, FindDistribution, CreateForayDistribution, Converge
  <1>5. ASSUME NoSingleApi, UNCHANGED <<dists, oac>>, Errs(Me, "refusal")
        PROVE  Moves(Cdn) /\ Spared(Cdn) /\ Knows' /\ CloudSound'
    <2>1. ~Behind BY <1>1, <1>4, <1>5, CdnBehind
    <2>2. Spared(Cdn) /\ CloudSound' BY <1>1, <1>3, <1>5, CdnFacts, CdnTouchesNoBucket
    <2> QED BY <1>5, <2>1, <2>2, Refusing
  <1>6. CASE EnsureOAC(Me)
    <2>1. oac' = TRUE /\ UNCHANGED dists /\ Goto(Me, "find") BY <1>6 DEF EnsureOAC
    <2>2. Spared(Cdn) /\ CloudSound' BY <1>1, <1>3, <2>1, CdnFacts, CdnTouchesNoBucket
    <2>3. /\ Moves(Cdn) /\ Cmd'.step = "find" /\ Cmd'.verb = "apply"
          /\ Cmd'.at # 0 /\ Resources[Cmd'.at] = Cdn
      BY <1>2, <1>4, <2>1, Continuing
    <2>4. Knows' BY <2>1, <2>3, KnowsCdnNext
    <2> QED BY <2>2, <2>3, <2>4
  <1>7. CASE FindDistribution(Me)
    <2>1. Cmd.step = "find" /\ oac /\ DOMAIN dists # {} BY <1>4, <1>7, CdnSeen DEF FindDistribution
    <2>2. PICK id \in Ids : DOMAIN dists = {id} BY <1>1, <2>1, CdnFacts
    <2>3. UNCHANGED <<dists, oac>> /\ Found(Me, id, "converge")
      BY <1>7, <2>2, TheOnly DEF FindDistribution
    <2>4. Spared(Cdn) /\ CloudSound' BY <1>1, <1>3, <2>3, CdnFacts, CdnTouchesNoBucket
    <2>5. id \in References BY DEF References
    <2>6. /\ Moves(Cdn) /\ Cmd'.step = "converge" /\ Cmd'.verb = "apply" /\ Cmd'.saw = id
          /\ Cmd'.at # 0 /\ Resources[Cmd'.at] = Cdn
      BY <1>2, <1>4, <2>3, <2>5, Looking
    <2>7. Knows' BY <2>1, <2>2, <2>3, <2>6, KnowsCdnNext
    <2> QED BY <2>4, <2>6, <2>7
  <1>8. CASE CreateForayDistribution(Me, FreshId(DOMAIN dists))
    <2> DEFINE id == FreshId(DOMAIN dists)
    <2>1. Cmd.step = "find" /\ oac /\ DOMAIN dists = {} /\ UNCHANGED oac
      BY <1>4, <1>8, CdnSeen DEF CreateForayDistribution
    <2>2. id \in Ids BY <2>1, DeployAssumption DEF FreshId
    <2>3. \/ NoSingleApi /\ UNCHANGED dists /\ Errs(Me, "refusal")
          \/ /\ ~NoSingleApi /\ CreateDistribution(id, ApiHost)
             /\ Becomes(Me, [run[Me] EXCEPT !.saw = id, !.fresh = TRUE, !.step = "policy"])
      BY <1>8 DEF CreateForayDistribution
    <2> HIDE DEF id
    <2>4. ASSUME ~NoSingleApi, CreateDistribution(id, ApiHost),
                 Becomes(Me, [run[Me] EXCEPT !.saw = id, !.fresh = TRUE, !.step = "policy"])
          PROVE  Moves(Cdn) /\ Spared(Cdn) /\ Knows' /\ CloudSound'
      <3>1. ApiHost \in DOMAIN apis /\ DOMAIN apis \subseteq Ids
        BY <1>1, <2>4, ApiFacts, TheOnly DEF ApiHost, NoSingleApi
      <3>2. DOMAIN dists' = {id} /\ dists'[id] = DistributionConfig(ApiHost)
        BY <2>1, <2>4 DEF CreateDistribution
      <3>3. DistributionConfig(ApiHost) \in DistributionValues
            /\ DistributionConfig(ApiHost).host = ApiHost
        BY <3>1 DEF DistributionConfig, DistributionValues
      <3>4. dists' \in [DOMAIN dists' -> DistributionValues]
        BY <2>1, <2>4, <3>2, <3>3 DEF CreateDistribution
      <3>5. Spared(Cdn) /\ CloudSound'
        BY <1>1, <1>3, <2>1, <2>2, <3>2, <3>4, CdnFacts, CdnTouchesNoBucket
      <3>6. id \in References /\ "policy" \in Steps BY <2>2 DEF References, Steps
      <3>7. [Cmd EXCEPT !.saw = id, !.fresh = TRUE, !.step = "policy"] \in Commands
        BY <1>1, <3>6, CmdType DEF Commands
      <3>8. /\ run' \in [Operators -> Commands]
            /\ Cmd' = [Cmd EXCEPT !.saw = id, !.fresh = TRUE, !.step = "policy"]
        BY <1>1, <2>4, <3>7, Becoming DEF Cmd
      <3>9. Stays /\ Cmd'.step = "policy" /\ Cmd'.saw = id
        BY <1>1, <3>8, CmdType DEF Stays, Commands
      <3>10. /\ Moves(Cdn) /\ Cmd'.verb = "apply" /\ Cmd'.at # 0 /\ Resources[Cmd'.at] = Cdn
        BY <1>1, <1>4, <3>9 DEF Moves, Stays
      <3>11. Knows' BY <2>1, <3>1, <3>2, <3>3, <3>9, <3>10, KnowsCdnNext
      <3> QED BY <3>5, <3>10, <3>11
    <2> QED BY <1>5, <2>1, <2>3, <2>4
  <1>9. CASE Converge(Me)
    <2>1. /\ Cmd.step = "converge" /\ oac /\ Cmd.saw \in DOMAIN dists /\ UNCHANGED oac
          /\ DOMAIN dists = {Cmd.saw}
      BY <1>4, <1>9, CdnSeen DEF Converge
    <2>2. \/ NoSingleApi /\ UNCHANGED dists /\ Errs(Me, "refusal")
          \/ /\ ~NoSingleApi /\ Goto(Me, "policy")
             /\ \/ UpdateDistribution(Cmd.saw, dists[Cmd.saw].enabled, ApiHost)
                \/ dists[Cmd.saw].host = ApiHost /\ UNCHANGED dists
      BY <1>9, <2>1 DEF Converge, Cmd, Differs
    <2>3. ASSUME ~NoSingleApi, Goto(Me, "policy"), dists'[Cmd.saw].host = ApiHost,
                 DOMAIN dists' = DOMAIN dists, Spared(Cdn) /\ CloudSound'
          PROVE  Moves(Cdn) /\ Spared(Cdn) /\ Knows' /\ CloudSound'
      <3>1. ApiHost \in DOMAIN apis BY <1>1, <2>3, ApiFacts, TheOnly DEF ApiHost, NoSingleApi
      <3>2. /\ Moves(Cdn) /\ Cmd'.step = "policy" /\ Cmd'.verb = "apply" /\ Cmd'.saw = Cmd.saw
            /\ Cmd'.at # 0 /\ Resources[Cmd'.at] = Cdn
        BY <1>2, <1>4, <2>3, Continuing
      <3>3. Knows' BY <2>1, <2>3, <3>1, <3>2, KnowsCdnNext
      <3> QED BY <2>3, <3>2, <3>3
    <2>4. CASE ~NoSingleApi /\ UpdateDistribution(Cmd.saw, dists[Cmd.saw].enabled, ApiHost)
               /\ Goto(Me, "policy")
      <3> DEFINE value == [enabled |-> dists[Cmd.saw].enabled, status |-> "InProgress",
                           host |-> ApiHost]
      <3>1. ApiHost \in Ids BY <1>1, <2>4, ApiFacts, TheOnly DEF ApiHost, NoSingleApi
      <3>2. value \in DistributionValues /\ value.host = ApiHost
        BY <1>1, <2>1, <3>1, CdnFacts DEF DistributionValues
      <3>3. dists' = [dists EXCEPT ![Cmd.saw] = value] BY <2>4 DEF UpdateDistribution
      <3> HIDE DEF value
      <3>4. Spared(Cdn) /\ CloudSound' /\ dists'[Cmd.saw] = value /\ DOMAIN dists' = DOMAIN dists
        BY <1>1, <1>3, <2>1, <3>2, <3>3, CdnUpdates
      <3> QED BY <2>3, <2>4, <3>2, <3>4
    <2>5. CASE ~NoSingleApi /\ dists[Cmd.saw].host = ApiHost /\ UNCHANGED dists
               /\ Goto(Me, "policy")
      <3>1. Spared(Cdn) /\ CloudSound' BY <1>1, <1>3, <2>1, <2>5, CdnFacts, CdnTouchesNoBucket
      <3> QED BY <2>3, <2>5, <3>1
    <2> QED BY <1>5, <2>1, <2>2, <2>4, <2>5
  <1> QED BY <1>6, <1>7, <1>8, <1>9

\* The buckets come to name it, and it is waited for.
LEMMA CdnWired ==
  ASSUME Alone, AtWork(Cdn),
         AllowOACRead(Me) \/ AllowCORSFrom(Me) \/ WaitDeployed(Me, "apply", Complete(Me)),
         UNCHANGED <<table, role, profile, function, logs, apis>>
  PROVE  Moves(Cdn) /\ Spared(Cdn) /\ Knows' /\ CloudSound'
  <1>1. /\ TypeOK /\ CloudSound /\ Knows /\ Cmd.at # 0 /\ Resources[Cmd.at] = Cdn
        /\ Cmd.saw \in References
    BY AtWorkMeans
  <1>2. {"cors", "wait"} \subseteq Steps \ {"layer"} BY DEF Steps
  <1>3. Cmd.verb = "apply" BY CdnSeen DEF AllowOACRead, AllowCORSFrom, WaitDeployed
  <1>4. /\ Cmd.step \in {"policy", "cors", "wait"} /\ oac /\ UNCHANGED oac
        /\ Cmd.saw \in DOMAIN dists /\ DOMAIN dists = {Cmd.saw}
        /\ dists[Cmd.saw].host \in DOMAIN apis
    BY <1>3, CdnSeen DEF AllowOACRead, AllowCORSFrom, WaitDeployed
  <1>5. ASSUME ~bucket["web"].there \/ ~bucket["data"].there, UNCHANGED <<dists, bucket>>,
               Errs(Me, "refusal")
        PROVE  Moves(Cdn) /\ Spared(Cdn) /\ Knows' /\ CloudSound'
    <2>1. ~Behind BY <1>1, <1>3, <1>5, CdnBehind
    <2>2. Spared(Cdn) /\ CloudSound' BY <1>1, <1>4, <1>5, CdnFacts, CdnTouchesNoBucket
    <2> QED BY <1>5, <2>1, <2>2, Refusing
  <1>6. ASSUME DOMAIN dists' = {Cmd.saw}, dists'[Cmd.saw].host \in DOMAIN apis,
               bucket'["web"].names = Cmd.saw, bucket'["data"].names = Cmd.saw
        PROVE  Whole(Cdn)'
    <2>1. Cmd.saw \in Ids BY <1>1, <1>4, CdnFacts
    <2> QED BY <1>4, <1>6, <2>1, OfTheServiceNext DEF CdnWhole
  <1>7. CASE AllowOACRead(Me)
    <2>1. UNCHANGED dists BY <1>7 DEF AllowOACRead
    <2>2. CASE PutBucketPolicy("web", Cmd.saw) /\ Goto(Me, "cors")
      <3>1. Spared(Cdn) /\ CloudSound' /\ bucket'["web"].names = Cmd.saw
        BY <1>1, <1>4, <2>1, <2>2, CdnFacts, CdnNames
      <3>2. /\ Moves(Cdn) /\ Cmd'.step = "cors" /\ Cmd'.verb = "apply" /\ Cmd'.saw = Cmd.saw
            /\ Cmd'.at # 0 /\ Resources[Cmd'.at] = Cdn
        BY <1>2, <1>3, <2>2, Continuing
      <3>3. Knows' BY <1>4, <2>1, <3>1, <3>2, KnowsCdnNext
      <3> QED BY <3>1, <3>2, <3>3
    <2>3. \/ PutBucketPolicy("web", Cmd.saw) /\ Goto(Me, "cors")
          \/ ~bucket["web"].there /\ UNCHANGED bucket /\ Errs(Me, "refusal")
      BY <1>7 DEF AllowOACRead, Cmd
    <2> QED BY <1>5, <2>1, <2>2, <2>3
  <1>8. CASE AllowCORSFrom(Me)
    <2>1. Cmd.step = "cors" /\ bucket["web"].names = Cmd.saw /\ UNCHANGED dists
      BY <1>3, <1>8, CdnSeen DEF AllowCORSFrom
    <2>2. ASSUME PutBucketPolicy("data", Cmd.saw), Goto(Me, "wait") \/ Complete(Me)
          PROVE  Moves(Cdn) /\ Spared(Cdn) /\ Knows' /\ CloudSound'
      <3>1. /\ Spared(Cdn) /\ CloudSound' /\ bucket'["data"].names = Cmd.saw
            /\ bucket'["web"].names = Cmd.saw
        BY <1>1, <1>4, <2>1, <2>2, CdnFacts, CdnNames
      <3>2. CASE Goto(Me, "wait")
        <4>1. /\ Moves(Cdn) /\ Cmd'.step = "wait" /\ Cmd'.verb = "apply" /\ Cmd'.saw = Cmd.saw
              /\ Cmd'.at # 0 /\ Resources[Cmd'.at] = Cdn
          BY <1>2, <1>3, <3>2, Continuing
        <4>2. Knows' BY <1>4, <2>1, <3>1, <4>1, KnowsCdnNext
        <4> QED BY <3>1, <4>1, <4>2
      <3>3. CASE Complete(Me)
        <4>1. Whole(Cdn)' BY <1>4, <1>6, <2>1, <3>1
        <4> QED BY <1>3, <3>1, <3>3, <4>1, Finishing
      <3> QED BY <2>2, <3>2, <3>3
    <2>3. \/ PutBucketPolicy("data", Cmd.saw) /\ (Goto(Me, "wait") \/ Complete(Me))
          \/ ~bucket["data"].there /\ UNCHANGED bucket /\ Errs(Me, "refusal")
      BY <1>8 DEF AllowCORSFrom, Cmd
    <2> QED BY <1>5, <2>1, <2>2, <2>3
  <1>9. CASE WaitDeployed(Me, "apply", Complete(Me))
    <2>1. /\ Cmd.step = "wait" /\ bucket["web"].names = Cmd.saw
          /\ bucket["data"].names = Cmd.saw /\ UNCHANGED bucket
      BY <1>3, <1>9, CdnSeen DEF WaitDeployed
    <2>2. CASE Propagated(Cmd.saw) /\ Complete(Me)
      <3> DEFINE value == [dists[Cmd.saw] EXCEPT !.status = "Deployed"]
      <3>1. dists' = [dists EXCEPT ![Cmd.saw] = value] BY <2>2 DEF Propagated
      <3>2. value \in DistributionValues /\ value.host = dists[Cmd.saw].host
        BY <1>1, <1>4, CdnFacts DEF DistributionValues
      <3> HIDE DEF value
      <3>3. Spared(Cdn) /\ CloudSound' /\ dists'[Cmd.saw] = value /\ DOMAIN dists' = DOMAIN dists
        BY <1>1, <1>4, <2>1, <3>1, <3>2, CdnUpdates
      <3>4. Whole(Cdn)' BY <1>4, <1>6, <2>1, <3>2, <3>3
      <3> QED BY <1>3, <2>2, <3>3, <3>4, Finishing
    <2>3. CASE UNCHANGED dists /\ Errs(Me, "mishap")
      <3>1. Spared(Cdn) /\ CloudSound' BY <1>1, <1>4, <2>1, <2>3, CdnFacts, CdnTouchesNoBucket
      <3> QED BY <2>3, <3>1, Misfiring
    <2> QED BY <1>9, <2>2, <2>3 DEF WaitDeployed, Cmd
  <1> QED BY <1>7, <1>8, <1>9

\* It is disabled, waited for and deleted.
LEMMA CdnRemoved ==
  ASSUME Alone, AtWork(Cdn),
         \/ DisableDistribution(Me) \/ WaitDeployed(Me, "teardown", Goto(Me, "delete"))
         \/ RemoveDistribution(Me) \/ RemoveOAC(Me),
         UNCHANGED <<table, role, profile, function, logs, apis>>
  PROVE  Moves(Cdn) /\ Spared(Cdn) /\ Knows' /\ CloudSound'
  <1>1. /\ TypeOK /\ CloudSound /\ Knows /\ Cmd.at # 0 /\ Resources[Cmd.at] = Cdn
        /\ Cmd.saw \in References
    BY AtWorkMeans
  <1>2. {"wait", "delete", "oac"} \subseteq Steps \ {"layer"} BY DEF Steps
  <1>3. Cmd.verb = "teardown"
    BY CdnSeen DEF DisableDistribution, WaitDeployed, RemoveDistribution, RemoveOAC
  <1>4. ASSUME Goto(Me, "oac"), DOMAIN dists' = {} PROVE Moves(Cdn) /\ Knows'
    <2>1. /\ Moves(Cdn) /\ Cmd'.step = "oac" /\ Cmd'.verb = "teardown"
          /\ Cmd'.at # 0 /\ Resources[Cmd'.at] = Cdn
      BY <1>2, <1>3, <1>4, Continuing
    <2> QED BY <1>4, <2>1, KnowsCdnNext
  <1>5. CASE DisableDistribution(Me)
    <2>1. UNCHANGED <<oac, bucket>> BY <1>5 DEF DisableDistribution
    <2>2. CASE DOMAIN dists = {}
      <3>1. UNCHANGED dists /\ Goto(Me, "oac") BY <1>5, <2>2, TheOnly DEF DisableDistribution
      <3>2. Spared(Cdn) /\ CloudSound' BY <1>1, <2>1, <3>1, CdnFacts, CdnTouchesNoBucket
      <3> QED BY <1>4, <2>2, <3>1, <3>2
    <2>3. CASE \E id \in Ids : DOMAIN dists = {id}
      <3>1. PICK id \in Ids : DOMAIN dists = {id} BY <2>3
      <3>2. /\ Found(Me, id, "wait")
            /\ \/ UpdateDistribution(id, FALSE, dists[id].host)
               \/ ~dists[id].enabled /\ UNCHANGED dists
        BY <1>5, <3>1, TheOnly DEF DisableDistribution
      <3>3. /\ Spared(Cdn) /\ CloudSound' /\ DOMAIN dists' = DOMAIN dists
            /\ ~dists'[id].enabled
        <4>1. CASE UpdateDistribution(id, FALSE, dists[id].host)
          <5> DEFINE value == [enabled |-> FALSE, status |-> "InProgress", host |-> dists[id].host]
          <5>1. dists' = [dists EXCEPT ![id] = value] BY <4>1 DEF UpdateDistribution
          <5>2. value \in DistributionValues /\ ~value.enabled
            BY <1>1, <3>1, CdnFacts DEF DistributionValues
          <5> HIDE DEF value
          <5>3. Spared(Cdn) /\ CloudSound' /\ dists'[id] = value /\ DOMAIN dists' = DOMAIN dists
            BY <1>1, <2>1, <3>1, <5>1, <5>2, CdnUpdates
          <5> QED BY <5>2, <5>3
        <4>2. CASE ~dists[id].enabled /\ UNCHANGED dists
          BY <1>1, <2>1, <4>2, CdnFacts, CdnTouchesNoBucket
        <4> QED BY <3>2, <4>1, <4>2
      <3>4. id \in References BY DEF References
      <3>5. /\ Moves(Cdn) /\ Cmd'.step = "wait" /\ Cmd'.verb = "teardown" /\ Cmd'.saw = id
            /\ Cmd'.at # 0 /\ Resources[Cmd'.at] = Cdn
        BY <1>2, <1>3, <3>2, <3>4, Looking
      <3>6. Knows' BY <3>1, <3>3, <3>5, KnowsCdnNext
      <3> QED BY <3>3, <3>5, <3>6
    <2> QED BY <1>1, <2>2, <2>3, CdnFacts
  <1>6. CASE WaitDeployed(Me, "teardown", Goto(Me, "delete"))
    <2>1. /\ Cmd.step = "wait" /\ Cmd.saw \in DOMAIN dists /\ ~dists[Cmd.saw].enabled
          /\ UNCHANGED <<oac, bucket>>
      BY <1>3, <1>6, CdnSeen DEF WaitDeployed
    <2>2. CASE Propagated(Cmd.saw) /\ Goto(Me, "delete")
      <3> DEFINE value == [dists[Cmd.saw] EXCEPT !.status = "Deployed"]
      <3>1. dists' = [dists EXCEPT ![Cmd.saw] = value] BY <2>2 DEF Propagated
      <3>2. value \in DistributionValues /\ value.enabled = dists[Cmd.saw].enabled
        BY <1>1, <2>1, CdnFacts DEF DistributionValues
      <3> HIDE DEF value
      <3>3. Spared(Cdn) /\ CloudSound' /\ dists'[Cmd.saw] = value /\ DOMAIN dists' = DOMAIN dists
        BY <1>1, <2>1, <3>1, <3>2, CdnUpdates
      <3>4. /\ Moves(Cdn) /\ Cmd'.step = "delete" /\ Cmd'.verb = "teardown"
            /\ Cmd'.saw = Cmd.saw /\ Cmd'.at # 0 /\ Resources[Cmd'.at] = Cdn
        BY <1>2, <1>3, <2>2, Continuing
      <3>5. Knows' BY <2>1, <3>2, <3>3, <3>4, KnowsCdnNext
      <3> QED BY <3>3, <3>4, <3>5
    <2>3. CASE UNCHANGED dists /\ Errs(Me, "mishap")
      <3>1. Spared(Cdn) /\ CloudSound' BY <1>1, <2>1, <2>3, CdnFacts, CdnTouchesNoBucket
      <3> QED BY <2>3, <3>1, Misfiring
    <2> QED BY <1>6, <2>2, <2>3 DEF WaitDeployed, Cmd
  <1>7. CASE RemoveDistribution(Me)
    <2>1. /\ Cmd.step = "delete" /\ Cmd.saw \in DOMAIN dists /\ ~dists[Cmd.saw].enabled
          /\ UNCHANGED oac /\ DOMAIN dists = {Cmd.saw}
      BY <1>3, <1>7, CdnSeen DEF RemoveDistribution
    <2>2. DeleteDistribution(Cmd.saw) /\ Goto(Me, "oac")
      BY <1>7, <2>1 DEF RemoveDistribution, CanDeleteDistribution, Cmd
    <2>3. DOMAIN dists' = {} BY <2>1, <2>2 DEF DeleteDistribution, Restrict
    <2>4. dists' \in [DOMAIN dists' -> DistributionValues]
      BY <2>2, <2>3 DEF DeleteDistribution, Restrict
    <2>5. \A b \in BucketNames :
             /\ bucket'[b] \in BucketValues
             /\ bucket'[b].there = bucket[b].there /\ bucket'[b].posture = bucket[b].posture
             /\ bucket'[b].objects = bucket[b].objects
      <3> TAKE b \in BucketNames
      <3>1. bucket'[b] = [bucket[b] EXCEPT !.names = IF @ = Cmd.saw THEN Gone ELSE @]
        BY <2>2 DEF DeleteDistribution
      <3>2. bucket[b] \in BucketValues /\ Gone \in References BY <1>1, CdnFacts DEF References
      <3> QED BY <3>1, <3>2 DEF BucketValues
    <2>6. bucket' \in [BucketNames -> BucketValues] BY <2>2, <2>5 DEF DeleteDistribution
    <2>7. Spared(Cdn) /\ CloudSound' BY <1>1, <2>1, <2>3, <2>4, <2>5, <2>6, CdnFacts, CdnTouches
    <2> QED BY <1>4, <2>2, <2>3, <2>7
  <1>8. CASE RemoveOAC(Me)
    <2>1. /\ Cmd.step = "oac" /\ DOMAIN dists = {} /\ oac' = FALSE /\ UNCHANGED <<dists, bucket>>
          /\ Complete(Me)
      BY <1>3, <1>8, CdnSeen DEF RemoveOAC
    <2>2. Spared(Cdn) /\ CloudSound' BY <1>1, <2>1, CdnFacts, CdnTouchesNoBucket
    <2>3. Absent(Cdn)' BY <2>1, OfTheServiceNext DEF CdnAbsent
    <2> QED BY <1>3, <2>1, <2>2, <2>3, Finishing
  <1> QED BY <1>5, <1>6, <1>7, <1>8

\* A step of the walk, wherever it is.
LEMMA Walked ==
  ASSUME Alone, StackInv, WalkStep(Me)
  PROVE  /\ Cmd.at # 0 /\ StackInv'
         /\ \A here : here = Resources[Cmd.at] => AtWork(here) /\ Moves(here) /\ Spared(here)
  <1>1. ASSUME NEW here, Cmd.at # 0, Resources[Cmd.at] = here,
               Moves(here) /\ Spared(here) /\ Knows' /\ CloudSound'
        PROVE  Cmd.at # 0 /\ StackInv'
               /\ \A r : r = Resources[Cmd.at] => AtWork(r) /\ Moves(r) /\ Spared(r)
    <2>1. AtWork(here) BY <1>1 DEF AtWork
    <2>2. UNCHANGED probeVars BY DEF WalkStep
    <2>3. StackInv' BY <1>1, <2>1, <2>2, StillSound
    <2> QED BY <1>1, <2>1, <2>3
  <1>2. ASSUME NEW verb, NEW here, NEW step, Doing(Me, verb, here, step) PROVE AtWork(here)
    BY <1>2, DoingIs DEF AtWork
  <1>3. CASE TableStep(Me) /\ UNCHANGED <<bucket, role, profile, function, logs, apis, dists, oac>>
    <2>1. AtWork(Sessions) BY <1>2, <1>3 DEF TableStep, EnsureTable, WaitActive, EnsureTTL, RemoveTable
    <2> QED BY <1>1, <1>3, <2>1, TableWork DEF AtWork
  <1>4. CASE BucketStep(Me) /\ UNCHANGED <<table, role, profile, function, logs, apis, dists, oac>>
    <2>1. ASSUME NEW b \in BucketNames, EnsureBucket(Me, b) \/ EmptyBucket(Me, b) \/ RemoveBucket(Me, b)
          PROVE  AtWork(Bucket(b))
      BY <1>2, <2>1 DEF EnsureBucket, EmptyBucket, RemoveBucket
    <2>2. ASSUME NothingToUpload(Me) \/ Upload(Me) \/ RemoveStale(Me) \/ RemoveSync(Me)
          PROVE  AtWork(WebSync)
      BY <1>2, <2>2 DEF NothingToUpload, Upload, RemoveStale, RemoveSync
    <2> QED BY <1>1, <1>4, <2>1, <2>2, BucketWork, SyncWork DEF BucketStep, AtWork
  <1>5. CASE IamStep(Me) /\ UNCHANGED <<table, bucket, function, logs, apis, dists, oac>>
    <2>1. ASSUME NEW n \in RoleNames, EnsureRole(Me, n) \/ RemoveRole(Me, n) PROVE AtWork(Role(n))
      BY <1>2, <2>1 DEF EnsureRole, RemoveRole
    <2>2. ASSUME EnsureProfile(Me) \/ RemoveProfile(Me) PROVE AtWork(Profile)
      BY <1>2, <2>2 DEF EnsureProfile, RemoveProfile
    <2> QED BY <1>1, <1>5, <2>1, <2>2, RoleWork, ProfileWork DEF IamStep, AtWork
  <1>6. CASE LogStep(Me) /\ UNCHANGED <<table, bucket, role, profile, function, apis, dists, oac>>
    <2>1. PICK g \in GroupNames : EnsureLogs(Me, g) \/ RemoveLogs(Me, g) BY <1>6 DEF LogStep
    <2>2. AtWork(Logs(g)) BY <1>2, <2>1 DEF EnsureLogs, RemoveLogs
    <2> QED BY <1>1, <1>6, <2>1, <2>2, LogWork DEF AtWork
  <1>7. CASE FunctionStep(Me) /\ UNCHANGED <<table, bucket, role, profile, logs, apis, dists, oac>>
    <2>1. PICK f \in FunctionNames :
             EnsureFunction(Me, f) \/ CreateFunction(Me, f) \/ RemoveFunction(Me, f)
      BY <1>7 DEF FunctionStep
    <2>2. AtWork(Function(f)) BY <1>2, <2>1 DEF EnsureFunction, CreateFunction, RemoveFunction
    <2> QED BY <1>1, <1>7, <2>1, <2>2, FunctionWork DEF AtWork
  <1>8. CASE /\ ApiStep(Me, FreshId(DOMAIN apis)) /\ dists' = OriginsLeft(DOMAIN apis')
             /\ UNCHANGED <<table, bucket, role, profile, logs, oac>>
    <2>1. AtWork(HttpApi)
      <3>1. \A f \in FunctionNames : EnsureInvokePermission(Me, f) => AtWork(HttpApi)
        BY <1>2 DEF EnsureInvokePermission
      <3> QED BY <1>2, <1>8, <3>1 DEF ApiStep, FindApi, CreateForayApi, BuildApi, RemoveApi
    <2> QED BY <1>1, <1>8, <2>1, ApiLooks, ApiBuilds, ApiPermits, ApiRemoved DEF ApiStep, AtWork
  <1>9. CASE /\ CdnStep(Me, FreshId(DOMAIN dists))
             /\ UNCHANGED <<table, role, profile, function, logs, apis>>
    <2>1. AtWork(Cdn)
      BY <1>2, <1>9 DEF CdnStep, EnsureOAC, FindDistribution, CreateForayDistribution, Converge,
         AllowOACRead, AllowCORSFrom, WaitDeployed, DisableDistribution, RemoveDistribution, RemoveOAC
    <2> QED BY <1>1, <1>9, <2>1, CdnEnsured, CdnWired, CdnRemoved DEF CdnStep, AtWork
  <1> QED BY <1>3, <1>4, <1>5, <1>6, <1>7, <1>8, <1>9 DEF WalkStep

-----------------------------------------------------------------------------
(* The steps that are no resource's. *)

\* Where the services stay, they stay sound.
LEMMA StillTheCloud == ASSUME CloudSound, UNCHANGED cloud PROVE CloudSound'
  BY DEF CloudSound, CloudTypeOK, OneOfEach, Granted, Kept, Policies, cloud

LEMMA StackParts ==
  StackInv <=> /\ run \in [Operators -> Commands]
               /\ phase \in {"idle", "first", "doubling", "halving", "resolved", "refused"}
               /\ CloudSound /\ Somewhere /\ Knows
  BY DEF StackInv, TypeOK, CloudSound

LEMMA StackPartsNext ==
  StackInv' <=> /\ run' \in [Operators -> Commands]
                /\ phase' \in {"idle", "first", "doubling", "halving", "resolved", "refused"}
                /\ CloudSound' /\ Somewhere' /\ Knows'
  BY DEF StackInv, TypeOK, CloudSound

\* A command at rest or at the layer knows nothing of the services.
LEMMA KnowsNothingAtRest == ASSUME Cmd'.at = 0 PROVE Knows'
  <1>1. \A verb, r, step : ~ Doing(Me, verb, r, step)' BY DoingIs
  <1> QED BY <1>1 DEF Knows, KnowsBucket, KnowsRole, KnowsProfile, KnowsFunction, KnowsApi, KnowsCdn

\* A command at rest.
LEMMA Resting == AtRest \in Commands /\ AtRest.verb = "idle" /\ AtRest.at = 0
                 /\ AtRest.outcome = "none" /\ AtRest.met = "nothing"
  <1>1. 0 \in 0 .. Len(Resources) BY TheWalk
  <1>2. None \in References /\ "none" \in Outcomes /\ "" \in Steps
    BY DEF References, Outcomes, Steps
  <1>3. AtRest \in Commands BY <1>1, <1>2 DEF AtRest, Commands
  <1> QED BY <1>3 DEF AtRest

LEMMA Layered ==
  ASSUME Alone, StackInv, Running(Me), Cmd.step = "layer"
  PROVE  Cmd.at = 0 /\ Cmd.verb \in {"apply", "teardown"} /\ Cmd.met = "nothing"
         /\ Cmd.outcome = "none" /\ Cmd \in Commands /\ TypeOK
  <1>1. TypeOK /\ Somewhere /\ Cmd.verb # "idle" BY DEF StackInv, Running, Cmd
  <1> QED BY <1>1, CmdType DEF Somewhere

LEMMA Started ==
  ASSUME Alone, StackInv, Start(Me)
  PROVE  /\ StackInv' /\ UNCHANGED cloud
         /\ Cmd.verb = "idle" /\ Cmd.at = 0 /\ Cmd'.at = 0 /\ Cmd'.verb # "idle"
         /\ Cmd'.outcome = "none" /\ Cmd'.met = "nothing"
  <1>1. PICK verb \in {"apply", "teardown"} : Begin(Me, verb) BY DEF Start
  <1> DEFINE c == [AtRest EXCEPT !.verb = verb, !.step = "layer"]
  <1>2. "layer" \in Steps BY DEF Steps
  <1>3. /\ c \in Commands /\ c.verb = verb /\ c.step = "layer" /\ c.at = 0 /\ c.met = "nothing"
        /\ c.outcome = "none"
    BY <1>2, Resting DEF Commands
  <1>4. Becomes(Me, c) /\ Cmd.verb = "idle" BY <1>1 DEF Begin, Running, Cmd
  <1> HIDE DEF c
  <1>5. run' \in [Operators -> Commands] /\ Cmd' = c BY <1>3, <1>4, Becoming DEF StackInv
  <1>6. UNCHANGED cloud /\ phase' = phase BY DEF Start, probeVars
  <1>7. Somewhere' BY <1>3, <1>5 DEF Somewhere
  <1>8. Knows' BY <1>3, <1>5, KnowsNothingAtRest
  <1>9. StackInv' BY <1>5, <1>6, <1>7, <1>8, StackParts, StackPartsNext, StillTheCloud
  <1>10. Cmd.at = 0 BY <1>4 DEF StackInv, Somewhere
  <1> QED BY <1>3, <1>4, <1>5, <1>6, <1>9, <1>10

Phases == {"idle", "first", "doubling", "halving", "resolved", "refused"}

LEMMA Resolving ==
  ASSUME Alone, StackInv, ResolveLayer(Me)
  PROVE  /\ StackInv' /\ UNCHANGED cloud
         /\ Cmd.at = 0 /\ Cmd.verb \in {"apply", "teardown"} /\ Cmd.outcome = "none"
         /\ \/ Cmd' = Cmd
            \/ /\ Cmd'.verb = Cmd.verb /\ Cmd'.met = "nothing" /\ Cmd'.outcome = "none"
               /\ Cmd'.at = IF Cmd.verb = "apply" THEN 1 ELSE Len(Resources)
            \/ Cmd'.verb = "idle" /\ Cmd'.at = 0 /\ Cmd'.outcome = "no layer" /\ Cmd'.met = "nothing"
  <1>1. /\ Cmd.at = 0 /\ Cmd.verb \in {"apply", "teardown"} /\ Cmd.met = "nothing"
        /\ Cmd.outcome = "none" /\ Cmd \in Commands /\ TypeOK /\ UNCHANGED cloud
    BY Layered DEF ResolveLayer, AtLayer, Cmd
  <1>2. ASSUME run' \in [Operators -> Commands], phase' \in Phases, Cmd'.at = 0, Somewhere'
        PROVE  StackInv'
    BY <1>1, <1>2, KnowsNothingAtRest, StillTheCloud, StackParts, StackPartsNext DEF Phases
  <1>3. ASSUME Walk(Me), phase' \in Phases
        PROVE  /\ StackInv' /\ Cmd'.verb = Cmd.verb /\ Cmd'.met = "nothing" /\ Cmd'.outcome = "none"
               /\ Cmd'.at = IF Cmd.verb = "apply" THEN 1 ELSE Len(Resources)
    <2> DEFINE i == IF Cmd.verb = "apply" THEN 1 ELSE Len(Resources)
    <2>1. i \in 0 .. Len(Resources) /\ i # 0 BY TheWalk
    <2>2. Becomes(Me, Arrive(Cmd, i)) BY <1>3 DEF Walk, Cmd
    <2> HIDE DEF i
    <2>3. /\ Arrive(Cmd, i) \in Commands /\ Arrive(Cmd, i).at = i
          /\ Arrive(Cmd, i).step = "start" /\ Arrive(Cmd, i).verb = Cmd.verb
          /\ Arrive(Cmd, i).met = Cmd.met /\ Arrive(Cmd, i).outcome = Cmd.outcome
      BY <1>1, <2>1, Arriving
    <2>4. run' \in [Operators -> Commands] /\ Cmd' = Arrive(Cmd, i) BY <1>1, <2>2, <2>3, Becoming
    <2>5. Leaves BY <1>1, <2>1, <2>3, <2>4 DEF Leaves
    <2>6. Somewhere' BY <1>1, <2>1, <2>3, <2>4 DEF Somewhere
    <2>7. StackInv'
      BY <1>1, <1>3, <2>4, <2>5, <2>6, KnowsNothingYet, StillTheCloud, StackParts, StackPartsNext
      DEF Phases
    <2> QED BY <1>1, <2>3, <2>4, <2>7 DEF i
  <1>4. CASE UNCHANGED probeVars /\ Walk(Me)
    <2>1. phase' \in Phases BY <1>1, <1>4 DEF probeVars, TypeOK, Phases
    <2> QED BY <1>1, <1>3, <1>4, <2>1
  <1>5. CASE (StartProbe \/ Probe) /\ UNCHANGED run
    <2>1. phase' \in Phases
      BY <1>1, <1>5 DEF StartProbe, Probe, ProbeFirst, ProbeUp, Halve, Settle, TypeOK, Phases
    <2>2. Cmd' = Cmd /\ run' \in [Operators -> Commands] BY <1>1, <1>5 DEF Cmd, TypeOK
    <2>3. Somewhere' BY <2>2 DEF StackInv, Somewhere
    <2> QED BY <1>1, <1>2, <2>1, <2>2, <2>3
  <1>6. CASE Forget /\ Walk(Me)
    <2>1. phase' \in Phases BY <1>6 DEF Forget, Phases
    <2> QED BY <1>1, <1>3, <1>6, <2>1
  <1>7. CASE Forget /\ Becomes(Me, Ended(Cmd, "no layer"))
    <2>1. phase' \in Phases BY <1>7 DEF Forget, Phases
    <2>2. "no layer" \in Outcomes BY DEF Outcomes
    <2>3. /\ Ended(Cmd, "no layer") \in Commands /\ Ended(Cmd, "no layer").at = 0
          /\ Ended(Cmd, "no layer").verb = "idle" /\ Ended(Cmd, "no layer").met = Cmd.met
          /\ Ended(Cmd, "no layer").outcome = "no layer"
      BY <1>1, <2>2, Ending
    <2>4. run' \in [Operators -> Commands] /\ Cmd' = Ended(Cmd, "no layer")
      BY <1>1, <1>7, <2>3, Becoming
    <2>5. Somewhere' BY <2>3, <2>4 DEF Somewhere
    <2>6. StackInv' BY <1>2, <2>1, <2>3, <2>4, <2>5
    <2> QED BY <1>1, <2>3, <2>4, <2>6
  <1> QED BY <1>4, <1>5, <1>6, <1>7 DEF ResolveLayer, Cmd

\* It ends without a word of its own: killed, or without credentials.
LEMMA Stopped ==
  ASSUME Alone, StackInv, Dies(Me) \/ LayerFails(Me)
  PROVE  /\ StackInv' /\ UNCHANGED cloud /\ Cmd.verb # "idle" /\ Cmd.outcome = "none"
         /\ Cmd'.verb = "idle" /\ Cmd'.at = 0
         /\ \/ Cmd'.outcome = "none" /\ Cmd'.met = "nothing"
            \/ Cmd'.outcome = "no layer" /\ Cmd'.met = "mishap" /\ Cmd.at = 0
  <1>1. /\ TypeOK /\ Somewhere /\ Cmd.verb # "idle" /\ Cmd \in Commands /\ UNCHANGED cloud
        /\ Cmd.outcome = "none"
    BY CmdType DEF StackInv, Somewhere, Dies, Killed, LayerFails, AtLayer, Running, Cmd
  <1>2. phase' \in Phases
    BY <1>1 DEF Dies, LayerFails, Forget, probeVars, TypeOK, Phases
  <1>3. ASSUME NEW c \in Commands, Becomes(Me, c), c.verb = "idle", c.at = 0
        PROVE  StackInv' /\ Cmd' = c
    <2>1. run' \in [Operators -> Commands] /\ Cmd' = c BY <1>1, <1>3, Becoming
    <2>2. Somewhere' BY <1>3, <2>1 DEF Somewhere
    <2> QED
      BY <1>1, <1>2, <1>3, <2>1, <2>2, KnowsNothingAtRest, StillTheCloud, StackParts, StackPartsNext
      DEF Phases
  <1>4. CASE Dies(Me)
    <2>1. Becomes(Me, AtRest) BY <1>4 DEF Dies, Killed
    <2>2. StackInv' /\ Cmd' = AtRest BY <1>3, <2>1, Resting
    <2> QED BY <1>1, <2>2, Resting
  <1>5. CASE LayerFails(Me)
    <2> DEFINE c == [Ended(Cmd, "no layer") EXCEPT !.met = "mishap"]
    <2>1. Becomes(Me, c) /\ Cmd.step = "layer" /\ Running(Me) BY <1>5 DEF LayerFails, AtLayer, Cmd
    <2>2. "no layer" \in Outcomes BY DEF Outcomes
    <2>3. /\ Ended(Cmd, "no layer") \in Commands /\ Ended(Cmd, "no layer").at = 0
          /\ Ended(Cmd, "no layer").verb = "idle" /\ Ended(Cmd, "no layer").outcome = "no layer"
      BY <1>1, <2>2, Ending
    <2>4. c \in Commands /\ c.at = 0 /\ c.verb = "idle" /\ c.outcome = "no layer" /\ c.met = "mishap"
      BY <2>3 DEF Commands
    <2> HIDE DEF c
    <2>5. StackInv' /\ Cmd' = c BY <1>3, <2>1, <2>4
    <2>6. Cmd.at = 0 BY <2>1, Layered
    <2> QED BY <1>1, <2>4, <2>5, <2>6
  <1> QED BY <1>4, <1>5

\* A call fails at a resource, and does nothing.
LEMMA Broken ==
  ASSUME Alone, StackInv, Breaks(Me)
  PROVE  /\ Cmd.at # 0 /\ StackInv'
         /\ \A here : here = Resources[Cmd.at] => AtWork(here) /\ Moves(here) /\ Spared(here)
  <1>1. Cmd.at # 0 /\ Errs(Me, "mishap") /\ UNCHANGED cloud /\ UNCHANGED probeVars
    BY DEF Breaks, CallFails, Cmd
  <1>2. PICK here : here = Resources[Cmd.at] OBVIOUS
  <1>3. AtWork(here) BY <1>1, <1>2 DEF AtWork
  <1>4. Moves(here) /\ Knows' BY <1>1, <1>3, Misfiring
  <1>5. CloudSound' BY <1>1, <1>3, AtWorkMeans, StillTheCloud
  <1>6. StackInv' BY <1>1, <1>3, <1>4, <1>5, StillSound
  <1>7. Spared(here)
    <2>1. UNCHANGED <<table, bucket, role, profile, function, logs, apis, dists, oac>>
      BY <1>1 DEF cloud
    <2> QED BY <2>1, EveryKind, Unmoved, Zenon DEF Spared
  <1> QED BY <1>1, <1>2, <1>3, <1>4, <1>6, <1>7

\* Something else is built: what is deployed is no longer what would be.
LEMMA Rebuilt ==
  ASSUME Alone, StackInv, Rebuild
  PROVE  /\ StackInv' /\ Cmd.verb = "idle" /\ Cmd.at = 0
         /\ Cmd' = AtRest
         /\ \A r \in Range(AllResources) :
               Same(r) \/ (~Absent(r) /\ ~Absent(r)' /\ ~Whole(r)')
  <1>1. /\ CloudSound /\ CloudTypeOK /\ Kept /\ OneOfEach /\ Granted
        /\ UNCHANGED <<table, role, profile, logs, apis, dists, oac, probeVars>>
    BY StackParts DEF Rebuild, CloudSound
  <1>2. run' = [o \in Operators |-> AtRest] /\ Me \in Operators /\ ~Running(Me)
    BY OneTerminal DEF Rebuild
  <1>3. Cmd' = AtRest /\ run' \in [Operators -> Commands] BY <1>2, Resting DEF Cmd
  <1>4. Cmd.verb = "idle" /\ Cmd.at = 0 BY <1>2 DEF Running, Cmd, StackInv, Somewhere
  <1>5. \A f \in FunctionNames :
           /\ function'[f] \in FunctionValues /\ function'[f].allows = function[f].allows
           /\ function'[f].there = function[f].there
           /\ function[f].there => function'[f].code = "old"
           /\ ~function[f].there => function'[f] = function[f]
    <2> TAKE f \in FunctionNames
    <2>1. function'[f] = IF function[f].there
                           THEN [function[f] EXCEPT !.code = "old", !.config = "old"]
                           ELSE function[f]
      BY DEF Rebuild
    <2> QED BY <1>1, <2>1, ApiFacts DEF FunctionValues
  <1>6. function' \in [FunctionNames -> FunctionValues] BY <1>5 DEF Rebuild
  <1> DEFINE page == IF bucket["web"].objects = {} THEN {} ELSE {"old page"}
             value == [bucket["web"] EXCEPT !.objects = page]
  <1>7. bucket' = [bucket EXCEPT !["web"] = value]
    BY DEF Rebuild
  <1>8. /\ value \in BucketValues /\ value.objects = page /\ value.names = bucket["web"].names
        /\ value.there = bucket["web"].there /\ value.posture = bucket["web"].posture
    BY <1>1, CdnFacts DEF BucketValues
  <1>9. bucket["web"].objects = {} <=> page = {} OBVIOUS
  <1>10. page \subseteq {"old page"} OBVIOUS
  <1> HIDE DEF page, value
  <1>11. /\ bucket' \in [BucketNames -> BucketValues] /\ bucket'["web"] = value
         /\ \A b \in BucketNames : b # "web" => bucket'[b] = bucket[b]
    BY <1>1, <1>7, <1>8, CdnFacts
  <1>12. \A b \in BucketNames :
            bucket'[b].there = bucket[b].there /\ bucket'[b].posture = bucket[b].posture
              /\ bucket'[b].names = bucket[b].names
    BY <1>8, <1>11
  <1>13. ~bucket["web"].there => bucket["web"].objects = {} BY <1>1, CdnFacts DEF Kept
  <1>14. CloudSound'
    <2>1. CloudTypeOK' BY <1>1, <1>6, <1>11 DEF CloudTypeOK, FunctionValues, BucketValues
    <2>2. \A b \in BucketNames : ~bucket'[b].there => bucket'[b].objects = {}
      BY <1>1, <1>8, <1>9, <1>11, <1>13 DEF Kept
    <2>3. bucket'["web"].objects \subseteq {"page", "old page"} BY <1>8, <1>10, <1>11
    <2>4. Kept' BY <1>1, <1>5, <2>2, <2>3 DEF Kept, Policies
    <2>5. Granted' /\ OneOfEach' BY <1>1, <1>5 DEF Granted, OneOfEach
    <2> QED BY <2>1, <2>4, <2>5 DEF CloudSound
  <1>15. Somewhere' /\ Knows' BY <1>3, Resting, KnowsNothingAtRest DEF Somewhere
  <1>16. phase' \in Phases BY <1>1, StackParts DEF Phases, probeVars
  <1>17. StackInv' BY <1>3, <1>14, <1>15, <1>16, StackPartsNext DEF Phases
  <1>18. ASSUME NEW r \in Range(AllResources)
         PROVE  Same(r) \/ (~Absent(r) /\ ~Absent(r)' /\ ~Whole(r)')
    <2>1. ASSUME NEW f \in FunctionNames, r = Function(f)
          PROVE  Same(r) \/ (~Absent(r) /\ ~Absent(r)' /\ ~Whole(r)')
      <3>1. CASE function[f].there
        <4>1. ~FunctionAbsent(f) /\ ~FunctionAbsent(f)' /\ ~FunctionWhole(f)'
          BY <1>5, <3>1 DEF FunctionAbsent, FunctionWhole
        <4> QED BY <2>1, <4>1, OfTheService, OfTheServiceNext
      <3>2. CASE ~function[f].there BY <1>5, <2>1, <3>2, Unmoved
      <3> QED BY <3>1, <3>2
    <2>2. CASE r = WebSync
      <3>1. CASE bucket["web"].objects = {}
        <4>1. bucket'["web"].objects = {} BY <1>8, <1>9, <1>11, <3>1
        <4> QED BY <2>2, <3>1, <4>1, Unmoved
      <3>2. CASE bucket["web"].objects # {}
        <4>1. bucket'["web"].objects # {} /\ "page" \notin bucket'["web"].objects
          BY <1>8, <1>9, <1>10, <1>11, <3>2
        <4>2. ~PageAbsent /\ ~PageAbsent' /\ ~PageWhole'
          BY <3>2, <4>1 DEF PageAbsent, PageWhole
        <4> QED BY <2>2, <4>2, OfTheService, OfTheServiceNext
      <3> QED BY <3>1, <3>2
    <2>3. CASE \E b \in BucketNames : r = Bucket(b) BY <1>12, <2>3, Unmoved
    <2>4. CASE r = HttpApi BY <1>1, <1>5, <2>4, Unmoved
    <2>5. CASE r = Cdn BY <1>1, <1>12, <2>5, Unmoved
    <2>6. Same(Sessions) /\ Same(Profile) /\ (\A n \in RoleNames : Same(Role(n)))
          /\ (\A g \in GroupNames : Same(Logs(g)))
      BY <1>1, Unmoved
    <2> QED BY <2>1, <2>2, <2>3, <2>4, <2>5, <2>6, EveryKind, Zenon
  <1> QED BY <1>3, <1>4, <1>17, <1>18

\* A worker saves.
LEMMA Saved ==
  ASSUME Alone, StackInv, WorkerSaves(Me),
         UNCHANGED <<table, role, profile, function, logs, apis, dists, oac, probeVars>>
  PROVE  StackInv' /\ Cmd' = Cmd /\ \A r \in Range(AllResources) : Same(r)
  <1>1. /\ CloudSound /\ TypeOK /\ Somewhere /\ Knows /\ bucket["data"].there /\ UNCHANGED run
        /\ phase \in Phases
    BY StackParts DEF StackInv, WorkerSaves, Phases
  <1> DEFINE value == [bucket["data"] EXCEPT !.objects = @ \cup {"saves"}]
  <1>2. Put("data", value) BY DEF WorkerSaves, PutObject
  <1>3. /\ value \in BucketValues /\ value.there /\ value.names = bucket["data"].names
        /\ value.objects = bucket["data"].objects \cup {"saves"}
        /\ value.there = bucket["data"].there /\ value.posture = bucket["data"].posture
    BY <1>1, CdnFacts DEF BucketValues
  <1> HIDE DEF value
  <1>4. /\ CloudSound' /\ bucket'["data"] = value
        /\ \A c \in BucketNames : c # "data" => bucket'[c] = bucket[c]
    BY <1>1, <1>2, <1>3, CdnFacts, Putting
  <1>5. \A b \in BucketNames :
           bucket'[b].there = bucket[b].there /\ bucket'[b].posture = bucket[b].posture
             /\ bucket'[b].names = bucket[b].names
    BY <1>3, <1>4
  <1>6. bucket'["web"] = bucket["web"] BY <1>1, <1>4, CdnFacts
  <1>7. \A r \in Range(AllResources) : Same(r) BY <1>5, <1>6, EveryKind, Unmoved, Zenon
  <1>8. Cmd' = Cmd /\ \A verb, r, step : Doing(Me, verb, r, step)' <=> Doing(Me, verb, r, step)
    BY <1>1, DoingIs DEF Cmd
  <1>9. Knows'
    <2>1. KnowsBucket'
      <3>1. \A b \in BucketNames :
               bucket[b].objects \subseteq {"saves"} => bucket'[b].objects \subseteq {"saves"}
        BY <1>3, <1>4
      <3> QED BY <1>1, <1>5, <1>6, <1>8, <3>1 DEF Knows, KnowsBucket
    <2>2. KnowsRole' /\ KnowsProfile' /\ KnowsFunction'
      BY <1>1, <1>8 DEF Knows, KnowsRole, KnowsProfile, KnowsFunction
    <2>3. KnowsApi' BY <1>1, <1>8 DEF Knows, KnowsApi
    <2>4. KnowsCdn'
      <3>1. bucket'["web"].names = bucket["web"].names /\ bucket'["data"].names = bucket["data"].names
        BY <1>1, <1>5, CdnFacts
      <3> QED BY <1>1, <1>8, <3>1 DEF Knows, KnowsCdn
    <2> QED BY <2>1, <2>2, <2>3, <2>4 DEF Knows
  <1>10. Somewhere' BY <1>1, <1>8 DEF Somewhere
  <1>11. StackInv'
    BY <1>1, <1>4, <1>9, <1>10, StackPartsNext DEF TypeOK, Phases, probeVars
  <1> QED BY <1>7, <1>8, <1>11

\* A function runs without its log group.
LEMMA Logged ==
  ASSUME Alone, StackInv, NEW f \in FunctionNames, FunctionLogs(f), UNCHANGED <<run, bucket>>,
         UNCHANGED <<table, role, profile, function, apis, dists, oac, probeVars>>
  PROVE  /\ StackInv' /\ Cmd' = Cmd
         /\ \A r \in Range(AllResources) : r # Logs(f) => Same(r)
         /\ Logs(f) \in Range(Resources)
         /\ Absent(Logs(f)) /\ ~Absent(Logs(f))' /\ ~Whole(Logs(f))' /\ ~Absent(Function(f))
  <1>1. /\ CloudSound /\ CloudTypeOK /\ TypeOK /\ Somewhere /\ Knows /\ f \in GroupNames
        /\ function[f].there /\ logs[f] = "none" /\ phase \in Phases
    BY StackParts DEF StackInv, TypeOK, FunctionLogs, GroupNames, Phases
  <1>2. logs' = [logs EXCEPT ![f] = "forever"] BY <1>1 DEF FunctionLogs, CreateLogGroup
  <1>3. /\ logs' \in [GroupNames -> {"none", "forever", "retained"}] /\ logs'[f] = "forever"
        /\ \A g \in GroupNames : g # f => logs'[g] = logs[g]
    BY <1>1, <1>2 DEF CloudTypeOK
  <1>4. CloudSound' BY <1>1, <1>3 DEF CloudSound, CloudTypeOK, OneOfEach, Granted, Kept, Policies
  <1>5. Cmd' = Cmd /\ \A verb, r, step : Doing(Me, verb, r, step)' <=> Doing(Me, verb, r, step)
    BY DoingIs DEF Cmd
  <1>6. Knows'
    BY <1>1, <1>5
    DEF Knows, KnowsBucket, KnowsRole, KnowsProfile, KnowsFunction, KnowsApi, KnowsCdn
  <1>7. Somewhere' BY <1>1, <1>5 DEF Somewhere
  <1>8. StackInv'
    BY <1>1, <1>4, <1>6, <1>7, StackPartsNext DEF TypeOK, Phases, probeVars
  <1>9. \A r \in Range(AllResources) : r # Logs(f) => Same(r)
    <2> TAKE r \in Range(AllResources)
    <2> HAVE r # Logs(f)
    <2>1. CASE \E g \in GroupNames : r = Logs(g) BY <1>3, <2>1, Unmoved
    <2> QED BY <2>1, EveryKind, Unmoved, Zenon
  <1>10. Absent(Logs(f)) /\ ~Absent(Logs(f))' /\ ~Whole(Logs(f))' /\ ~Absent(Function(f))
    BY <1>1, <1>3, OfTheService, OfTheServiceNext DEF LogsAbsent, LogsWhole, FunctionAbsent
  <1> QED BY <1>5, <1>8, <1>9, <1>10 DEF FunctionLogs

-----------------------------------------------------------------------------
(* The invariant. *)

LEMMA StackInit == ASSUME Alone, Init PROVE StackInv
  <1>1. run \in [Operators -> Commands] /\ Cmd = AtRest BY OneTerminal, Resting DEF Init, Cmd
  <1>2. CloudSound
    <2>1. CloudTypeOK
      <3>1. NoTable \in [status : {"none", "CREATING", "ACTIVE"}, ttl : BOOLEAN]
        BY DEF NoTable
      <3>2. NoBucket \in BucketValues BY DEF NoBucket, BucketValues, References
      <3>3. NoRole \in [there : BOOLEAN, policies : SUBSET {"managed", "inline"}] BY DEF NoRole
      <3>4. NoProfile \in [there : BOOLEAN, holds : BOOLEAN] BY DEF NoProfile
      <3>5. NoFunction \in FunctionValues BY DEF NoFunction, FunctionValues, References
      <3>6. apis = <<>> /\ dists = <<>> /\ DOMAIN apis = {} /\ DOMAIN dists = {} BY DEF Init
      <3>7. apis \in [{} -> SUBSET Parts] /\ dists \in [{} -> DistributionValues] BY <3>6
      <3> QED
        BY <3>1, <3>2, <3>3, <3>4, <3>5, <3>6, <3>7
        DEF Init, CloudTypeOK, BucketValues, FunctionValues, DistributionValues
    <2>2. OneOfEach BY DEF Init, OneOfEach
    <2>3. Granted BY DEF Init, Granted, NoFunction
    <2>4. Kept
      BY DEF Init, Kept, NoBucket, NoRole, NoProfile, NoFunction, BucketNames
    <2> QED BY <2>1, <2>2, <2>3, <2>4 DEF CloudSound
  <1>3. Somewhere BY <1>1, Resting DEF Somewhere
  <1>4. Knows
    <2>1. \A verb, r, step : ~ Doing(Me, verb, r, step) BY <1>1, DoingIs, Resting
    <2> QED
      BY <2>1 DEF Knows, KnowsBucket, KnowsRole, KnowsProfile, KnowsFunction, KnowsApi, KnowsCdn
  <1>5. phase = "idle" BY DEF Init, ProbeInit
  <1> QED BY <1>1, <1>2, <1>3, <1>4, <1>5, StackParts

LEMMA StackStep == ASSUME Alone, StackInv, [Next]_vars PROVE StackInv'
  <1>1. CASE Start(Me) BY <1>1, Started
  <1>2. CASE ResolveLayer(Me) BY <1>2, Resolving
  <1>3. CASE WalkStep(Me) BY <1>3, Walked
  <1>4. CASE LayerFails(Me) \/ Dies(Me) BY <1>4, Stopped
  <1>5. CASE Breaks(Me) BY <1>5, Broken
  <1>6. CASE Rebuild BY <1>6, Rebuilt
  <1>7. CASE Outside BY <1>7, OneTerminal, Saved, Logged DEF Outside
  <1>8. CASE UNCHANGED vars
    <2>1. UNCHANGED <<run, phase>> /\ UNCHANGED cloud BY <1>8 DEF vars, probeVars
    <2>2. Cmd' = Cmd /\ \A verb, r, step : Doing(Me, verb, r, step)' <=> Doing(Me, verb, r, step)
      BY <2>1, DoingIs DEF Cmd
    <2>3. Knows'
      BY <2>1, <2>2 DEF StackInv, cloud, Knows, KnowsBucket, KnowsRole, KnowsProfile, KnowsFunction,
         KnowsApi, KnowsCdn
    <2>4. Somewhere' BY <2>2 DEF StackInv, Somewhere
    <2> QED BY <2>1, <2>3, <2>4, StillTheCloud, StackParts, StackPartsNext
  <1> QED
    BY <1>1, <1>2, <1>3, <1>4, <1>5, <1>6, <1>7, <1>8, OneTerminal DEF Next, Proceed

\* What a deploy or a teardown knows at each of its steps is so, whatever died or failed
\* before (internal/deploy): the invariant behind the theorems that follow.
THEOREM StackInvariant == ASSUME Alone PROVE Spec => []StackInv
  <1>1. Init => StackInv BY StackInit
  <1>2. StackInv /\ [Next]_vars => StackInv' BY StackStep
  <1> QED BY <1>1, <1>2, PTL DEF Spec

-----------------------------------------------------------------------------
(* What a command leaves behind it. *)

\* Working at a resource disturbs only what stands after it.
LEMMA LeadsOn ==
  \A r, s \in Range(AllResources) : Leads(r, s) => Place(r) < Place(s)
  <1> TAKE r, s \in Range(AllResources)
  <1>1. r[1] = "bucket" => Place(r) \in {2, 3} BY DEF Place
  <1>2. r[1] = "function" => Place(r) \in {10, 11} BY DEF Place
  <1>3. r[1] = "http api" => Place(r) = 13 BY DEF Place
  <1>4. s[1] = "http api" => Place(s) = 13 BY DEF Place
  <1>5. (s[1] = "distribution" => Place(s) = 14) /\ (s[1] = "sync" => Place(s) = 15) BY DEF Place
  <1>6. CASE r[1] = "bucket" /\ s[1] \in {"distribution", "sync"} BY <1>1, <1>5, <1>6
  <1>7. CASE r[1] = "function" /\ s[1] = "http api"
    <2>1. Place(r) \in {10, 11} /\ Place(s) = 13 BY <1>2, <1>4, <1>7, Zenon
    <2> QED BY <2>1
  <1>8. CASE r[1] = "http api" /\ s[1] = "distribution"
    <2>1. Place(r) = 13 /\ Place(s) = 14 BY <1>3, <1>5, <1>8, Zenon
    <2> QED BY <2>1
  <1> QED BY <1>6, <1>7, <1>8 DEF Leads

LEMMA LeftAlone ==
  ASSUME Alone, TypeOK, Cmd.at # 0, Spared(Resources[Cmd.at]), NEW i \in DOMAIN Resources
  PROVE  /\ i < Cmd.at => Same(Resources[i])
         /\ i # Cmd.at /\ Absent(Resources[i]) => Absent(Resources[i])'
  <1>1. Cmd.at \in DOMAIN Resources BY CmdType
  <1> DEFINE here == Resources[Cmd.at]
             there == Resources[i]
  <1>2. /\ here \in Range(AllResources) /\ there \in Range(AllResources)
        /\ Place(here) \in 1 .. 15 /\ Place(there) \in 1 .. 15
        /\ i # Cmd.at => there # here
        /\ i < Cmd.at => Place(there) < Place(here)
    BY <1>1, TheWalk, PlaceOfAny
  <1>3. i # Cmd.at => Same(there) \/ (Leads(here, there) /\ (Absent(there) => Absent(there)'))
    BY <1>2 DEF Spared
  <1> HIDE DEF here, there
  <1>4. i < Cmd.at => ~Leads(here, there) BY <1>2, LeadsOn
  <1>5. i < Cmd.at => i # Cmd.at BY <1>1, TheWalk
  <1> QED BY <1>3, <1>4, <1>5 DEF Same, here, there

\* A resource is not both gone and whole.
LEMMA NotBoth ==
  ASSUME CloudSound PROVE \A r \in Range(AllResources) : ~(Absent(r) /\ Whole(r))
  <1>1. ~(TableAbsent /\ TableWhole) BY DEF TableAbsent, TableWhole
  <1>2. \A b : ~(BucketAbsent(b) /\ BucketWhole(b)) BY DEF BucketAbsent, BucketWhole
  <1>3. \A n : ~(RoleAbsent(n) /\ RoleWhole(n)) BY DEF RoleAbsent, RoleWhole
  <1>4. ~(ProfileAbsent /\ ProfileWhole) BY DEF ProfileAbsent, ProfileWhole, CloudSound, Kept
  <1>5. \A g : ~(LogsAbsent(g) /\ LogsWhole(g)) BY DEF LogsAbsent, LogsWhole
  <1>6. \A f \in FunctionNames : ~(FunctionAbsent(f) /\ FunctionWhole(f))
    <2>1. NoFunction.code # "built" BY DEF NoFunction
    <2> QED BY <2>1 DEF FunctionAbsent, FunctionWhole, CloudSound, Kept
  <1>7. ~(ApiAbsent /\ ApiWhole) BY DEF ApiAbsent, ApiWhole
  <1>8. ~(CdnAbsent /\ CdnWhole) BY DEF CdnAbsent, CdnWhole
  <1>9. ~(PageAbsent /\ PageWhole) BY DEF PageAbsent, PageWhole
  <1> TAKE r \in Range(AllResources)
  <1>10. CASE \E f \in FunctionNames : r = Function(f) BY <1>6, <1>10, OfTheService
  <1>11. CASE \E b \in BucketNames : r = Bucket(b) BY <1>2, <1>11, OfTheService
  <1>12. CASE \E n \in RoleNames : r = Role(n) BY <1>3, <1>12, OfTheService
  <1>13. CASE \E g \in GroupNames : r = Logs(g) BY <1>5, <1>13, OfTheService
  <1> QED BY <1>1, <1>4, <1>7, <1>8, <1>9, <1>10, <1>11, <1>12, <1>13, EveryKind, OfTheService, Zenon

LEMMA NotBothNow == CloudSound => \A r \in Range(AllResources) : ~(Absent(r) /\ Whole(r))
  BY NotBoth

LEMMA NotBothNext == CloudSound' => (\A r \in Range(AllResources) : ~(Absent(r) /\ Whole(r)))'
  BY NotBothNow, PTL

\* A step at a resource, or past it.
LEMMA BehindStep ==
  ASSUME Alone, LeaveInv, Cmd.at # 0, NEW here, here = Resources[Cmd.at],
         Moves(here), Spared(here)
  PROVE  Behind' /\ NeverRefused' /\ Reported'
  <1>1. /\ TypeOK /\ Behind /\ NeverRefused /\ Cmd \in Commands /\ Cmd.verb \in {"apply", "teardown"}
        /\ Cmd.outcome = "none" /\ Cmd.met \in {"nothing", "mishap"}
        /\ Cmd.at \in DOMAIN Resources /\ Len(Resources) \in Nat /\ Cmd.at \in Nat
        /\ DOMAIN Resources = 1 .. Len(Resources)
    BY CmdType, TheWalk DEF LeaveInv, StackInv, Somewhere, NeverRefused
  <1>2. \A i \in DOMAIN Resources :
           /\ Cmd.verb = "apply" /\ i < Cmd.at => Whole(Resources[i])'
           /\ /\ Cmd.verb = "teardown" /\ Cmd.met = "nothing" /\ i > Cmd.at
              /\ Resources[i] # WebSync
              => Absent(Resources[i])'
    <2> TAKE i \in DOMAIN Resources
    <2>1. Cmd.verb = "apply" /\ i < Cmd.at => Whole(Resources[i]) BY <1>1 DEF Behind
    <2>2. /\ Cmd.verb = "teardown" /\ Cmd.met = "nothing" /\ i > Cmd.at /\ Resources[i] # WebSync
          => Absent(Resources[i])
      BY <1>1 DEF Behind, Walking
    <2>3. i > Cmd.at => i # Cmd.at BY <1>1
    <2> QED BY <1>1, <2>1, <2>2, <2>3, LeftAlone DEF Same
  <1>8. CASE Stays
    <2>1. /\ Cmd'.verb = Cmd.verb /\ Cmd'.at = Cmd.at /\ Cmd'.met = Cmd.met
          /\ Cmd'.outcome = "none"
      BY <1>1, <1>8 DEF Stays
    <2> QED BY <1>1, <1>2, <2>1 DEF Behind, NeverRefused, Reported, Walking
  <1>3. ASSUME Advances
        PROVE  /\ Cmd'.met = Cmd.met
               /\ \/ /\ Cmd.verb = "apply" /\ Cmd.at < Len(Resources) /\ Cmd'.verb = "apply"
                     /\ Cmd'.at = Cmd.at + 1 /\ Cmd'.outcome = "none"
                  \/ /\ Cmd.verb = "apply" /\ Cmd.at = Len(Resources) /\ Cmd'.verb = "idle"
                     /\ Cmd'.at = 0 /\ Cmd'.outcome = "applied"
                  \/ /\ Cmd.verb = "teardown" /\ Cmd.at > 1 /\ Cmd'.verb = "teardown"
                     /\ Cmd'.at = Cmd.at - 1 /\ Cmd'.outcome = "none"
                  \/ /\ Cmd.verb = "teardown" /\ Cmd.at = 1 /\ Cmd'.verb = "idle" /\ Cmd'.at = 0
                     /\ Cmd'.outcome =
                           IF Cmd.met = "nothing" THEN "torn down" ELSE "teardown failed"
    <2>1. Cmd' = Passed(Cmd) /\ Cmd.verb # "idle" BY <1>1, <1>3 DEF Advances
    <2> QED BY <1>1, <2>1, Passing, Zenon
  <1>4. CASE Advances /\ (Cmd.verb = "apply" => Whole(here)')
             /\ (Cmd.verb = "teardown" => Absent(here)' \/ here = WebSync)
    <2>1. CASE Cmd.verb = "apply" /\ Cmd.at < Len(Resources)
      <3>1. /\ Cmd'.verb = "apply" /\ Cmd'.at = Cmd.at + 1 /\ Cmd'.met = Cmd.met
            /\ Cmd'.outcome = "none"
        BY <1>1, <1>3, <1>4, <2>1
      <3>2. \A i \in DOMAIN Resources : i < Cmd'.at => Whole(Resources[i])'
        BY <1>1, <1>2, <1>4, <2>1, <3>1
      <3> QED BY <1>1, <3>1, <3>2 DEF Behind, NeverRefused, Reported, Walking
    <2>2. CASE Cmd.verb = "apply" /\ Cmd.at = Len(Resources)
      <3>1. /\ Cmd'.verb = "idle" /\ Cmd'.at = 0 /\ Cmd'.met = Cmd.met
            /\ Cmd'.outcome = "applied"
        BY <1>1, <1>3, <1>4, <2>2
      <3>2. \A i \in DOMAIN Resources : Whole(Resources[i])'
        BY <1>1, <1>2, <1>4, <2>2
      <3> QED BY <1>1, <3>1, <3>2 DEF Behind, NeverRefused, Reported, Walking
    <2>3. CASE Cmd.verb = "teardown" /\ Cmd.at > 1
      <3>1. /\ Cmd'.verb = "teardown" /\ Cmd'.at = Cmd.at - 1 /\ Cmd'.met = Cmd.met
            /\ Cmd'.outcome = "none"
        <4>1. Advances BY <1>4
        <4>2. ~(Cmd.at = 1) /\ Cmd.verb # "apply" BY <1>1, <2>3
        <4> QED BY <1>1, <1>3, <2>3, <4>1, <4>2, Zenon
      <3>2. \A i \in DOMAIN Resources :
               Cmd.met = "nothing" /\ i > Cmd'.at /\ Resources[i] # WebSync => Absent(Resources[i])'
        BY <1>1, <1>2, <1>4, <2>3, <3>1
      <3> QED BY <1>1, <3>1, <3>2 DEF Behind, NeverRefused, Reported, Walking
    <2>4. CASE Cmd.verb = "teardown" /\ Cmd.at = 1
      <3>1. /\ Cmd'.verb = "idle" /\ Cmd'.at = 0 /\ Cmd'.met = Cmd.met
            /\ Cmd'.outcome = IF Cmd.met = "nothing" THEN "torn down" ELSE "teardown failed"
        <4>1. Advances BY <1>4
        <4>2. ~(Cmd.at > 1) /\ Cmd.verb # "apply" BY <1>1, <2>4
        <4> QED BY <1>1, <1>3, <2>4, <4>1, <4>2, Zenon
      <3>2. \A i \in DOMAIN Resources :
               Cmd.met = "nothing" /\ Resources[i] # WebSync => Absent(Resources[i])'
        BY <1>1, <1>2, <1>4, <2>4
      <3> QED BY <1>1, <3>1, <3>2 DEF Behind, NeverRefused, Reported, Walking
    <2> QED BY <1>1, <2>1, <2>2, <2>3, <2>4
  <1>5. ASSUME NEW what \in {"refusal", "mishap"}, Stumbles(what),
               what = "mishap" \/ Cmd.met = "mishap"
        PROVE  Behind' /\ NeverRefused' /\ Reported'
    <2>1. /\ Cmd'.met = "mishap"
          /\ \/ Cmd'.verb = "teardown" /\ Cmd'.outcome = "none"
             \/ Cmd'.verb = "idle" /\ Cmd'.outcome \in {"apply failed", "teardown failed"}
      BY <1>1, <1>5, Failing DEF Stumbles
    <2> QED BY <2>1 DEF Behind, NeverRefused, Reported
  <1>6. CASE Stumbles("mishap") BY <1>5, <1>6
  <1>7. CASE Stumbles("refusal") /\ (Cmd.met = "nothing" => ~Behind) BY <1>1, <1>5, <1>7
  <1>9. CASE here = WebSync /\ EndsBare
    <2>1. /\ Cmd'.verb = "idle" /\ Cmd'.at = 0 /\ Cmd'.met = Cmd.met
          /\ Cmd'.outcome = "applied bare" /\ Cmd.verb = "apply"
      BY <1>1, <1>9, EndingBare DEF EndsBare
    <2>2. \A i \in DOMAIN Resources : Resources[i] # WebSync => Whole(Resources[i])'
      BY <1>1, <1>2, <1>9, <2>1, SyncIsLast
    <2> QED BY <1>1, <2>1, <2>2 DEF Behind, NeverRefused, Reported, Walking
  <1> QED BY <1>4, <1>6, <1>7, <1>8, <1>9 DEF Moves

LEMMA LeaveInit == ASSUME Alone, Init PROVE LeaveInv
  <1>1. Cmd = AtRest BY OneTerminal DEF Init, Cmd
  <1> QED
    BY <1>1, Resting, StackInit DEF LeaveInv, Behind, NeverRefused, Reported, Walking

\* A function that logs without its group stands behind that group.
LEMMA LogsComeFirst ==
  ASSUME Alone, NEW f \in FunctionNames, NEW i \in DOMAIN Resources, Resources[i] = Logs(f)
  PROVE  \E j \in DOMAIN Resources : j > i /\ Resources[j] = Function(f)
  <1>1. Function(f) \in Range(AllResources) /\ Function(f)[1] = "function"
    BY EachIsListed DEF FunctionNames, Function
  <1>2. PICK j \in DOMAIN Resources : Resources[j] = Function(f)
    BY <1>1, ListAssumption DEF Range
  <1>3. Place(Logs(f)) < Place(Function(f)) /\ Place(Logs(f)) \in Nat /\ Place(Function(f)) \in Nat
    BY ThePlaces DEF FunctionNames
  <1>4. ~(j < i) /\ j # i
    <2>1. j < i => Place(Resources[j]) < Place(Resources[i]) BY TheWalk
    <2> QED BY <1>2, <1>3, <2>1
  <1>5. j > i BY <1>4, TheWalk
  <1> QED BY <1>2, <1>5

LEMMA LeaveStep == ASSUME Alone, LeaveInv, [Next]_vars PROVE LeaveInv'
  <1>0. StackInv /\ StackInv' BY StackStep DEF LeaveInv
  <1>11. ASSUME Cmd'.at = 0, Cmd'.outcome \in {"none", "no layer"}, Cmd'.met # "refusal"
         PROVE  LeaveInv'
    <2>1. \A i \in DOMAIN Resources : ~(i < 0) BY TheWalk
    <2>2. Behind' BY <1>11, <2>1 DEF Behind, Walking
    <2> QED BY <1>0, <1>11, <2>2 DEF LeaveInv, NeverRefused, Reported
  <1>1. CASE Start(Me)
    <2>1. Cmd'.at = 0 /\ Cmd'.outcome = "none" /\ Cmd'.met = "nothing" BY <1>0, <1>1, Started
    <2> QED BY <1>11, <2>1
  <1>2. CASE ResolveLayer(Me)
    <2>1. /\ Cmd.at = 0 /\ Cmd.verb \in {"apply", "teardown"} /\ Cmd.outcome = "none"
          /\ \/ Cmd' = Cmd
             \/ /\ Cmd'.verb = Cmd.verb /\ Cmd'.met = "nothing" /\ Cmd'.outcome = "none"
                /\ Cmd'.at = IF Cmd.verb = "apply" THEN 1 ELSE Len(Resources)
             \/ Cmd'.verb = "idle" /\ Cmd'.at = 0 /\ Cmd'.outcome = "no layer" /\ Cmd'.met = "nothing"
      BY <1>0, <1>2, Resolving
    <2>2. CASE Cmd' = Cmd
      <3>1. Cmd'.at = 0 /\ Cmd'.outcome = "none" /\ Cmd'.met # "refusal"
        BY <2>1, <2>2 DEF LeaveInv, NeverRefused
      <3> QED BY <1>11, <3>1
    <2>3. CASE /\ Cmd'.verb = Cmd.verb /\ Cmd'.met = "nothing" /\ Cmd'.outcome = "none"
               /\ Cmd'.at = IF Cmd.verb = "apply" THEN 1 ELSE Len(Resources)
      BY <1>0, <2>1, <2>3, TheWalk DEF LeaveInv, Behind, NeverRefused, Reported, Walking
    <2>4. CASE Cmd'.verb = "idle" /\ Cmd'.outcome = "no layer" /\ Cmd'.met = "nothing"
      BY <1>0, <2>4 DEF LeaveInv, Behind, NeverRefused, Reported
    <2> QED BY <2>1, <2>2, <2>3, <2>4
  <1>3. CASE WalkStep(Me) BY <1>0, <1>3, Walked, BehindStep DEF LeaveInv
  <1>4. CASE LayerFails(Me) \/ Dies(Me)
    BY <1>0, <1>4, Stopped DEF LeaveInv, Behind, NeverRefused, Reported
  <1>5. CASE Breaks(Me) BY <1>0, <1>5, Broken, BehindStep DEF LeaveInv
  <1>6. CASE Rebuild
    <2>1. Cmd' = AtRest BY <1>0, <1>6, Rebuilt
    <2> QED BY <1>0, <2>1, Resting DEF LeaveInv, Behind, NeverRefused, Reported
  <1>7. ASSUME Cmd' = Cmd, \A r \in Range(AllResources) : Same(r) PROVE LeaveInv'
    <2>1. \A i \in DOMAIN Resources : Same(Resources[i]) BY <1>7, TheWalk
    <2> QED BY <1>0, <1>7, <2>1 DEF LeaveInv, Behind, NeverRefused, Reported, Walking, Same
  <1>8. CASE Outside /\ \E o \in Operators : WorkerSaves(o) /\ UNCHANGED logs
    BY <1>0, <1>7, <1>8, OneTerminal, Saved DEF Outside
  <1>9. CASE Outside /\ \E f \in FunctionNames : FunctionLogs(f) /\ UNCHANGED <<run, bucket>>
    <2>1. PICK f \in FunctionNames : FunctionLogs(f) /\ UNCHANGED <<run, bucket>> BY <1>9
    <2>2. /\ Cmd' = Cmd
          /\ \A r \in Range(AllResources) : r # Logs(f) => Same(r)
          /\ Logs(f) \in Range(Resources) /\ Absent(Logs(f)) /\ ~Absent(Function(f))
      BY <1>0, <1>9, <2>1, Logged DEF Outside
    <2>3. PICK i \in DOMAIN Resources : Resources[i] = Logs(f) BY <2>2 DEF Range
    <2>4. PICK j \in DOMAIN Resources : j > i /\ Resources[j] = Function(f)
      BY <2>3, LogsComeFirst
    <2>5. Function(f) # WebSync /\ Logs(f) # WebSync BY DEF Function, WebSync, Logs
    <2>6. ~Whole(Logs(f)) BY <1>0, <2>2, <2>3, TheWalk, NotBoth, StackParts
    <2>7. \A k \in DOMAIN Resources : k # i => Same(Resources[k]) BY <2>2, <2>3, TheWalk
    <2>8. ~(Cmd.verb = "apply" /\ i < Cmd.at) /\ Cmd.outcome \notin {"applied", "applied bare"}
      BY <2>3, <2>5, <2>6 DEF LeaveInv, Behind, Reported
    <2>9. Cmd.outcome # "torn down" BY <2>2, <2>4, <2>5 DEF LeaveInv, Reported
    <2>10. ~(Cmd.verb = "teardown" /\ Walking /\ Cmd.met = "nothing" /\ i > Cmd.at)
      <3>1. i > Cmd.at => j > Cmd.at BY <1>0, <2>4, TheWalk, CmdType DEF StackInv
      <3> QED BY <2>2, <2>4, <2>5, <3>1 DEF LeaveInv, Behind
    <2> QED
      BY <1>0, <2>2, <2>7, <2>8, <2>9, <2>10
      DEF LeaveInv, Behind, NeverRefused, Reported, Walking, Same
  <1>10. CASE UNCHANGED vars
    <2>1. UNCHANGED <<table, bucket, role, profile, function, logs, apis, dists, oac>> /\ Cmd' = Cmd
      BY <1>10 DEF vars, cloud, Cmd
    <2>2. \A r \in Range(AllResources) : Same(r) BY <2>1, EveryKind, Unmoved, Zenon
    <2> QED BY <1>7, <2>1, <2>2
  <1> QED
    BY <1>1, <1>2, <1>3, <1>4, <1>5, <1>6, <1>8, <1>9, <1>10, OneTerminal
    DEF Next, Proceed, Outside

\* A command leaves behind it what it was to make or to remove, whatever else happens,
\* and what it reports at its end is so (internal/deploy/deploy.go).
THEOREM LeaveInvariant == ASSUME Alone PROVE Spec => []LeaveInv
  <1>1. Init => LeaveInv BY LeaveInit
  <1>2. LeaveInv /\ [Next]_vars => LeaveInv' BY LeaveStep
  <1> QED BY <1>1, <1>2, PTL DEF Spec

-----------------------------------------------------------------------------
(* What the invariants say of a run. *)

\* The services and the command are only ever in states of these types.
THEOREM DeployTypeCorrect == ASSUME Alone PROVE Spec => []TypeOK
  <1>1. StackInv => TypeOK BY DEF StackInv
  <1> QED BY <1>1, StackInvariant, PTL

\* No second API and no second distribution, although their names are not unique and an
\* answer that says an id may be lost (internal/deploy/apigateway.go, cloudfront.go).
THEOREM OneApiOneDistribution == ASSUME Alone PROVE Spec => []NeverTwo
  <1>1. ASSUME StackInv PROVE NeverTwo
    <2>1. ASSUME NEW S, S = {} \/ \E i \in Ids : S = {i} PROVE Cardinality(S) <= 1
      <3>1. CASE S = {}
        <4>1. Cardinality(S) = 0 BY <3>1, FS_EmptySet
        <4> QED BY <4>1
      <3>2. CASE \E i \in Ids : S = {i}
        <4>1. Cardinality(S) = 1 BY <3>2, FS_Singleton
        <4> QED BY <4>1
      <3> QED BY <2>1, <3>1, <3>2
    <2> QED BY <1>1, <2>1 DEF NeverTwo, StackInv, OneOfEach
  <1> QED BY <1>1, StackInvariant, PTL

\* A teardown takes back a function's permission before the API it names goes, and Apply
\* grants none to an API that is not there.
THEOREM NothingStranded == ASSUME Alone PROVE Spec => []NoStrandedPermission
  <1>1. ASSUME StackInv PROVE NoStrandedPermission
    <2> SUFFICES ASSUME NEW f \in FunctionNames PROVE function[f].allows # Gone
      BY DEF NoStrandedPermission
    <2>1. function[f].allows \in Ids \cup {None} BY <1>1 DEF StackInv, TypeOK, CloudTypeOK, Granted
    <2>2. Gone \notin Ids /\ Gone # None BY DeployAssumption DEF Gone, None
    <2> QED BY <2>1, <2>2
  <1> QED BY <1>1, StackInvariant, PTL

\* Re-running is always the way out: whatever state earlier runs left, a run fails only if
\* it has met a failed call, a service slower than it waits, or somebody else's write.
THEOREM ReRunningIsTheWayOut == ASSUME Alone PROVE Spec => []FailureNeedsAMishap
  <1>1. ASSUME LeaveInv PROVE FailureNeedsAMishap
    BY <1>1, OneTerminal DEF LeaveInv, NeverRefused, FailureNeedsAMishap, Cmd
  <1> QED BY <1>1, LeaveInvariant, PTL

\* What stands at each place of the walk, as the abstract walk sees it.
LEMMA SeenAs ==
  ASSUME CloudSound, NEW i \in DOMAIN Resources
  PROVE  /\ StateOf(Resources[i]) = "absent" <=> Absent(Resources[i])
         /\ StateOf(Resources[i]) = "whole" <=> Whole(Resources[i])
  BY TheWalk, NotBoth DEF StateOf

\* Only the page goes with something else: it lives in the web bucket.
LEMMA TheRider ==
  \A i \in DOMAIN Resources : Resources[i][1] = "sync" <=> Resources[i] = WebSync
  <1>1. WebSync[1] = "sync" /\ Sessions[1] # "sync" /\ Profile[1] # "sync" /\ HttpApi[1] # "sync"
        /\ Cdn[1] # "sync" /\ (\A b : Bucket(b)[1] # "sync") /\ (\A n : Role(n)[1] # "sync")
        /\ (\A f : Function(f)[1] # "sync") /\ (\A g : Logs(g)[1] # "sync")
    BY DEF WebSync, Sessions, Profile, HttpApi, Cdn, Bucket, Role, Function, Logs
  <1>2. \A r \in Range(AllResources) : r[1] = "sync" <=> r = WebSync BY <1>1, EveryKind
  <1> QED BY <1>2, TheWalk

\* "control plane up" is true of the real resources, whatever was there before and
\* whatever failed in earlier runs (internal/deploy/deploy.go).
THEOREM DeployReportIsTrue == ASSUME Alone PROVE Spec => []AppliedIsWhole
  <1>1. ASSUME LeaveInv PROVE AppliedIsWhole
    <2>1. CloudSound BY <1>1, StackParts DEF LeaveInv
    <2>2. ASSUME Cmd.outcome = "applied", NEW i \in DOMAIN Resources
          PROVE  StateOf(Resources[i]) = "whole"
      BY <1>1, <2>1, <2>2, SeenAs DEF LeaveInv, Reported
    <2>3. ASSUME Cmd.outcome = "applied bare", NEW i \in DOMAIN Resources,
                 Resources[i][1] # "sync"
          PROVE  StateOf(Resources[i]) = "whole"
      BY <1>1, <2>1, <2>3, SeenAs, TheRider DEF LeaveInv, Reported
    <2> QED BY <2>2, <2>3, TheWalk DEF AppliedIsWhole, D!AppliedIsWhole, Report, Seen
  <1> QED BY <1>1, LeaveInvariant, PTL

\* "control plane down" is true of the real resources, although a teardown goes on past
\* its errors; the page goes with the bucket it is in.
THEOREM TeardownReportIsTrue == ASSUME Alone PROVE Spec => []TornDownIsEmpty
  <1>1. ASSUME LeaveInv PROVE TornDownIsEmpty
    <2>1. CloudSound BY <1>1, StackParts DEF LeaveInv
    <2>2. ASSUME Cmd.outcome = "torn down", NEW i \in DOMAIN Resources, Resources[i] # WebSync
          PROVE  Absent(Resources[i]) /\ StateOf(Resources[i]) = "absent"
      BY <1>1, <2>1, <2>2, SeenAs DEF LeaveInv, Reported
    <2>3. D!TornDownIsEmpty
      <3>1. SUFFICES ASSUME Cmd.outcome = "torn down", NEW i \in DOMAIN Resources,
                            Resources[i][1] # "sync"
                     PROVE  StateOf(Resources[i]) = "absent"
        BY TheWalk DEF D!TornDownIsEmpty, Report, Seen
      <3> QED BY <2>2, <3>1, TheRider
    <2>4. ASSUME Cmd.outcome = "torn down" PROVE PageAbsent
      <3>1. Bucket("web") \in Range(AllResources) /\ Bucket("web")[1] = "bucket"
            /\ Bucket("web") # WebSync /\ "web" \in BucketNames
        BY EachIsListed DEF Bucket, WebSync, BucketNames
      <3>2. PICK i \in DOMAIN Resources : Resources[i] = Bucket("web")
        BY <3>1, ListAssumption DEF Range
      <3>3. BucketAbsent("web") BY <2>2, <2>4, <3>1, <3>2, OfTheService
      <3> QED BY <2>1, <3>1, <3>3 DEF BucketAbsent, PageAbsent, CloudSound, Kept
    <2> QED BY <2>3, <2>4 DEF TornDownIsEmpty
  <1> QED BY <1>1, LeaveInvariant, PTL

-----------------------------------------------------------------------------
(* The walk over the real resources is the abstract one. *)

\* Each resource looks like one of three things, before a step and after it.
LEMMA SeenStates ==
  /\ Seen \in [1 .. Len(Resources) -> D!States] /\ Seen' \in [1 .. Len(Resources) -> D!States]
  /\ \A i \in DOMAIN Resources :
        Seen[i] = StateOf(Resources[i]) /\ Seen'[i] = StateOf(Resources[i])'
  /\ DOMAIN Resources = 1 .. Len(Resources)
  <1>1. \A r : StateOf(r) \in D!States /\ StateOf(r)' \in D!States BY DEF StateOf, D!States
  <1> QED BY <1>1, TheWalk DEF Seen

\* From how the resource is, before a step and after it.
LEMMA SeenBoth ==
  ASSUME CloudSound, CloudSound', NEW i \in DOMAIN Resources
  PROVE  /\ Seen[i] = "absent" <=> Absent(Resources[i])
         /\ Seen[i] = "whole" <=> Whole(Resources[i])
         /\ Seen'[i] = "absent" <=> Absent(Resources[i])'
         /\ Seen'[i] = "whole" <=> Whole(Resources[i])'
         /\ Same(Resources[i]) => Seen'[i] = Seen[i]
         /\ Seen[i] \in D!States /\ Seen'[i] \in D!States
  <1>1. Resources[i] \in Range(AllResources) BY TheWalk
  <1>2. ~(Absent(Resources[i]) /\ Whole(Resources[i])) BY <1>1, NotBoth
  <1>3. ~(Absent(Resources[i]) /\ Whole(Resources[i]))' BY <1>1, NotBothNext
  <1>4. /\ StateOf(Resources[i]) = "absent" <=> Absent(Resources[i])
        /\ StateOf(Resources[i]) = "whole" <=> Whole(Resources[i])
    BY <1>2 DEF StateOf
  <1>5. /\ StateOf(Resources[i])' = "absent" <=> Absent(Resources[i])'
        /\ StateOf(Resources[i])' = "whole" <=> Whole(Resources[i])'
    BY <1>3 DEF StateOf
  <1>6. Same(Resources[i]) => StateOf(Resources[i])' = StateOf(Resources[i]) BY DEF Same, StateOf
  <1> QED BY <1>4, <1>5, <1>6, SeenStates

\* What looks the same everywhere looks the same.
LEMMA SeenStays ==
  ASSUME \A r \in Range(AllResources) : Same(r) PROVE Seen' = Seen
  <1>1. \A i \in DOMAIN Resources : Same(Resources[i]) BY TheWalk
  <1>2. \A i \in DOMAIN Resources : StateOf(Resources[i])' = StateOf(Resources[i])
    BY <1>1 DEF Same, StateOf
  <1> QED BY <1>2, SeenStates

\* Where nothing happens to the services, nothing is seen.
LEMMA SeenAlone == ASSUME UNCHANGED cloud PROVE Seen' = Seen
  <1>1. UNCHANGED <<table, bucket, role, profile, function, logs, apis, dists, oac>> BY DEF cloud
  <1>2. \A r \in Range(AllResources) : Same(r) BY <1>1, EveryKind, Unmoved, Zenon
  <1> QED BY <1>2, SeenStays

\* What a step at a resource does to the list is what the abstract walk lets it do.
LEMMA StepTouches ==
  ASSUME Alone, StackInv, StackInv', Cmd.at # 0, Spared(Resources[Cmd.at])
  PROVE  D!Touches
  <1>1. CloudSound /\ CloudSound' /\ TypeOK BY StackParts, StackPartsNext DEF StackInv
  <1>2. \A i \in DOMAIN Resources :
           /\ i < Cmd.at => Seen'[i] = Seen[i]
           /\ i # Cmd.at /\ Seen[i] = "absent" => Seen'[i] = "absent"
    BY <1>1, LeftAlone, SeenBoth
  <1>3. \A i \in DOMAIN Resources : i > Cmd.at => i # Cmd.at BY <1>1, CmdType, TheWalk
  <1> QED BY <1>2, <1>3, SeenStates DEF D!Touches

\* A step at a resource is a step of the abstract walk.
LEMMA WalkMaps ==
  ASSUME Alone, LeaveInv, StackInv', Cmd.at # 0, NEW here, here = Resources[Cmd.at],
         Moves(here), Spared(here)
  PROVE  D!Next
  <1>1. /\ TypeOK /\ Cmd \in Commands /\ Cmd.verb \in {"apply", "teardown"}
        /\ Cmd.outcome = "none" /\ Cmd.at \in DOMAIN Resources /\ Cmd.at \in Nat
        /\ CloudSound /\ CloudSound'
    BY CmdType, StackParts, StackPartsNext DEF LeaveInv, StackInv, Somewhere
  <1>2. D!Touches BY <1>1, StepTouches DEF LeaveInv
  <1>3. Asked = Cmd.verb /\ Report = "none" /\ Asked # "idle"
        /\ Noted = IF Cmd.met = "nothing" THEN "nothing" ELSE "error"
    BY <1>1 DEF Asked, Report, Noted, Walking
  <1>4. CASE Stays
    <2>1. Cmd'.verb = Cmd.verb /\ Cmd'.at = Cmd.at /\ Cmd'.met = Cmd.met /\ Cmd'.outcome = "none"
      BY <1>1, <1>4 DEF Stays
    <2>2. Asked' = Asked /\ Report' = Report /\ Noted' = Noted
      BY <1>1, <2>1 DEF Asked, Report, Noted, Walking
    <2> QED BY <1>2, <1>3, <2>1, <2>2 DEF D!Work, D!Next
  <1>5. CASE Advances /\ (Cmd.verb = "apply" => Whole(here)')
             /\ (Cmd.verb = "teardown" => Absent(here)' \/ here = WebSync)
    <2>1. /\ Cmd.verb = "apply" => Seen'[Cmd.at] = "whole"
          /\ Cmd.verb = "teardown" =>
                Seen'[Cmd.at] = "absent" \/ Resources[Cmd.at][1] = "sync"
      BY <1>1, <1>5, SeenBoth, TheRider
    <2>2. Cmd' = Passed(Cmd) /\ Cmd.verb # "idle" BY <1>1, <1>5 DEF Advances
    <2>3. CASE Cmd.verb = "apply"
      <3>1. \/ /\ Cmd.at < Len(Resources) /\ Cmd'.at = Cmd.at + 1 /\ Asked' = Asked
               /\ Noted' = Noted /\ Report' = Report
            \/ /\ Cmd.at = Len(Resources) /\ Cmd'.at = 0 /\ Asked' = "idle"
               /\ Noted' = "nothing" /\ Report' = "applied"
        <4>1. /\ Cmd'.met = Cmd.met
              /\ \/ /\ Cmd.at < Len(Resources) /\ Cmd'.at = Cmd.at + 1 /\ Cmd'.at # 0
                    /\ Cmd'.verb = "apply" /\ Cmd'.outcome = "none"
                 \/ /\ Cmd.at = Len(Resources) /\ Cmd'.at = 0 /\ Cmd'.outcome = "applied"
          BY <1>1, <2>2, <2>3, Passing
        <4> QED BY <1>3, <2>3, <4>1 DEF Asked, Noted, Report, Walking
      <3>2. D!Ensured BY <1>2, <1>3, <2>1, <2>3, <3>1 DEF D!Ensured, D!Rest
      <3> QED BY <3>2 DEF D!Next
    <2>4. CASE Cmd.verb = "teardown"
      <3>1. \/ /\ Cmd.at > 1 /\ Cmd'.at = Cmd.at - 1 /\ Asked' = Asked
               /\ Noted' = Noted /\ Report' = Report
            \/ /\ Cmd.at = 1 /\ Cmd'.at = 0 /\ Asked' = "idle" /\ Noted' = "nothing"
               /\ Report' = IF Noted = "nothing" THEN "removed" ELSE "none"
        <4>1. /\ Cmd'.met = Cmd.met
              /\ \/ /\ Cmd.at > 1 /\ Cmd'.at = Cmd.at - 1 /\ Cmd'.at # 0
                    /\ Cmd'.verb = "teardown" /\ Cmd'.outcome = "none"
                 \/ /\ Cmd.at = 1 /\ Cmd'.at = 0
                    /\ Cmd'.outcome = IF Cmd.met = "nothing" THEN "torn down"
                                                             ELSE "teardown failed"
          BY <1>1, <2>2, <2>4, Passing
        <4> QED BY <1>3, <2>4, <4>1 DEF Asked, Noted, Report, Walking
      <3>2. D!Back(Noted) BY <3>1 DEF D!Back, D!Rest
      <3>3. D!Removed BY <1>1, <1>2, <1>3, <2>1, <2>4, <3>2 DEF D!Removed
      <3> QED BY <3>3 DEF D!Next
    <2> QED BY <1>1, <2>3, <2>4
  <1>6. ASSUME NEW what \in {"refusal", "mishap"}, Stumbles(what) PROVE D!Next
    <2>1. Cmd' = Failed(Cmd, what) /\ Cmd.verb # "idle" BY <1>1, <1>6 DEF Stumbles
    <2>2. CASE Cmd.verb = "apply"
      <3>1. Cmd'.verb = "idle" /\ Cmd'.at = 0 /\ Cmd'.outcome = "apply failed"
        BY <1>1, <2>1, <2>2, Failing
      <3>2. Asked' = "idle" /\ Noted' = "nothing" /\ Report' = "none"
        BY <3>1 DEF Asked, Noted, Report, Walking
      <3>3. D!EnsureFails BY <1>2, <1>3, <2>2, <3>1, <3>2 DEF D!EnsureFails, D!Rest
      <3> QED BY <3>3 DEF D!Next
    <2>3. CASE Cmd.verb = "teardown"
      <3>1. \/ /\ Cmd.at > 1 /\ Cmd'.at = Cmd.at - 1 /\ Asked' = Asked
               /\ Noted' = "error" /\ Report' = Report
            \/ /\ Cmd.at = 1 /\ Cmd'.at = 0 /\ Asked' = "idle" /\ Noted' = "nothing"
               /\ Report' = "none"
        <4>1. /\ Cmd'.met # "nothing"
              /\ \/ /\ Cmd.at > 1 /\ Cmd'.at = Cmd.at - 1 /\ Cmd'.at # 0
                    /\ Cmd'.verb = "teardown" /\ Cmd'.outcome = "none"
                 \/ Cmd.at = 1 /\ Cmd'.at = 0 /\ Cmd'.outcome = "teardown failed"
          BY <1>1, <2>1, <2>3, Failing
        <4> QED BY <1>3, <2>3, <4>1 DEF Asked, Noted, Report, Walking
      <3>2. D!Back("error") BY <3>1 DEF D!Back, D!Rest
      <3>3. D!RemoveFails BY <1>2, <1>3, <2>3, <3>2 DEF D!RemoveFails
      <3> QED BY <3>3 DEF D!Next
    <2> QED BY <1>1, <2>2, <2>3
  <1>7. CASE here = WebSync /\ EndsBare
    <2>1. Cmd'.at = 0 /\ Cmd'.outcome = "applied bare" /\ Cmd.verb = "apply"
      BY <1>1, <1>7, EndingBare DEF EndsBare
    <2>2. Asked' = "idle" /\ Noted' = "nothing" /\ Report' = "bare"
      BY <2>1 DEF Asked, Noted, Report, Walking
    <2>3. Seen' = Seen BY <1>7, SeenAlone DEF EndsBare
    <2>4. Cmd.at = Len(Resources) /\ Resources[Cmd.at][1] = "sync"
      BY <1>1, <1>7, SyncIsLast, TheRider
    <2>5. D!NothingToPut
      BY <1>1, <1>3, <2>1, <2>2, <2>3, <2>4 DEF D!NothingToPut, D!Rest
    <2> QED BY <2>5 DEF D!Next
  <1> QED BY <1>4, <1>5, <1>6, <1>7 DEF Moves

\* A command that is at no resource is none to the abstract walk.
LEMMA AtNone ==
  /\ Cmd.at = 0 => Asked = "idle" /\ Noted = "nothing"
  /\ Cmd'.at = 0 => Asked' = "idle" /\ Noted' = "nothing"
  /\ Cmd.outcome \notin {"applied", "applied bare", "torn down"} => Report = "none"
  /\ Cmd'.outcome \notin {"applied", "applied bare", "torn down"} => Report' = "none"
  BY DEF Asked, Noted, Report, Walking

\* Every step of the command and its surroundings is a step of the abstract walk, or none.
LEMMA StepMaps == ASSUME Alone, LeaveInv, [Next]_vars PROVE [D!Next]_(D!vars)
  <1>0. StackInv /\ StackInv' /\ CloudSound /\ CloudSound' /\ TypeOK
    BY StackStep, StackParts, StackPartsNext DEF LeaveInv, StackInv
  <1>1. ASSUME Asked' = Asked, Noted' = Noted, Report' = Report, Cmd'.at = Cmd.at, Seen' = Seen
        PROVE  UNCHANGED D!vars
    BY <1>1 DEF D!vars
  <1>2. CASE Start(Me)
    <2>1. UNCHANGED cloud /\ Cmd.at = 0 /\ Cmd'.at = 0 /\ Cmd'.outcome = "none"
      BY <1>0, <1>2, Started
    <2>2. D!Forget BY <2>1, AtNone, SeenAlone DEF D!Forget
    <2> QED BY <2>2 DEF D!Next
  <1>3. CASE ResolveLayer(Me)
    <2>1. /\ Cmd.at = 0 /\ Cmd.verb \in {"apply", "teardown"} /\ Cmd.outcome = "none"
          /\ UNCHANGED cloud
          /\ \/ Cmd' = Cmd
             \/ /\ Cmd'.verb = Cmd.verb /\ Cmd'.met = "nothing" /\ Cmd'.outcome = "none"
                /\ Cmd'.at = IF Cmd.verb = "apply" THEN 1 ELSE Len(Resources)
             \/ Cmd'.verb = "idle" /\ Cmd'.at = 0 /\ Cmd'.outcome = "no layer" /\ Cmd'.met = "nothing"
      BY <1>0, <1>3, Resolving
    <2>2. CASE Cmd'.at = 0 /\ Cmd'.outcome \in {"none", "no layer"}
      BY <1>1, <2>1, <2>2, AtNone, SeenAlone
    <2>3. CASE /\ Cmd'.verb = Cmd.verb /\ Cmd'.met = "nothing" /\ Cmd'.outcome = "none"
               /\ Cmd'.at = IF Cmd.verb = "apply" THEN 1 ELSE Len(Resources)
      <3>1. Cmd'.at # 0 BY <2>3, TheWalk
      <3>2. Asked' = Cmd.verb /\ Noted' = "nothing" /\ Report' = "none"
        BY <2>3, <3>1 DEF Asked, Noted, Report, Walking
      <3>3. D!Begin(Cmd.verb) BY <2>1, <2>3, <3>2, AtNone, SeenAlone DEF D!Begin
      <3> QED BY <2>1, <3>3 DEF D!Next
    <2> QED BY <2>1, <2>2, <2>3
  <1>4. CASE WalkStep(Me) BY <1>0, <1>4, Walked, WalkMaps
  <1>5. CASE Breaks(Me) BY <1>0, <1>5, Broken, WalkMaps
  <1>6. CASE LayerFails(Me) \/ Dies(Me)
    <2>1. /\ UNCHANGED cloud /\ Cmd.verb # "idle" /\ Cmd.outcome = "none" /\ Cmd'.at = 0
          /\ Cmd'.outcome \in {"none", "no layer"}
      BY <1>0, <1>6, Stopped
    <2>2. CASE Cmd.at = 0 BY <1>1, <2>1, <2>2, AtNone, SeenAlone
    <2>3. CASE Cmd.at # 0
      <3>1. Asked # "idle" BY <2>1, <2>3 DEF Asked, Walking
      <3>2. D!Dies BY <2>1, <3>1, AtNone, SeenAlone DEF D!Dies, D!Rest
      <3> QED BY <3>2 DEF D!Next
    <2> QED BY <2>2, <2>3
  <1>7. CASE Rebuild
    <2>1. /\ Cmd.at = 0 /\ Cmd'.at = 0 /\ Cmd'.outcome = "none"
          /\ \A r \in Range(AllResources) :
                Same(r) \/ (~Absent(r) /\ ~Absent(r)' /\ ~Whole(r)')
      BY <1>0, <1>7, Rebuilt, Resting
    <2>2. \A i \in DOMAIN Resources :
             Seen'[i] = Seen[i] \/ (Seen[i] # "absent" /\ Seen'[i] = "partial")
      <3> TAKE i \in DOMAIN Resources
      <3>1. Resources[i] \in Range(AllResources) BY TheWalk
      <3>2. CASE Same(Resources[i]) BY <1>0, <3>2, SeenBoth
      <3>3. CASE ~Absent(Resources[i]) /\ ~Absent(Resources[i])' /\ ~Whole(Resources[i])'
        BY <1>0, <3>3, SeenBoth DEF D!States
      <3> QED BY <2>1, <3>1, <3>2, <3>3
    <2>3. D!Drift BY <2>1, <2>2, AtNone, SeenStates DEF D!Drift
    <2> QED BY <2>3 DEF D!Next
  <1>8. ASSUME Cmd' = Cmd PROVE Asked' = Asked /\ Noted' = Noted /\ Report' = Report
    BY <1>8 DEF Asked, Noted, Report, Walking
  <1>9. CASE Outside /\ \E o \in Operators : WorkerSaves(o) /\ UNCHANGED logs
    <2>1. Cmd' = Cmd /\ \A r \in Range(AllResources) : Same(r)
      BY <1>0, <1>9, OneTerminal, Saved DEF Outside
    <2> QED BY <1>1, <1>8, <2>1, SeenStays
  <1>10. CASE Outside /\ \E f \in FunctionNames : FunctionLogs(f) /\ UNCHANGED <<run, bucket>>
    <2>1. PICK f \in FunctionNames : FunctionLogs(f) /\ UNCHANGED <<run, bucket>> BY <1>10
    <2>2. /\ Cmd' = Cmd
          /\ \A r \in Range(AllResources) : r # Logs(f) => Same(r)
          /\ Logs(f) \in Range(Resources)
          /\ Absent(Logs(f)) /\ ~Absent(Logs(f))' /\ ~Whole(Logs(f))' /\ ~Absent(Function(f))
      BY <1>0, <1>10, <2>1, Logged DEF Outside
    <2>3. PICK i \in DOMAIN Resources : Resources[i] = Logs(f) BY <2>2 DEF Range
    <2>4. PICK j \in DOMAIN Resources : j > i /\ Resources[j] = Function(f)
      BY <2>3, LogsComeFirst
    <2>5. Function(f)[1] # "sync" BY DEF Function
    <2>6. Seen[i] = "absent" /\ Seen'[i] = "partial" /\ Seen[j] # "absent"
      BY <1>0, <2>2, <2>3, <2>4, SeenBoth DEF D!States
    <2>7. \A k \in DOMAIN Resources : k # i => Seen'[k] = Seen[k]
      <3> SUFFICES ASSUME NEW k \in DOMAIN Resources, k # i PROVE Seen'[k] = Seen[k] OBVIOUS
      <3>1. Resources[k] # Logs(f) /\ Resources[k] \in Range(AllResources) BY <2>3, TheWalk
      <3> QED BY <1>0, <2>2, <3>1, SeenBoth
    <2>8. Seen' = [Seen EXCEPT ![i] = "partial"] BY <2>6, <2>7, SeenStates
    <2>9. D!Revive(i)
      <3>1. Asked' = Asked /\ Cmd'.at = Cmd.at /\ Noted' = Noted /\ Report' = Report
        BY <1>8, <2>2
      <3>2. \E k \in (1 .. Len(Resources)) \ {n \in DOMAIN Resources : Resources[n][1] = "sync"} :
               k > i /\ Seen[k] # "absent"
        BY <2>4, <2>5, <2>6, SeenStates
      <3> QED BY <2>6, <2>8, <3>1, <3>2 DEF D!Revive
    <2> QED BY <2>9, SeenStates DEF D!Next
  <1>11. CASE UNCHANGED vars
    <2>1. UNCHANGED cloud /\ Cmd' = Cmd BY <1>11 DEF vars, Cmd
    <2> QED BY <1>1, <1>8, <2>1, SeenAlone
  <1> QED
    BY <1>2, <1>3, <1>4, <1>5, <1>6, <1>7, <1>9, <1>10, <1>11, OneTerminal
    DEF Next, Proceed, Outside

\* Apply and Teardown over the real resources, with everything that can fail, die or
\* change in between, are the abstract walk (internal/deploy/deploy.go): what DeployerProofs
\* shows of any list holds of this one.
THEOREM DeployImplementsTheWalk == ASSUME Alone PROVE Spec => ImplementsDeployer
  <1>1. ASSUME Init PROVE D!Init
    <2>1. Cmd = AtRest BY <1>1, OneTerminal DEF Init, Cmd
    <2>2. Cmd.at = 0 /\ Cmd.outcome = "none" BY <2>1, Resting
    <2> QED BY <2>2, AtNone, SeenStates DEF D!Init
  <1>2. LeaveInv /\ [Next]_vars => [D!Next]_(D!vars) BY StepMaps
  <1> QED BY <1>1, <1>2, LeaveInvariant, PTL DEF Spec, ImplementsDeployer, D!Spec

-----------------------------------------------------------------------------
(* The layer. *)

\* Halving stays strictly inside the interval.
LEMMA MiddleIsInside ==
    ASSUME NEW a \in Nat, NEW b \in Nat, b - a > 1
    PROVE  /\ a + (b - a) \div 2 \in Nat
           /\ a < a + (b - a) \div 2
           /\ a + (b - a) \div 2 < b
  OBVIOUS

\* One step of the probe keeps the invariant.
LEMMA ProbeStep == ProbeInv /\ [ProbeNext]_probeVars => ProbeInv'
  <1> SUFFICES ASSUME ProbeInv, [ProbeNext]_probeVars PROVE ProbeInv'
    OBVIOUS
  <1> USE DEF ProbeInv, Available
  <1>1. CASE StartProbe
    BY <1>1 DEF StartProbe
  <1>2. CASE ProbeFirst
    BY <1>2 DEF ProbeFirst
  <1>3. CASE ProbeUp
    BY <1>3 DEF ProbeUp
  <1>4. CASE Halve
    <2> DEFINE mid == lo + (hi - lo) \div 2
    <2>1. mid \in Nat /\ lo < mid /\ mid < hi
      BY <1>4, MiddleIsInside DEF Halve
    <2>2. CASE Available(mid)
      <3>1. lo' = mid /\ hi' = hi /\ phase' = phase /\ published' = published /\ phase = "halving"
        BY <1>4, <2>2 DEF Halve
      <3> QED
        BY <2>1, <2>2, <3>1
    <2>3. CASE ~Available(mid)
      <3>1. hi' = mid /\ lo' = lo /\ phase' = phase /\ published' = published /\ phase = "halving"
        BY <1>4, <2>3 DEF Halve
      <3> QED
        BY <2>1, <2>3, <3>1
    <2> QED
      BY <2>2, <2>3
  <1>5. CASE Settle
    <2>1. hi = lo + 1
      BY <1>5 DEF Settle
    <2> QED
      BY <1>5, <2>1 DEF Settle
  <1>6. CASE Forget
    BY <1>6 DEF Forget
  <1>7. CASE UNCHANGED probeVars
    BY <1>7 DEF probeVars
  <1> QED
    BY <1>1, <1>2, <1>3, <1>4, <1>5, <1>6, <1>7 DEF ProbeNext, Probe

\* What resolveLWALayerARN returns can be attached and its successor cannot, in every
\* region and under every ceiling (internal/deploy/lwa.go).
THEOREM ProbeFindsNewest == ProbeSpec => []ResolvedIsNewest
  <1>1. ProbeInit => ProbeInv
    BY DEF ProbeInit, ProbeInv
  <1>2. ProbeInv => ResolvedIsNewest
    BY DEF ProbeInv, ResolvedIsNewest
  <1> QED
    BY <1>1, <1>2, ProbeStep, PTL DEF ProbeSpec

\* Where versions have no gaps, that is the newest there is.
THEOREM NoGapsMeansNewest ==
    ASSUME NEW n \in Nat, published = 1 .. n, phase = "resolved", lo \in Nat,
           ResolvedIsNewest
    PROVE  lo = n
  BY DEF ResolvedIsNewest, Available

\* A command asks in no other way: what a deploy attaches is the newest version there is
\* for it, however many commands run and whatever becomes of them.
THEOREM LayerIsNewest == Spec => []ResolvedIsNewest
  <1>1. Init => ProbeInv BY DEF Init, ProbeInit, ProbeInv
  <1>2. [Next]_vars => [ProbeNext]_probeVars
    <2>1. ASSUME NEW o \in Operators,
                 Start(o) \/ ResolveLayer(o) \/ WalkStep(o) \/ LayerFails(o) \/ Breaks(o) \/ Dies(o)
          PROVE  [ProbeNext]_probeVars
      BY <2>1 DEF Start, ResolveLayer, WalkStep, LayerFails, Breaks, Dies, ProbeNext
    <2>2. CASE Rebuild \/ Outside BY <2>2 DEF Rebuild, Outside
    <2>3. CASE UNCHANGED vars BY <2>3 DEF vars
    <2> QED BY <2>1, <2>2, <2>3 DEF Next, Proceed
  <1>3. ProbeInv => ResolvedIsNewest BY DEF ProbeInv, ResolvedIsNewest
  <1> QED BY <1>1, <1>2, <1>3, ProbeStep, PTL DEF Spec

=============================================================================
