-------------------------- MODULE SchemaSetupProofs --------------------------
(***************************************************************************)
(* Proofs about SchemaSetup, for every set of servers, every environment,  *)
(* every schema the first start may find and any number of faults.         *)
(***************************************************************************)
EXTENDS SchemaSetup, SequenceTheorems, TLAPS

\* What a server has passed is in the schema; one that serves has passed all.
PassedIsThere ==
    \A s \in Servers :
        /\ \A i \in 1 .. next[s] - 1 : queries(config[s])[i] \in schema
        /\ phase[s] = "serving" => next[s] = Len(queries(config[s])) + 1

SetupInv == SetupTypeOK /\ PassedIsThere

-----------------------------------------------------------------------------
\* The elements of a concatenation are those of its parts.
LEMMA ElementsConcat ==
  ASSUME NEW S, NEW a \in Seq(S), NEW b \in Seq(S)
  PROVE  /\ a \o b \in Seq(S)
         /\ Elements(a \o b) = Elements(a) \cup Elements(b)
<1>1. /\ a \o b \in Seq(S)
      /\ Len(a \o b) = Len(a) + Len(b)
      /\ \A i \in 1 .. Len(a) + Len(b) :
            (a \o b)[i] = IF i <= Len(a) THEN a[i] ELSE b[i - Len(a)]
  BY ConcatProperties, Z3
<1>2. /\ Len(a) \in Nat /\ DOMAIN a = 1 .. Len(a)
      /\ Len(b) \in Nat /\ DOMAIN b = 1 .. Len(b)
      /\ DOMAIN (a \o b) = 1 .. Len(a \o b)
  BY <1>1
<1>3. ASSUME NEW i \in DOMAIN (a \o b)
      PROVE  (a \o b)[i] \in Elements(a) \cup Elements(b)
  <2>1. CASE i <= Len(a)
    BY <2>1, <1>1, <1>2, <1>3 DEF Elements
  <2>2. CASE i > Len(a)
    <3>1. i - Len(a) \in 1 .. Len(b)
      BY <2>2, <1>1, <1>2, <1>3
    <3>2. QED
      BY <3>1, <2>2, <1>1, <1>2, <1>3 DEF Elements
  <2>3. QED
    BY <2>1, <2>2, <1>1, <1>2, <1>3
<1>4. ASSUME NEW i \in DOMAIN a PROVE a[i] \in Elements(a \o b)
  <2>1. i \in 1 .. Len(a) + Len(b) /\ i <= Len(a)
    BY <1>2, <1>4
  <2>2. QED
    BY <2>1, <1>1, <1>2, <1>4 DEF Elements
<1>5. ASSUME NEW i \in DOMAIN b PROVE b[i] \in Elements(a \o b)
  <2>1. /\ i + Len(a) \in 1 .. Len(a) + Len(b)
        /\ ~(i + Len(a) <= Len(a))
        /\ (i + Len(a)) - Len(a) = i
    BY <1>2, <1>5
  <2>2. (a \o b)[i + Len(a)] = b[i]
    BY <2>1, <1>1
  <2>3. QED
    BY <2>1, <2>2, <1>1, <1>2 DEF Elements
<1>6. QED
  BY <1>1, <1>3, <1>4, <1>5 DEF Elements

\* The three lists hold objects only.
LEMMA ListsTyped ==
  /\ BaseTables \in Seq(Objects)
  /\ << "systemSaveData" >> \in Seq(Objects)
  /\ columns \in Seq(Objects)
  /\ indexes \in Seq(Objects)
  /\ Elements(<< "systemSaveData" >>) = {"systemSaveData"}
<1>1. Elements(<< "systemSaveData" >>) = {"systemSaveData"}
  BY DEF Elements
<1>2. << "systemSaveData" >> \in Seq(Objects)
  BY DEF Objects, TableNames
<1>3. columns \in Seq(Objects)
  BY DEF columns, Objects, Elements
<1>4. indexes \in Seq(Objects)
  BY DEF indexes, Objects, Elements
<1>5. BaseTables \in Seq(Objects)
  BY DEF BaseTables, Objects, TableNames, Elements
<1>6. QED
  BY <1>1, <1>2, <1>3, <1>4, <1>5

\* The statements of a setup are a list of objects, with everything in it that
\* a server of that environment needs.
LEMMA QueriesCover ==
  ASSUME NEW c \in Configs
  PROVE  /\ queries(c) \in Seq(Objects)
         /\ Needed(c) \cup Elements(indexes) \subseteq Elements(queries(c))
<1>1. /\ Tables(c) \in Seq(Objects)
      /\ Elements(BaseTables) \subseteq Elements(Tables(c))
      /\ ~c.endpoint => "systemSaveData" \in Elements(Tables(c))
  <2> DEFINE tail == IF c.endpoint THEN << >> ELSE << "systemSaveData" >>
  <2>1. tail \in Seq(Objects)
    BY ListsTyped
  <2>2. ~c.endpoint => Elements(tail) = {"systemSaveData"}
    BY ListsTyped
  <2>3. Tables(c) = BaseTables \o tail
    BY DEF Tables
  <2> HIDE DEF tail
  <2>4. BaseTables \o tail \in Seq(Objects)
        /\ Elements(BaseTables \o tail) = Elements(BaseTables) \cup Elements(tail)
    BY <2>1, ListsTyped, ElementsConcat
  <2>5. QED
    BY <2>2, <2>3, <2>4
<1>2. /\ Tables(c) \o columns \in Seq(Objects)
      /\ Elements(Tables(c) \o columns) = Elements(Tables(c)) \cup Elements(columns)
  BY <1>1, ListsTyped, ElementsConcat
<1>3. /\ queries(c) \in Seq(Objects)
      /\ Elements(queries(c)) =
            Elements(Tables(c) \o columns) \cup Elements(indexes)
  <2> DEFINE body == Tables(c) \o columns
  <2>1. queries(c) = body \o indexes /\ body \in Seq(Objects)
    BY <1>2 DEF queries
  <2> HIDE DEF body
  <2>2. /\ body \o indexes \in Seq(Objects)
        /\ Elements(body \o indexes) = Elements(body) \cup Elements(indexes)
    BY <2>1, ListsTyped, ElementsConcat
  <2>3. QED
    BY <2>1, <2>2 DEF body
<1>4. c.endpoint \in BOOLEAN /\ c.bucket \in BOOLEAN
      /\ (c.endpoint => c.bucket)
  BY ConfigsAssumption
<1>5. QED
  BY <1>1, <1>2, <1>3, <1>4 DEF Needed

-----------------------------------------------------------------------------
\* No server has passed anything at the start.
LEMMA SetupInitInv == Init => SetupInv
<1> SUFFICES ASSUME Init PROVE SetupInv
  OBVIOUS
<1>1. ASSUME NEW s \in Servers
      PROVE  /\ next[s] = 1 /\ phase[s] = "down"
             /\ Len(queries(config[s])) \in Nat
  BY QueriesCover DEF Init
<1>2. QED
  BY <1>1, OldSchemasAssumption, FaultsAssumption
  DEF Init, SetupInv, SetupTypeOK, PassedIsThere

\* A setup goes forward by statements whose objects are there, creates only
\* objects, and never takes one away.
LEMMA SetupNextInv == SetupInv /\ [Next]_vars => SetupInv'
<1> SUFFICES ASSUME SetupInv, [Next]_vars PROVE SetupInv'
  OBVIOUS
<1> USE FaultsAssumption DEF SetupInv, SetupTypeOK, PassedIsThere
<1>1. ASSUME NEW r \in Servers
      PROVE  Len(queries(config[r])) \in Nat
             /\ queries(config[r]) \in Seq(Objects)
  BY QueriesCover
<1>2. ASSUME NEW s \in Servers, NEW o \in Objects, o = Statement(s),
             next[s] \in 1 .. Len(queries(config[s])), phase[s] = "setup",
             o \in schema', schema \subseteq schema', schema' \subseteq Objects,
             Advance(s), UNCHANGED << config, phase, faults >>
      PROVE  SetupInv'
  <2>1. next' \in [Servers -> Nat]
        /\ \A r \in Servers : next'[r] \in 1 .. Len(queries(config'[r])) + 1
    BY <1>1, <1>2 DEF Advance
  <2>2. absent' \in [Servers -> BOOLEAN]
    BY <1>2 DEF Advance
  <2>3. ASSUME NEW r \in Servers
        PROVE  /\ \A i \in 1 .. next'[r] - 1 : queries(config'[r])[i] \in schema'
               /\ phase'[r] = "serving" =>
                     next'[r] = Len(queries(config'[r])) + 1
    <3>1. CASE r = s
      <4>1. next'[r] = next[s] + 1 /\ config' = config /\ phase'[r] = "setup"
        BY <3>1, <1>2 DEF Advance
      <4>2. ASSUME NEW i \in 1 .. next'[r] - 1
            PROVE  queries(config'[r])[i] \in schema'
        <5>1. i \in 1 .. next[s] - 1 \/ i = next[s]
          BY <4>1, <1>1, <1>2
        <5>2. QED
          BY <5>1, <4>1, <3>1, <1>2 DEF Statement
      <4>3. QED
        BY <4>1, <4>2
    <3>2. CASE r # s
      BY <3>2, <1>2 DEF Advance
    <3>3. QED
      BY <3>1, <3>2
  <2>4. QED
    BY <1>2, <2>1, <2>2, <2>3
<1>3. ASSUME NEW s \in Servers, Fatal(s), UNCHANGED << schema, config >>,
             faults' \in 0 .. MaxFaults
      PROVE  SetupInv'
  BY <1>1, <1>3 DEF Fatal
<1>4. ASSUME NEW s \in Servers, Start(s) PROVE SetupInv'
  BY <1>1, <1>4 DEF Start
<1>5. ASSUME NEW s \in Servers, InSetup(s)
      PROVE  /\ next[s] \in 1 .. Len(queries(config[s]))
             /\ Statement(s) \in Objects
  BY <1>1, <1>5 DEF InSetup, Statement
<1>6. ASSUME NEW s \in Servers, CreateTable(s) PROVE SetupInv'
  <2>1. Statement(s) \in schema' /\ schema \subseteq schema'
        /\ schema' \subseteq Objects
    BY <1>5, <1>6 DEF CreateTable, BornWith, Objects
  <2>2. QED
    BY <2>1, <1>2, <1>5, <1>6 DEF CreateTable, InSetup
<1>7. ASSUME NEW s \in Servers, LookFor(s) PROVE SetupInv'
  <2>1. CASE Statement(s) \in schema
    BY <2>1, <1>2, <1>5, <1>7 DEF LookFor, InSetup
  <2>2. CASE Statement(s) \notin schema
    BY <2>2, <1>1, <1>7 DEF LookFor
  <2>3. QED
    BY <2>1, <2>2
<1>8. ASSUME NEW s \in Servers, AddMissing(s) PROVE SetupInv'
  <2>1. Statement(s) \in schema' /\ schema \subseteq schema'
        /\ schema' \subseteq Objects
    BY <1>5, <1>8 DEF AddMissing
  <2>2. QED
    BY <2>1, <1>2, <1>5, <1>8 DEF AddMissing, InSetup
<1>9. ASSUME NEW s \in Servers, Refused(s) PROVE SetupInv'
  BY <1>3, <1>9 DEF Refused
<1>10. ASSUME NEW s \in Servers, Serve(s) PROVE SetupInv'
  <2>1. next[s] = Len(queries(config[s])) + 1
    BY <1>1, <1>10 DEF Serve
  <2>2. QED
    BY <2>1, <1>1, <1>10 DEF Serve
<1>11. ASSUME NEW s \in Servers, Fail(s) PROVE SetupInv'
  BY <1>3, <1>11 DEF Fail
<1>12. CASE UNCHANGED vars
  BY <1>12 DEF vars
<1>13. QED
  BY <1>4, <1>6, <1>7, <1>8, <1>9, <1>10, <1>11, <1>12 DEF Next, SetupStep

-----------------------------------------------------------------------------
\* The invariant holds in every state.
THEOREM SetupInvariant == SchemaSpec => []SetupInv
<1>1. QED
  BY SetupInitInv, SetupNextInv, PTL DEF SchemaSpec

\* The variables keep their types: no server is ever past the statement after
\* its last one.
THEOREM SetupTypeCorrect == SchemaSpec => []SetupTypeOK
<1>1. SetupInv => SetupTypeOK
  BY DEF SetupInv
<1>2. QED
  BY <1>1, SetupInvariant, PTL

\* A server serves only with a schema that has all it needs, whoever else was
\* starting, stopping or failing meanwhile.
THEOREM SchemaComplete == SchemaSpec => []SchemaCompleteWhenServing
<1>1. SetupInv => SchemaCompleteWhenServing
  <2> SUFFICES ASSUME SetupInv, NEW s \in Servers, phase[s] = "serving"
               PROVE  Needed(config[s]) \cup Elements(indexes) \subseteq schema
    BY DEF SchemaCompleteWhenServing
  <2>1. config[s] \in Configs /\ next[s] = Len(queries(config[s])) + 1
    BY DEF SetupInv, SetupTypeOK, PassedIsThere
  <2>2. /\ queries(config[s]) \in Seq(Objects)
        /\ Needed(config[s]) \cup Elements(indexes)
              \subseteq Elements(queries(config[s]))
    BY <2>1, QueriesCover
  <2>3. Elements(queries(config[s])) \subseteq schema
    BY <2>1, <2>2 DEF SetupInv, PassedIsThere, Elements
  <2>4. QED
    BY <2>2, <2>3
<1>2. QED
  BY <1>1, SetupInvariant, PTL

-----------------------------------------------------------------------------
\* What a statement builds on is among the first tables of the setup.
LEMMA RequiredTables ==
  ASSUME NEW o
  PROVE  Requires(o) \subseteq Elements(BaseTables)
<1>1. /\ "accounts" \in Elements(BaseTables)
      /\ "dailyRuns" \in Elements(BaseTables)
      /\ "sessions" \in Elements(BaseTables)
      /\ "dailyRunCompletions" \in Elements(BaseTables)
      /\ "accountDailyRuns" \in Elements(BaseTables)
  BY DEF Elements, BaseTables
<1>2. \/ Requires(o) = {} \/ Requires(o) = {"accounts", "dailyRuns"}
      \/ Requires(o) = {"accounts"} \/ Requires(o) = {"sessions"}
      \/ Requires(o) = {"dailyRuns"} \/ Requires(o) = {"dailyRunCompletions"}
      \/ Requires(o) = {"accountDailyRuns"}
  BY DEF Requires
<1>3. QED
  BY <1>1, <1>2

\* A list goes on where it is continued.
LEMMA ConcatBegins ==
  ASSUME NEW S, NEW a \in Seq(S), NEW b \in Seq(S), NEW i \in 1 .. Len(a)
  PROVE  (a \o b)[i] = a[i] /\ i \in 1 .. Len(a \o b)
<1>1. Len(a) \in Nat /\ Len(b) \in Nat /\ Len(a \o b) = Len(a) + Len(b)
  BY ConcatProperties, Z3
<1>2. i \in 1 .. Len(a) + Len(b) /\ i <= Len(a)
  BY <1>1
<1>3. QED
  BY <1>1, <1>2, ConcatProperties, Z3

\* Every setup begins with the ten tables that are always created.
LEMMA QueriesBegin ==
  ASSUME NEW c \in Configs, NEW i \in 1 .. 10
  PROVE  queries(c)[i] = BaseTables[i]
<1> DEFINE tail == IF c.endpoint THEN << >> ELSE << "systemSaveData" >>
           body == Tables(c) \o columns
<1>1. Len(BaseTables) = 10 /\ tail \in Seq(Objects)
  BY ListsTyped DEF BaseTables
<1>2. Tables(c) = BaseTables \o tail
  BY DEF Tables
<1> HIDE DEF tail
<1>3. Tables(c)[i] = BaseTables[i] /\ i \in 1 .. Len(Tables(c))
  <2>1. i \in 1 .. Len(BaseTables)
    BY <1>1
  <2>2. /\ (BaseTables \o tail)[i] = BaseTables[i]
        /\ i \in 1 .. Len(BaseTables \o tail)
    BY <2>1, <1>1, ListsTyped, ConcatBegins
  <2>3. QED
    BY <2>2, <1>2
<1>4. Tables(c) \in Seq(Objects)
  BY <1>1, <1>2, ListsTyped, ElementsConcat
<1>5. body[i] = BaseTables[i] /\ i \in 1 .. Len(body) /\ body \in Seq(Objects)
  BY <1>3, <1>4, ListsTyped, ConcatBegins, ElementsConcat
<1>6. queries(c) = body \o indexes
  BY DEF queries
<1> HIDE DEF body
<1>7. QED
  BY <1>5, <1>6, ListsTyped, ConcatBegins

\* The list of statements is in an order the database accepts: each one comes
\* after those it builds on.
LEMMA QueriesInOrder ==
  ASSUME NEW c \in Configs, NEW i \in 1 .. Len(queries(c)),
         NEW t \in Requires(queries(c)[i])
  PROVE  \E j \in 1 .. i - 1 : queries(c)[j] = t
<1>1. Len(queries(c)) \in Nat /\ i \in Nat
  BY QueriesCover
<1>2. CASE i <= 10
  <2>1. i \in 1 .. 10 /\ t \in Requires(BaseTables[i])
    BY <1>1, <1>2, QueriesBegin
  <2>2. /\ BaseTables[1] = "accounts" /\ BaseTables[2] = "sessions"
        /\ BaseTables[3] = "accountStats" /\ BaseTables[4] = "dailyRuns"
        /\ BaseTables[5] = "dailyRunCompletions"
        /\ BaseTables[6] = "accountDailyRuns"
        /\ BaseTables[7] = "sessionSaveData"
        /\ BaseTables[8] = "activeClientSessions"
        /\ BaseTables[9] = "bankedPokemon" /\ BaseTables[10] = "pvpRecords"
    BY DEF BaseTables
  <2>3. i # 1 /\ i # 4 /\ (i # 6 => t = "accounts")
        /\ (i = 6 => t \in {"accounts", "dailyRuns"})
    <3>1. i \in {1, 4} => Requires(BaseTables[i]) = {}
      BY <2>2 DEF Requires
    <3>2. i = 6 => Requires(BaseTables[i]) = {"accounts", "dailyRuns"}
      BY <2>2 DEF Requires
    <3>3. i \in {2, 3, 5, 7, 8, 9, 10} => Requires(BaseTables[i]) = {"accounts"}
      BY <2>2 DEF Requires
    <3>4. i \in {1, 4} \/ i = 6 \/ i \in {2, 3, 5, 7, 8, 9, 10}
      BY <2>1
    <3>5. QED
      BY <2>1, <3>1, <3>2, <3>3, <3>4
  <2>4. queries(c)[1] = "accounts" /\ queries(c)[4] = "dailyRuns"
    BY <2>2, QueriesBegin
  <2>5. QED
    BY <2>1, <2>3, <2>4
<1>3. CASE ~(i <= 10)
  <2>1. PICK j \in DOMAIN BaseTables : BaseTables[j] = t
    BY RequiredTables DEF Elements
  <2>2. j \in 1 .. 10
    BY DEF BaseTables
  <2>3. QED
    BY <1>1, <1>3, <2>1, <2>2, QueriesBegin
<1>4. QED
  BY <1>2, <1>3

\* What the statement of a server builds on is there when the server comes to
\* it, from whatever schema and however often it and others were cut short.
GroundLaid == \A s \in Servers : InSetup(s) => Requires(Statement(s)) \subseteq schema

\* The database refuses a statement of the setup only because another server
\* has created the object since this one looked for it, never for what a setup
\* that was cut short has left undone.
RefusedOnlyInARace ==
    [][\A s \in Servers : Refused(s) => absent[s] /\ Statement(s) \in schema]_vars

\* Each statement comes after those it builds on, and a server that is past
\* those has left them in the schema.
LEMMA GroundIsLaid == SchemaSpec => []GroundLaid
<1>1. SetupInv => GroundLaid
  <2> SUFFICES ASSUME SetupInv, NEW s \in Servers, InSetup(s),
                      NEW t \in Requires(Statement(s))
               PROVE  t \in schema
    BY DEF GroundLaid
  <2>1. /\ config[s] \in Configs /\ next[s] \in 1 .. Len(queries(config[s]))
        /\ \A i \in 1 .. next[s] - 1 : queries(config[s])[i] \in schema
    BY QueriesCover DEF SetupInv, SetupTypeOK, PassedIsThere, InSetup
  <2>2. PICK j \in 1 .. next[s] - 1 : queries(config[s])[j] = t
    BY <2>1, QueriesInOrder DEF Statement
  <2>3. QED
    BY <2>1, <2>2
<1>2. QED
  BY <1>1, SetupInvariant, PTL

\* With the ground laid, only the lost race is left of the reasons to refuse.
THEOREM RefusedOnlyInARaceHolds == SchemaSpec => RefusedOnlyInARace
<1>1. GroundLaid /\ [Next]_vars =>
        [\A s \in Servers : Refused(s) => absent[s] /\ Statement(s) \in schema]_vars
  BY DEF GroundLaid, Refused
<1>2. QED
  BY <1>1, GroundIsLaid, PTL DEF SchemaSpec, RefusedOnlyInARace
=============================================================================
