-------------------------- MODULE ServerStartProofs --------------------------
(***************************************************************************)
(* Proofs about starts of any number of replicas, any number of times,     *)
(* with any files, that fail or crash anywhere.                            *)
(***************************************************************************)
EXTENDS ServerStart, TLAPS

Alive == Starting \cup {"serving"}
WithClients == {"migrate", "insert", "verifiers", "nonceIndex", "serving"}

\* How far the checks of the parameters have come.
Checked(r) ==
    /\ pc[r] \in Alive => /\ params[r] \in ParamSets[r]
                          /\ getStartupParameters(params[r])
    /\ pc[r] \in Alive \ {"configure"} => prepareConfiguration(params[r])
    /\ pc[r] \in Alive \ {"configure", "keyManager"} => params[r].issuers # None
    /\ pc[r] \in WithClients => params[r].clients # None
    /\ 1 <= at[r]

AllChecked == \A r \in Replicas : Checked(r)

TInv == TypeOK /\ AllChecked

\* The fields of the parameters that a start goes through.
LEMMA ParamFields ==
    ASSUME NEW q \in Params
    PROVE  /\ q.issuers \in Seq(Entry) \cup {None}
           /\ q.verifiers \in Seq(Entry) \cup {None}
           /\ q.clients \in Seq(ClientIDs) \cup {None}
BY DEF Params

\* The parameters and files of a replica that is alive.
LEMMA FilesType ==
    ASSUME TInv, NEW r \in Replicas, pc[r] \in Alive
    PROVE  /\ params[r] \in Params /\ params[r] \in ParamSets[r]
           /\ pc[r] \notin {"configure", "keyManager"} =>
                 params[r].issuers \in Seq(Entry) /\ params[r].verifiers \in Seq(Entry)
           /\ pc[r] \in WithClients => params[r].clients \in Seq(ClientIDs)
<1>1. params[r] \in ParamSets[r] /\ params[r] \in Params
  BY StartAssumption DEF TInv, AllChecked, Checked
<1>2. pc[r] \notin {"configure", "keyManager"} =>
          params[r].issuers # None /\ params[r].verifiers # None
  BY <1>1, StartAssumption DEF TInv, AllChecked, Checked
<1>3. pc[r] \in WithClients => params[r].clients # None
  BY DEF TInv, AllChecked, Checked
<1> QED BY <1>1, <1>2, <1>3, ParamFields

\* The element a reader is at.
LEMMA CurrentType ==
    ASSUME TInv, NEW r \in Replicas, InReader(r)
    PROVE  /\ pc[r] \in Readers /\ pc[r] \in Alive
           /\ pc[r] \notin {"configure", "keyManager"}
           /\ Entries(r) \in Seq(Entry)
           /\ at[r] \in 1..Len(Entries(r))
           /\ Current(r) \in Entry /\ Current(r).id \in ProfileIDs
           /\ NewDID(r) \in DID /\ NewDID(r) # None
<1>1. pc[r] \in Readers /\ pc[r] \in Alive /\ pc[r] \notin {"configure", "keyManager"}
  BY DEF InReader, Readers, Alive, Starting
<1>2. Entries(r) \in Seq(Entry)
  BY <1>1, FilesType DEF Entries
<1>3. at[r] \in 1..Len(Entries(r))
  BY <1>2 DEF InReader, TInv, TypeOK, AllChecked, Checked
<1>4. Current(r) \in Entry
  BY <1>2, <1>3 DEF Current
<1>5. NewDID(r) \in DID
  BY <1>1, <1>3 DEF NewDID, DID, TInv, TypeOK
<1> QED BY <1>1, <1>2, <1>3, <1>4, <1>5, NamesAssumption DEF Entry

\* Only the place of replica r in the start changes.
Moves(r, l) == Go(r, l) /\ UNCHANGED <<params, starts, at, made, todo, dids>>

\* What r does leaves the other replicas alone.
Others(r) ==
    \A s \in Replicas \ {r} :
        /\ pc'[s] = pc[s] /\ params'[s] = params[s] /\ starts'[s] = starts[s]
        /\ at'[s] = at[s] /\ made'[s] = made[s] /\ todo'[s] = todo[s]
        /\ dids'[s] = dids[s]

\* The other replicas stay checked.
LEMMA CheckedOthers ==
    ASSUME TInv, NEW r \in Replicas, Others(r), Checked(r)'
    PROVE  AllChecked'
<1>1. ASSUME NEW s \in Replicas, s # r PROVE Checked(s)'
  <2>1. Checked(s) /\ pc'[s] = pc[s] /\ params'[s] = params[s] /\ at'[s] = at[s]
    BY <1>1 DEF TInv, AllChecked, Others
  <2> QED BY <2>1 DEF Checked, getStartupParameters, prepareConfiguration,
     createEdgeStoreProvider, getPrometheusMetricsProviderParams, getMode, getTLS,
     getDBParameters, getKMSParameters, getDevMode, ParseBool
<1> QED BY <1>1 DEF AllChecked

LocalTypes ==
    /\ pc \in [Replicas -> {"off", "refused", "serving"} \cup Starting]
    /\ params \in [Replicas -> Params \cup {None}]
    /\ starts \in [Replicas -> Nat]
    /\ at \in [Replicas -> Nat]
    /\ made \in [Replicas -> 0..5]
    /\ todo \in [Replicas -> SUBSET OAuthCollections]
    /\ dids \in [Replicas -> [Readers -> [ProfileIDs -> DID \cup {None}]]]
    /\ failed \in [Replicas -> BOOLEAN]

SharedTypes ==
    /\ indexed \subseteq Collections
    /\ clients \in Seq(ClientIDs)
    /\ keys \subseteq Key
    /\ published \subseteq DID
    /\ lists \in [ProfileIDs -> StatusList \cup {None}]
    /\ issued \subseteq Issued

\* What nothing was done to keeps its type.
LEMMA TypesKept ==
    ASSUME TInv
    PROVE  /\ UNCHANGED local => LocalTypes' /\ AllChecked'
           /\ UNCHANGED shared => SharedTypes'
           /\ LocalTypes /\ SharedTypes
BY DEF TInv, TypeOK, LocalTypes, SharedTypes, local, shared, AllChecked, Checked,
   getStartupParameters, prepareConfiguration, createEdgeStoreProvider,
   getPrometheusMetricsProviderParams, getMode, getTLS, getDBParameters,
   getKMSParameters, getDevMode, ParseBool

\* A step that moves r to l, which the checks done so far allow.
LEMMA MovesType ==
    ASSUME TInv, NEW r \in Replicas, NEW l \in {"off", "refused", "serving"} \cup Starting,
           Moves(r, l), failed' \in [Replicas -> BOOLEAN], SharedTypes',
           l \in Alive => /\ params[r] \in ParamSets[r]
                          /\ getStartupParameters(params[r]),
           l \in Alive \ {"configure"} => prepareConfiguration(params[r]),
           l \in Alive \ {"configure", "keyManager"} => params[r].issuers # None,
           l \in WithClients => params[r].clients # None
    PROVE  TInv' /\ Others(r) /\ pc'[r] = l
<1>1. pc'[r] = l /\ Others(r) /\ LocalTypes'
  BY DEF TInv, TypeOK, Moves, Go, Others, LocalTypes
<1>2. Checked(r)'
  <2>1. params' = params /\ at' = at /\ 1 <= at[r]
    BY DEF Moves, TInv, AllChecked, Checked
  <2> QED BY <1>1, <2>1 DEF Checked, getStartupParameters, prepareConfiguration,
     createEdgeStoreProvider, getPrometheusMetricsProviderParams, getMode, getTLS,
     getDBParameters, getKMSParameters, getDevMode, ParseBool
<1>3. AllChecked'
  BY <1>1, <1>2, CheckedOthers
<1> QED BY <1>1, <1>3 DEF TInv, TypeOK, LocalTypes, SharedTypes

\* A step of r after which r is checked.
LEMMA StepType ==
    ASSUME TInv, NEW r \in Replicas, Others(r), LocalTypes', SharedTypes', Checked(r)'
    PROVE  TInv'
BY CheckedOthers DEF TInv, TypeOK, LocalTypes, SharedTypes

\* A step that takes r on, as far as the checks done so far allow.
LEMMA GoesType ==
    ASSUME TInv, NEW r \in Replicas, pc[r] \in Alive, Others(r), LocalTypes',
           params'[r] = params[r], SharedTypes',
           1 <= at'[r], pc'[r] \in {"refused"} \cup Starting, pc'[r] # "configure",
           pc'[r] # "refused" => prepareConfiguration(params[r]),
           pc'[r] \notin {"refused", "keyManager"} => params[r].issuers # None,
           pc'[r] \in WithClients => params[r].clients # None
    PROVE  TInv'
<1>1. params[r] \in ParamSets[r] /\ getStartupParameters(params[r])
  BY DEF TInv, AllChecked, Checked
<1>2. getStartupParameters(params[r])'
  BY <1>1 DEF getStartupParameters, getPrometheusMetricsProviderParams, getMode,
     getTLS, getDBParameters, getKMSParameters, getDevMode, ParseBool
<1>3. pc'[r] # "refused" => prepareConfiguration(params[r])'
  BY DEF prepareConfiguration, createEdgeStoreProvider
<1>4. pc'[r] \in Alive => pc'[r] # "refused"
  BY DEF Alive, Starting
<1>5. Checked(r)'
  BY <1>1, <1>2, <1>3, <1>4 DEF Checked
<1> QED BY <1>5, StepType

\* What is known of a replica past the configuration.
LEMMA Past ==
    ASSUME TInv, NEW r \in Replicas, pc[r] \in Alive
    PROVE  /\ at[r] \in Nat /\ 1 <= at[r] /\ made[r] \in 0..5
           /\ todo[r] \in SUBSET OAuthCollections
           /\ dids \in [Replicas -> [Readers -> [ProfileIDs -> DID \cup {None}]]]
           /\ params[r] \in ParamSets[r] /\ getStartupParameters(params[r])
           /\ pc[r] # "configure" => prepareConfiguration(params[r])
           /\ pc[r] \notin {"configure", "keyManager"} => params[r].issuers # None
           /\ pc[r] \in WithClients => params[r].clients # None
BY DEF TInv, TypeOK, AllChecked, Checked, Alive

\* A profile put into the reader's map.
LEMMA RegisterType ==
    ASSUME TInv, NEW r \in Replicas, InReader(r), NEW d \in DID \cup {None}, Register(r, d)
    PROVE  /\ dids' \in [Replicas -> [Readers -> [ProfileIDs -> DID \cup {None}]]]
           /\ \A s \in Replicas \ {r} : dids'[s] = dids[s]
           /\ dids'[r][pc[r]][Current(r).id] = d
           /\ \A k \in Readers : \A p \in ProfileIDs :
                 k # pc[r] \/ p # Current(r).id => dids'[r][k][p] = dids[r][k][p]
<1>1. pc[r] \in Readers /\ Current(r).id \in ProfileIDs
  BY CurrentType
<1> DEFINE c == Current(r).id
<1> HIDE DEF c
<1>2. dids \in [Replicas -> [Readers -> [ProfileIDs -> DID \cup {None}]]]
  BY DEF TInv, TypeOK
<1>3. dids' = [dids EXCEPT ![r][pc[r]][c] = d]
  BY DEF Register, c
<1>4. c \in ProfileIDs
  BY <1>1 DEF c
<1>5. /\ dids' \in [Replicas -> [Readers -> [ProfileIDs -> DID \cup {None}]]]
      /\ \A s \in Replicas \ {r} : dids'[s] = dids[s]
      /\ dids'[r][pc[r]][c] = d
      /\ \A k \in Readers : \A p \in ProfileIDs :
            k # pc[r] \/ p # c => dids'[r][k][p] = dids[r][k][p]
  BY <1>1, <1>2, <1>3, <1>4
<1> QED BY <1>5 DEF c

\* A profile with a DID from the file.
LEMMA UseFileDIDType ==
    ASSUME TInv, NEW r \in Replicas, UseFileDID(r)
    PROVE  TInv' /\ Others(r) /\ pc'[r] = pc[r] /\ at'[r] = at[r] + 1 /\ made'[r] = 0
<1>1. pc[r] \in Readers /\ pc[r] \in Alive /\ pc[r] \notin {"configure", "keyManager"}
      /\ pc[r] \in Starting
  BY CurrentType DEF UseFileDID, Readers, Starting
<1>2. /\ dids' \in [Replicas -> [Readers -> [ProfileIDs -> DID \cup {None}]]]
      /\ \A s \in Replicas \ {r} : dids'[s] = dids[s]
  BY RegisterType DEF UseFileDID
<1>3. SharedTypes'
  BY TypesKept DEF UseFileDID
<1>4. at[r] + 1 \in Nat /\ 1 <= at[r] + 1
  BY <1>1, Past
<1>5. /\ UNCHANGED <<pc, params, starts, todo, failed>>
      /\ at' = [at EXCEPT ![r] = @ + 1] /\ made' = [made EXCEPT ![r] = 0]
  BY DEF UseFileDID, NextEntry
<1>6. LocalTypes' /\ Others(r) /\ at'[r] = at[r] + 1 /\ made'[r] = 0
  BY <1>2, <1>4, <1>5 DEF TInv, TypeOK, LocalTypes, Others
<1>7. TInv'
  BY <1>1, <1>3, <1>4, <1>5, <1>6, Past, GoesType
<1> QED BY <1>5, <1>6, <1>7

\* A key more, or a type of keys that does not fit.
LEMMA CreateKeyType ==
    ASSUME TInv, NEW r \in Replicas, CreateKey(r)
    PROVE  /\ TInv' /\ Others(r) /\ at'[r] = at[r]
           /\ \/ pc'[r] = "refused"
              \/ pc'[r] = pc[r] /\ made'[r] = made[r] + 1
<1>1. pc[r] \in Readers /\ pc[r] \in Alive /\ pc[r] \notin {"configure", "keyManager"}
      /\ pc[r] \in Starting /\ NewDID(r) \in DID
  BY CurrentType DEF CreateKey, Readers, Starting
<1> DEFINE n == made[r] + 1
<1>2. n \in 1..5
  BY <1>1, Past DEF CreateKey, KeyCount, newVerMethods
<1>3. PlaceOf(r) \in Place
  <2>1. params[r].kmsType \in {"local", "web", "aws"}
    BY <1>1, Past DEF getStartupParameters, getKMSParameters
  <2> QED BY <2>1 DEF PlaceOf, Place
<1>4. [did |-> NewDID(r), n |-> n, place |-> PlaceOf(r)] \in Key
  BY <1>1, <1>2, <1>3 DEF Key
<1>5. keys' \subseteq Key
  BY <1>4, TypesKept DEF CreateKey, SharedTypes
<1>6. SharedTypes'
  BY <1>5, TypesKept DEF CreateKey, SharedTypes
<1>7. UNCHANGED <<params, starts, failed, at, todo, dids>>
  BY DEF CreateKey
<1>8. CASE made' = [made EXCEPT ![r] = n] /\ pc' = pc
  <2>1. LocalTypes' /\ Others(r) /\ made'[r] = n
    BY <1>2, <1>7, <1>8 DEF TInv, TypeOK, LocalTypes, Others
  <2>2. TInv'
    BY <1>1, <1>6, <1>7, <1>8, <2>1, Past, GoesType
  <2> QED BY <1>7, <1>8, <2>1, <2>2
<1>9. CASE pc' = [pc EXCEPT ![r] = "refused"] /\ made' = made
  <2>1. LocalTypes' /\ Others(r) /\ pc'[r] = "refused"
    BY <1>7, <1>9 DEF TInv, TypeOK, LocalTypes, Others
  <2>2. TInv'
    BY <1>1, <1>6, <1>7, <1>9, <2>1, Past, GoesType DEF WithClients
  <2> QED BY <1>7, <2>1, <2>2
<1> QED BY <1>8, <1>9 DEF CreateKey, Go

\* A DID is published and becomes the profile's, or the method is not known.
LEMMA PublishDIDType ==
    ASSUME TInv, NEW r \in Replicas, PublishDID(r)
    PROVE  /\ TInv' /\ Others(r)
           /\ \/ pc'[r] = "refused" /\ published' = published /\ dids' = dids
              \/ /\ pc'[r] = pc[r] /\ at'[r] = at[r] + 1 /\ made'[r] = 0
                 /\ published' = published \cup {NewDID(r)}
                 /\ Register(r, NewDID(r))
<1>1. pc[r] \in Readers /\ pc[r] \in Alive /\ pc[r] \notin {"configure", "keyManager"}
      /\ pc[r] \in Starting /\ NewDID(r) \in DID /\ InReader(r)
  BY CurrentType DEF PublishDID, Readers, Starting
<1>2. UNCHANGED <<params, starts, todo, failed, indexed, clients, keys, lists, issued>>
  BY DEF PublishDID
<1>3. CASE /\ published' = published \cup {NewDID(r)} /\ Register(r, NewDID(r))
           /\ NextEntry(r) /\ pc' = pc
  <2>1. /\ dids' \in [Replicas -> [Readers -> [ProfileIDs -> DID \cup {None}]]]
        /\ \A s \in Replicas \ {r} : dids'[s] = dids[s]
    BY <1>1, <1>3, RegisterType
  <2>2. SharedTypes'
    BY <1>1, <1>2, <1>3, TypesKept DEF SharedTypes
  <2>3. at[r] + 1 \in Nat /\ 1 <= at[r] + 1
    BY <1>1, Past
  <2>4. at' = [at EXCEPT ![r] = @ + 1] /\ made' = [made EXCEPT ![r] = 0]
    BY <1>3 DEF NextEntry
  <2>5. LocalTypes' /\ Others(r) /\ at'[r] = at[r] + 1 /\ made'[r] = 0
    BY <1>2, <1>3, <2>1, <2>3, <2>4 DEF TInv, TypeOK, LocalTypes, Others
  <2>6. TInv'
    BY <1>1, <1>2, <1>3, <2>2, <2>3, <2>5, Past, GoesType
  <2> QED BY <1>3, <2>5, <2>6
<1>4. CASE pc' = [pc EXCEPT ![r] = "refused"] /\ UNCHANGED <<published, dids, at, made>>
  <2>1. SharedTypes'
    BY <1>2, <1>4, TypesKept DEF SharedTypes
  <2>2. LocalTypes' /\ Others(r) /\ pc'[r] = "refused"
    BY <1>2, <1>4 DEF TInv, TypeOK, LocalTypes, Others
  <2>3. TInv'
    BY <1>1, <1>2, <1>4, <2>1, <2>2, Past, GoesType DEF WithClients
  <2> QED BY <1>4, <2>2, <2>3
<1> QED BY <1>3, <1>4 DEF PublishDID, Go

\* A list is through.
LEMMA EndReaderType ==
    ASSUME TInv, NEW r \in Replicas, EndReader(r)
    PROVE  /\ TInv' /\ Others(r) /\ at'[r] = 1
           /\ pc'[r] = IF pc[r] = "issuers" THEN "txIndex" ELSE "nonceIndex"
<1>1. pc[r] \in Readers /\ pc[r] \in Alive /\ pc[r] \notin {"configure", "keyManager"}
  BY DEF EndReader, Readers, Alive, Starting
<1> DEFINE l == IF pc[r] = "issuers" THEN "txIndex" ELSE "nonceIndex"
<1>2. l \in Starting /\ l # "configure" /\ l # "keyManager" /\ l # "refused"
      /\ (l \in WithClients => pc[r] \in WithClients)
  BY <1>1 DEF Readers, Starting, WithClients
<1>3. SharedTypes' /\ UNCHANGED <<params, starts, failed, made, todo, dids>>
      /\ pc' = [pc EXCEPT ![r] = l] /\ at' = [at EXCEPT ![r] = 1]
  BY TypesKept DEF EndReader, Go
<1> HIDE DEF l
<1>4. LocalTypes' /\ Others(r) /\ pc'[r] = l /\ at'[r] = 1
  BY <1>2, <1>3 DEF TInv, TypeOK, LocalTypes, Others
<1>5. TInv'
  BY <1>1, <1>2, <1>3, <1>4, Past, GoesType
<1> QED BY <1>4, <1>5 DEF l

\* A process begins.
LEMMA StartType ==
    ASSUME TInv, NEW r \in Replicas, Start(r)
    PROVE  /\ TInv' /\ Others(r) /\ pc'[r] \in {"configure", "refused"}
           /\ at'[r] = 1 /\ dids'[r] = NoDIDs
<1>1. PICK q \in ParamSets[r] :
          /\ params' = [params EXCEPT ![r] = q]
          /\ pc' = [pc EXCEPT ![r] = IF getStartupParameters(q) THEN "configure"
                                                               ELSE "refused"]
  BY DEF Start, Go
<1>2. q \in Params
  BY StartAssumption
<1>3. NoDIDs \in [Readers -> [ProfileIDs -> DID \cup {None}]]
  BY DEF NoDIDs
<1>4. starts[r] + 1 \in Nat
  BY DEF TInv, TypeOK
<1>5. LocalTypes' /\ Others(r) /\ at'[r] = 1 /\ dids'[r] = NoDIDs
  BY <1>1, <1>2, <1>3, <1>4 DEF Start, TInv, TypeOK, LocalTypes, Others, Starting
<1>6. SharedTypes'
  BY TypesKept DEF Start, SharedTypes
<1>7. params'[r] = q /\ pc'[r] = IF getStartupParameters(q) THEN "configure" ELSE "refused"
  BY <1>1 DEF TInv, TypeOK
<1>8. pc'[r] = "configure" => getStartupParameters(params[r])'
  BY <1>7 DEF getStartupParameters, getPrometheusMetricsProviderParams, getMode,
     getTLS, getDBParameters, getKMSParameters, getDevMode, ParseBool
<1>9. Checked(r)'
  BY <1>5, <1>7, <1>8 DEF Checked, Alive, Starting, WithClients
<1> QED BY <1>5, <1>6, <1>7, <1>9, StepType

\* A step that only takes r to the next place, or to its end.
LEMMA MovesOnType ==
    ASSUME TInv, NEW r \in Replicas, pc[r] \in Alive,
           NEW l \in {"refused", "off", "serving"} \cup Starting, Moves(r, l),
           failed' \in [Replicas -> BOOLEAN], SharedTypes', l # "configure",
           l \notin {"refused", "off"} => prepareConfiguration(params[r]),
           l \notin {"refused", "off", "keyManager"} => params[r].issuers # None,
           l \in WithClients => params[r].clients # None
    PROVE  TInv' /\ Others(r) /\ pc'[r] = l
BY Past, MovesType DEF Alive, Starting

\* The steps that only check something.
LEMMA CheckTypes ==
    ASSUME TInv, NEW r \in Replicas,
           Configure(r) \/ NewKeyManager(r) \/ RefuseEntry(r)
    PROVE  /\ TInv' /\ Others(r) /\ pc'[r] \in {"keyManager", "issuers", "refused"}
           /\ at'[r] = at[r]
           /\ pc'[r] = "issuers" => pc[r] = "keyManager"
<1>1. failed' \in [Replicas -> BOOLEAN] /\ SharedTypes'
  BY TypesKept DEF Configure, NewKeyManager, RefuseEntry, TInv, TypeOK
<1>2. CASE Configure(r)
  <2> DEFINE l == IF prepareConfiguration(params[r]) THEN "keyManager" ELSE "refused"
  <2>1. pc[r] \in Alive /\ Moves(r, l) /\ l \in {"refused"} \cup Starting
        /\ l \notin WithClients /\ l # "configure"
    BY <1>2 DEF Configure, Moves, Alive, Starting, WithClients
  <2>2. TInv' /\ Others(r) /\ pc'[r] = l
    BY <1>1, <2>1, MovesOnType
  <2> QED BY <1>2, <2>2 DEF Configure
<1>3. CASE NewKeyManager(r)
  <2> DEFINE l == IF NewAriesKeyManager(params[r]) /\ params[r].issuers # None
                    THEN "issuers" ELSE "refused"
  <2>1. pc[r] \in Alive /\ Moves(r, l) /\ l \in {"refused"} \cup Starting
        /\ l \notin WithClients /\ l # "configure"
    BY <1>3 DEF NewKeyManager, Moves, Alive, Starting, WithClients
  <2>2. prepareConfiguration(params[r])
    BY <1>3, <2>1, Past DEF NewKeyManager
  <2>3. TInv' /\ Others(r) /\ pc'[r] = l
    BY <1>1, <2>1, <2>2, MovesOnType
  <2> QED BY <1>3, <2>3 DEF NewKeyManager
<1>4. CASE RefuseEntry(r)
  <2>1. pc[r] \in Alive /\ Moves(r, "refused")
    BY <1>4, CurrentType DEF RefuseEntry, Moves
  <2>2. TInv' /\ Others(r) /\ pc'[r] = "refused"
    BY <1>1, <2>1, MovesOnType DEF WithClients
  <2> QED BY <1>4, <2>2 DEF RefuseEntry
<1> QED BY <1>2, <1>3, <1>4

\* A call fails or the process ends.
LEMMA EndType ==
    ASSUME TInv, NEW r \in Replicas, Fail(r) \/ Crash(r)
    PROVE  TInv' /\ Others(r) /\ pc'[r] \in {"refused", "off"}
<1>1. failed' \in [Replicas -> BOOLEAN] /\ SharedTypes' /\ pc[r] \in Alive
  BY TypesKept DEF Fail, Crash, TInv, TypeOK, Alive
<1>2. Moves(r, "refused") \/ Moves(r, "off")
  BY DEF Fail, Crash, Moves
<1> QED BY <1>1, <1>2, MovesOnType DEF WithClients

\* The indexes of a collection.
LEMMA IndexType ==
    ASSUME TInv, NEW c \in Collections, CreateIndexes(c)
    PROVE  SharedTypes'
BY TypesKept DEF CreateIndexes, SharedTypes

\* The stores' indexes are made one after the other.
LEMMA StoreTypes ==
    ASSUME TInv, NEW r \in Replicas,
           NewTransactionStore(r) \/ NewStateStore(r) \/ Migrate(r) \/ NewNonceStore(r)
    PROVE  TInv' /\ Others(r) /\ at'[r] = at[r]
<1> USE DEF Collections, OAuthCollections
<1>1. SharedTypes' /\ failed' = failed
  BY IndexType DEF NewTransactionStore, NewStateStore, Migrate, NewNonceStore, TInv, TypeOK
<1>2. pc[r] \in Alive /\ pc[r] \notin {"configure", "keyManager"}
  BY DEF NewTransactionStore, NewStateStore, Migrate, NewNonceStore, Alive, Starting
<1>3. CASE NewTransactionStore(r)
  <2>1. Moves(r, "stateIndex") /\ "stateIndex" \notin WithClients
    BY <1>3 DEF NewTransactionStore, Moves, WithClients
  <2>2. TInv' /\ Others(r)
    BY <1>1, <1>2, <2>1, Past, MovesOnType DEF Starting, TInv, TypeOK
  <2> QED BY <2>1, <2>2 DEF Moves
<1>4. CASE NewNonceStore(r)
  <2>1. Moves(r, "serving") /\ pc[r] \in WithClients
    BY <1>4 DEF NewNonceStore, Moves, WithClients
  <2>2. TInv' /\ Others(r)
    BY <1>1, <1>2, <2>1, Past, MovesOnType DEF TInv, TypeOK
  <2> QED BY <2>1, <2>2 DEF Moves
<1>5. CASE NewStateStore(r) \/ Migrate(r)
  <2>1. /\ LocalTypes' /\ Others(r) /\ at' = at /\ params' = params
        /\ pc'[r] \in {"refused", "migrate", "insert"}
        /\ pc'[r] # "refused" => params[r].clients # None
    <3>1. CASE NewStateStore(r)
      BY <3>1 DEF NewStateStore, Go, TInv, TypeOK, LocalTypes, Others, Starting
    <3>2. CASE Migrate(r)
      <4>1. params[r].clients # None
        BY <1>2, <3>2, Past DEF Migrate, WithClients
      <4>2. PICK c \in todo[r] :
                /\ todo' = [todo EXCEPT ![r] = @ \ {c}]
                /\ IF todo[r] = {c} THEN Go(r, "insert") ELSE UNCHANGED pc
        BY <3>2 DEF Migrate
      <4>3. pc' = [pc EXCEPT ![r] = "insert"] \/ pc' = pc
        BY <4>2 DEF Go
      <4>4. LocalTypes' /\ Others(r) /\ pc'[r] \in {"migrate", "insert"}
        BY <3>2, <4>2, <4>3 DEF Migrate, TInv, TypeOK, LocalTypes, Others, Starting
      <4> QED BY <3>2, <4>1, <4>4 DEF Migrate
    <3> QED BY <1>5, <3>1, <3>2
  <2>2. TInv'
    BY <1>1, <1>2, <2>1, Past, GoesType DEF Starting, WithClients
  <2> QED BY <2>1, <2>2
<1> QED BY <1>3, <1>4, <1>5

\* The loop over the clients of the file.
LEMMA ClientTypes ==
    ASSUME TInv, NEW r \in Replicas, InsertClient(r) \/ Compose(r)
    PROVE  /\ TInv' /\ Others(r)
           /\ params[r].clients \in Seq(ClientIDs)
           /\ InsertClient(r) => /\ at[r] \in DOMAIN params[r].clients
                                 /\ params[r].clients[at[r]] \in ClientIDs
                                 /\ pc'[r] = "insert" /\ at'[r] = at[r] + 1
           /\ Compose(r) => pc'[r] = "verifiers" /\ at'[r] = 1
<1>1. pc[r] = "insert" /\ pc[r] \in Alive /\ pc[r] \in WithClients
      /\ pc[r] \notin {"configure", "keyManager"}
  BY DEF InsertClient, Compose, Alive, Starting, WithClients
<1>2. params[r].clients \in Seq(ClientIDs)
  BY <1>1, FilesType
<1>3. at[r] \in Nat /\ 1 <= at[r] /\ at[r] + 1 \in Nat
  BY <1>1, Past
<1>4. CASE InsertClient(r)
  <2>1. at[r] \in DOMAIN params[r].clients
    BY <1>2, <1>3, <1>4 DEF InsertClient
  <2>2. params[r].clients[at[r]] \in ClientIDs
    BY <1>2, <2>1
  <2>3. SharedTypes'
    BY <1>4, <2>2, TypesKept DEF InsertClient, SharedTypes
  <2>4. LocalTypes' /\ Others(r) /\ pc'[r] = "insert" /\ at'[r] = at[r] + 1
    BY <1>1, <1>3, <1>4 DEF InsertClient, TInv, TypeOK, LocalTypes, Others
  <2>5. TInv'
    BY <1>1, <1>3, <1>4, <2>3, <2>4, Past, GoesType DEF Starting, InsertClient
  <2>6. ~Compose(r)
    BY <1>2, <1>3, <2>1 DEF Compose
  <2> QED BY <1>2, <2>1, <2>2, <2>4, <2>5, <2>6
<1>5. CASE Compose(r)
  <2>1. SharedTypes'
    BY <1>5, TypesKept DEF Compose
  <2>2. LocalTypes' /\ Others(r) /\ pc'[r] = "verifiers" /\ at'[r] = 1
    BY <1>5 DEF Compose, Go, TInv, TypeOK, LocalTypes, Others, Starting
  <2>3. TInv'
    BY <1>1, <1>5, <2>1, <2>2, Past, GoesType DEF Starting, Compose
  <2>4. ~InsertClient(r)
    BY <1>2, <1>3, <1>5 DEF InsertClient, Compose
  <2> QED BY <1>2, <2>2, <2>3, <2>4
<1> QED BY <1>4, <1>5

\* A replica that serves has issuer profiles, all known.
LEMMA IssuerType ==
    ASSUME TInv, NEW r \in Replicas, pc[r] = "serving", NEW p \in ProfileIDs,
           NEW e \in Issuers(r, p)
    PROVE  /\ e \in Entry /\ e.id = p
           /\ dids[r]["issuers"][p] \in DID \cup {None}
<1>1. params[r].issuers \in Seq(Entry)
  BY FilesType DEF Alive
<1>2. e \in Entry /\ e.id = p
  BY <1>1 DEF Issuers
<1> QED BY <1>2 DEF TInv, TypeOK, Readers

\* Status lists and credentials keep their types.
LEMMA ServeTypes ==
    ASSUME TInv, NEW r \in Replicas, NEW p \in ProfileIDs,
           IssueCredential(r, p) \/ UpdateVC(r, p)
    PROVE  TInv'
<1>1. pc[r] = "serving" /\ UNCHANGED local
  BY DEF IssueCredential, UpdateVC
<1>2. LocalTypes' /\ AllChecked'
  BY <1>1, TypesKept
<1>3. CASE IssueCredential(r, p)
  <2> DEFINE d == dids[r]["issuers"][p]
  <2>1. PICK e \in Issuers(r, p) :
            lists' = IF lists[p] # None THEN lists
                     ELSE [lists EXCEPT ![p] = [issuer |-> d, vm |-> d,
                                                jwt |-> e.format = "jwt"]]
    BY <1>3 DEF IssueCredential
  <2>2. d \in DID \cup {None}
    BY <1>1, IssuerType
  <2>3. issued' = issued \cup {[profile |-> p, did |-> d]}
        /\ UNCHANGED <<indexed, clients, keys, published>>
    BY <1>3 DEF IssueCredential
  <2> HIDE DEF d
  <2>4. [issuer |-> d, vm |-> d, jwt |-> e.format = "jwt"] \in StatusList
    BY <2>2 DEF StatusList
  <2>5. SharedTypes'
    BY <2>1, <2>2, <2>3, <2>4, TypesKept DEF SharedTypes, Issued
  <2> QED BY <1>2, <2>5 DEF TInv, TypeOK, LocalTypes, SharedTypes
<1>4. CASE UpdateVC(r, p)
  <2>1. PICK e \in Issuers(r, p) :
            lists' = [lists EXCEPT ![p] =
                         [issuer |-> lists[p].issuer, vm |-> Resigner(r, e),
                          jwt |-> e.format = "jwt"]]
    BY <1>4 DEF UpdateVC
  <2>2. lists[p] \in StatusList
    BY <1>4 DEF UpdateVC, TInv, TypeOK
  <2>3. Resigner(r, e) \in DID \cup {None}
    BY <1>1, <2>2, IssuerType DEF Resigner, StatusList
  <2>4. [issuer |-> lists[p].issuer, vm |-> Resigner(r, e), jwt |-> e.format = "jwt"]
            \in StatusList
    BY <2>2, <2>3 DEF StatusList
  <2>5. SharedTypes'
    BY <1>4, <2>1, <2>4, TypesKept DEF SharedTypes, UpdateVC
  <2> QED BY <1>2, <2>5 DEF TInv, TypeOK, LocalTypes, SharedTypes
<1> QED BY <1>3, <1>4

\* Every step keeps the types.
LEMMA TypeStep == TInv /\ [Next]_vars => TInv'
<1> SUFFICES ASSUME TInv, [Next]_vars PROVE TInv'
  OBVIOUS
<1>1. CASE UNCHANGED vars
  BY <1>1, TypesKept DEF vars, TInv, TypeOK, LocalTypes, SharedTypes
<1>2. ASSUME NEW r \in Replicas, StartStep(r) PROVE TInv'
  BY <1>2, CheckTypes, UseFileDIDType, CreateKeyType, PublishDIDType, EndReaderType,
     StoreTypes, ClientTypes DEF StartStep
<1>3. ASSUME NEW r \in Replicas, Start(r) \/ Fail(r) \/ Crash(r) PROVE TInv'
  BY <1>3, StartType, EndType
<1>4. ASSUME NEW r \in Replicas, NEW p \in ProfileIDs, IssueCredential(r, p) \/ UpdateVC(r, p)
      PROVE  TInv'
  BY <1>4, ServeTypes
<1> QED BY <1>1, <1>2, <1>3, <1>4 DEF Next

\* It holds at the start.
LEMMA TypeInit == Init => TInv
BY DEF Init, TInv, TypeOK, AllChecked, Checked, Alive, Starting, NoDIDs, WithClients

\* What replicas hold and what is stored keeps its type.
THEOREM StartTypeCorrectness == Spec => []TypeOK
<1>1. TInv => TypeOK
  BY DEF TInv
<1> QED BY <1>1, TypeInit, TypeStep, PTL DEF Spec

-----------------------------------------------------------------------------
(* What a start has done so far *)

\* Where the keys of a server with parameters q are, once it is configured.
KeyPlace(q) == IF q.kmsType = "local" THEN "db" ELSE q.kmsType

\* The signing key of d is where every replica looks for it.
Keyed(d) ==
    \E k \in keys :
        /\ k.did = d
        /\ k.n = 1
        /\ k.place \in {"db", "web", "aws"}
        /\ \A r \in Replicas : \A q \in ParamSets[r] : KeyPlace(q) = k.place

\* The indexes made.
IndexesMade(r) ==
    /\ pc[r] \in WithClients \cup {"stateIndex"} => "transactions" \in indexed
    /\ pc[r] \in WithClients => "states" \in indexed
    /\ pc[r] = "migrate" => OAuthCollections \ todo[r] \subseteq indexed
    /\ pc[r] \in WithClients \ {"migrate"} => OAuthCollections \subseteq indexed
    /\ pc[r] = "serving" => "nonces" \in indexed

\* The clients inserted.
ClientsIn(r) ==
    pc[r] \in WithClients \ {"migrate"} =>
        \A i \in DOMAIN params[r].clients :
            pc[r] # "insert" \/ i < at[r] => Stored(params[r].clients[i])

\* The keys made for the element of a list.
KeysMade(r) ==
    pc[r] \in Alive /\ made[r] # 0 => InReader(r) /\ Keyed(NewDID(r))

\* The DIDs of issuer profiles: the last element with an ID decides.
DIDsGiven(r) ==
    pc[r] \in Alive \ {"configure", "keyManager"} =>
        \A j \in DOMAIN params[r].issuers :
            LET Read(i) == pc[r] # "issuers" \/ i < at[r] IN
            /\ Read(j)
            /\ params[r].issuers[j].create
            /\ \A k \in DOMAIN params[r].issuers :
                  params[r].issuers[k].id = params[r].issuers[j].id /\ Read(k) => k <= j
            => dids[r]["issuers"][params[r].issuers[j].id] # None

\* A list is begun at its first element.
AtFirst(r) ==
    pc[r] \in {"configure", "keyManager", "txIndex", "stateIndex", "migrate"} => at[r] = 1

Progress(r) == /\ IndexesMade(r) /\ ClientsIn(r) /\ KeysMade(r)
               /\ DIDsGiven(r) /\ AtFirst(r)

\* A DID is published before a replica uses it, and has its keys before that.
DIDsGood ==
    /\ \A r \in Replicas : \A k \in Readers : \A p \in ProfileIDs :
          dids[r][k][p] # None => dids[r][k][p] \in published
    /\ \A d \in published : Keyed(d)
    /\ \A p \in ProfileIDs :
          lists[p] # None /\ lists[p].vm # None => lists[p].vm \in published

StartInv ==
    /\ TInv
    /\ \A r \in Replicas : Progress(r)
    /\ DIDsGood
    /\ ClientsStoredOnce

\* What is stored stays: only keys in the memory of a process are lost.
Grows ==
    /\ indexed \subseteq indexed'
    /\ clients' = clients \/ \E c \in ClientIDs : clients' = Append(clients, c)
    /\ \A k \in keys : k \in keys' \/ k.place \in Replicas

SameAt(s) ==
    /\ pc'[s] = pc[s] /\ params'[s] = params[s] /\ starts'[s] = starts[s]
    /\ at'[s] = at[s] /\ made'[s] = made[s] /\ todo'[s] = todo[s]
    /\ dids'[s] = dids[s]

\* What replicas rely on in the database and the KMS stays.
LEMMA Stays ==
    ASSUME TInv, Grows
    PROVE  /\ \A c \in ClientIDs : Stored(c) =>
                 \E i \in DOMAIN clients' : clients'[i] = c
           /\ \A d \in DID : Keyed(d) =>
                 \E k \in keys' :
                    /\ k.did = d
                    /\ k.n = 1
                    /\ k.place \in {"db", "web", "aws"}
                    /\ \A r \in Replicas : \A q \in ParamSets[r] : KeyPlace(q) = k.place
<1>1. ASSUME NEW c \in ClientIDs, Stored(c)
      PROVE  \E i \in DOMAIN clients' : clients'[i] = c
  <2>1. clients \in Seq(ClientIDs)
    BY DEF TInv, TypeOK
  <2>2. PICK i \in DOMAIN clients : clients[i] = c
    BY <1>1 DEF Stored
  <2>3. CASE \E x \in ClientIDs : clients' = Append(clients, x)
    BY <2>1, <2>2, <2>3
  <2> QED BY <2>2, <2>3 DEF Grows
<1>2. ASSUME NEW d \in DID, Keyed(d)
      PROVE  \E k \in keys' :
                /\ k.did = d
                /\ k.n = 1
                /\ k.place \in {"db", "web", "aws"}
                /\ \A r \in Replicas : \A q \in ParamSets[r] : KeyPlace(q) = k.place
  <2>1. PICK k \in keys : /\ k.did = d
                          /\ k.n = 1
                          /\ k.place \in {"db", "web", "aws"}
                          /\ \A r \in Replicas : \A q \in ParamSets[r] : KeyPlace(q) = k.place
    BY <1>2 DEF Keyed
  <2>2. k \in keys'
    BY <2>1, NamesAssumption DEF Grows
  <2> QED BY <2>1, <2>2
<1> QED BY <1>1, <1>2

\* The clients of a replica that has read its clients file.
LEMMA ClientType ==
    ASSUME TInv, NEW r \in Replicas, pc[r] \in WithClients,
           NEW i \in DOMAIN params[r].clients
    PROVE  params[r].clients[i] \in ClientIDs
<1>1. params[r].clients \in Seq(ClientIDs)
  BY FilesType DEF WithClients, Alive, Starting
<1> QED BY <1>1

\* The next DID of a reader is that of r again.
LEMMA SameDID ==
    ASSUME TInv, NEW r \in Replicas, InReader(r), pc'[r] = pc[r],
           starts'[r] = starts[r], at'[r] = at[r]
    PROVE  NewDID(r)' = NewDID(r) /\ NewDID(r) \in DID
BY CurrentType DEF NewDID

\* What a replica did stays done while others work.
LEMMA ProgressStays ==
    ASSUME TInv, Grows, NEW s \in Replicas, Progress(s), SameAt(s)
    PROVE  Progress(s)'
<1>1. IndexesMade(s)'
  BY DEF Progress, IndexesMade, SameAt, Grows
<1>2. ClientsIn(s)'
  <2> SUFFICES ASSUME pc[s] \in WithClients \ {"migrate"},
                      NEW i \in DOMAIN params[s].clients,
                      pc[s] # "insert" \/ i < at[s]
               PROVE  \E j \in DOMAIN clients' : clients'[j] = params[s].clients[i]
    BY DEF ClientsIn, SameAt, Stored
  <2>1. Stored(params[s].clients[i])
    BY DEF Progress, ClientsIn
  <2> QED BY <2>1, ClientType, Stays
<1>3. KeysMade(s)'
  <2> SUFFICES ASSUME pc[s] \in Alive, made[s] # 0
               PROVE  InReader(s)' /\ Keyed(NewDID(s))'
    BY DEF KeysMade, SameAt
  <2>1. InReader(s) /\ Keyed(NewDID(s))
    BY DEF Progress, KeysMade
  <2>2. InReader(s)'
    BY <2>1 DEF InReader, SameAt, Entries
  <2>3. NewDID(s)' = NewDID(s) /\ NewDID(s) \in DID
    BY <2>1, SameDID DEF SameAt
  <2> QED BY <2>1, <2>2, <2>3, Stays DEF Keyed
<1>4. DIDsGiven(s)'
  BY DEF Progress, DIDsGiven, SameAt
<1>5. AtFirst(s)'
  BY DEF Progress, AtFirst, SameAt
<1> QED BY <1>1, <1>2, <1>3, <1>4, <1>5 DEF Progress

\* A replica that ended, or just began, has nothing to show.
LEMMA ProgressEnds ==
    ASSUME NEW r \in Replicas, pc'[r] \in {"off", "refused", "configure"},
           pc'[r] = "configure" => made'[r] = 0 /\ at'[r] = 1
    PROVE  Progress(r)'
BY DEF Progress, AtFirst, IndexesMade, ClientsIn, KeysMade, DIDsGiven, WithClients, Alive, Starting

\* Every step leaves what is stored.
LEMMA AlwaysGrows == TInv /\ [Next]_vars => Grows
<1> SUFFICES ASSUME TInv, [Next]_vars PROVE Grows
  OBVIOUS
<1>1. CASE indexed \subseteq indexed' /\ UNCHANGED <<clients, keys>>
  BY <1>1 DEF Grows
<1>2. ASSUME NEW r \in Replicas, InsertClient(r) PROVE Grows
  <2>1. params[r].clients[at[r]] \in ClientIDs
    BY <1>2, ClientTypes
  <2> QED BY <1>2, <2>1 DEF InsertClient, Grows
<1>3. ASSUME NEW r \in Replicas, CreateKey(r) PROVE Grows
  BY <1>3 DEF CreateKey, Grows
<1>4. ASSUME NEW r \in Replicas, Start(r) PROVE Grows
  BY <1>4 DEF Start, Grows
<1>5. ASSUME NEW r \in Replicas, StartStep(r), ~InsertClient(r), ~CreateKey(r)
      PROVE  indexed \subseteq indexed' /\ UNCHANGED <<clients, keys>>
  BY <1>5 DEF StartStep, Configure, NewKeyManager, UseFileDID, RefuseEntry, PublishDID,
     EndReader, NewTransactionStore, NewStateStore, Migrate, Compose, NewNonceStore,
     CreateIndexes, shared
<1>6. ASSUME NEW r \in Replicas, Fail(r) \/ Crash(r)
      PROVE  indexed \subseteq indexed' /\ UNCHANGED <<clients, keys>>
  BY <1>6 DEF Fail, Crash, shared
<1>7. ASSUME NEW r \in Replicas, NEW p \in ProfileIDs, IssueCredential(r, p) \/ UpdateVC(r, p)
      PROVE  indexed \subseteq indexed' /\ UNCHANGED <<clients, keys>>
  BY <1>7 DEF IssueCredential, UpdateVC
<1>8. UNCHANGED vars => indexed \subseteq indexed' /\ UNCHANGED <<clients, keys>>
  BY DEF vars, shared
<1> QED BY <1>1, <1>2, <1>3, <1>4, <1>5, <1>6, <1>7, <1>8 DEF Next

\* Where a configured replica keeps its keys.
LEMMA ConfiguredPlace ==
    ASSUME TInv, NEW r \in Replicas, pc[r] \in Alive \ {"configure"}
    PROVE  /\ PlaceOf(r) \in {"db", "web", "aws"}
           /\ \A s \in Replicas : \A q \in ParamSets[s] : KeyPlace(q) = PlaceOf(r)
<1>1. /\ params[r] \in ParamSets[r] /\ getStartupParameters(params[r])
      /\ prepareConfiguration(params[r])
  BY Past
<1>2. params[r].kmsType \in {"local", "web", "aws"} /\ params[r].dbType = "mongodb"
  BY <1>1 DEF getStartupParameters, getKMSParameters, prepareConfiguration,
     createEdgeStoreProvider
<1>3. PlaceOf(r) = KeyPlace(params[r])
  BY <1>2 DEF PlaceOf, KeyPlace
<1>4. \A s \in Replicas : \A q \in ParamSets[s] : q.kmsType = params[r].kmsType
  BY <1>1, SameKMSAssumption
<1> QED BY <1>2, <1>3, <1>4 DEF KeyPlace

\* Outside the lists there is no key half-way.
LEMMA NoKeys ==
    ASSUME TInv, NEW r \in Replicas, Progress(r), pc[r] \in Alive, ~InReader(r)
    PROVE  made[r] = 0
BY DEF Progress, KeysMade

\* The start goes on outside the lists, with the DIDs it has.
LEMMA ProgressGoes ==
    ASSUME TInv, NEW r \in Replicas, Progress(r), pc[r] \in Alive, ~InReader(r),
           made'[r] = made[r], dids'[r] = dids[r], params'[r] = params[r],
           IndexesMade(r)', ClientsIn(r)', AtFirst(r)',
           pc'[r] # "issuers",
           pc[r] \notin {"configure", "keyManager"}
    PROVE  Progress(r)'
<1>1. KeysMade(r)'
  BY NoKeys DEF KeysMade
<1>2. DIDsGiven(r)'
  <2>1. CASE pc[r] # "issuers"
    BY <2>1 DEF Progress, DIDsGiven
  <2>2. CASE pc[r] = "issuers"
    <3>1. params[r].issuers \in Seq(Entry) /\ at[r] \in Nat
      BY <2>2, FilesType, Past
    <3>2. Len(params[r].issuers) < at[r]
      BY <2>2, <3>1 DEF InReader, Readers, Entries
    <3>3. \A i \in DOMAIN params[r].issuers : i < at[r]
      BY <3>1, <3>2
    <3> QED BY <2>2, <3>3 DEF Progress, DIDsGiven
  <2> QED BY <2>1, <2>2
<1> QED BY <1>1, <1>2 DEF Progress

\* Configuration and key manager.
LEMMA CheckProgress ==
    ASSUME TInv, NEW r \in Replicas, Progress(r),
           Configure(r) \/ NewKeyManager(r) \/ RefuseEntry(r)
    PROVE  Progress(r)'
<1>1. pc'[r] \in {"keyManager", "issuers", "refused"} /\ at'[r] = at[r]
  BY CheckTypes
<1>2. CASE pc'[r] = "refused"
  BY <1>2, ProgressEnds
<1>3. CASE pc'[r] # "refused"
  <2>1. pc[r] \in {"configure", "keyManager"} /\ made'[r] = made[r]
    <3>1. CASE RefuseEntry(r)
      <4>1. pc' = [pc EXCEPT ![r] = "refused"]
        BY <3>1 DEF RefuseEntry, Go
      <4> QED BY <1>3, <4>1 DEF TInv, TypeOK
    <3> QED BY <3>1 DEF Configure, NewKeyManager
  <2>2. at[r] = 1 /\ made[r] = 0
    BY <2>1, NoKeys DEF Progress, AtFirst, InReader, Readers, Alive, Starting
  <2>3. DIDsGiven(r)'
    <3>1. CASE pc'[r] = "keyManager"
      BY <3>1 DEF DIDsGiven
    <3>2. CASE pc'[r] = "issuers"
      <4>1. params' = params /\ pc[r] = "keyManager"
        BY <3>2, CheckTypes DEF Configure, NewKeyManager, RefuseEntry
      <4>2. params[r].issuers \in Seq(Entry)
        <5>1. params'[r].issuers \in Seq(Entry) \cup {None}
          BY <4>1, FilesType, ParamFields DEF Alive, Starting
        <5>2. params[r].issuers # None
          <6>1. pc' = [pc EXCEPT ![r] = "issuers"] \/ params[r].issuers # None
            BY <3>2, <4>1 DEF Configure, NewKeyManager, RefuseEntry, Go, TInv, TypeOK
          <6>2. NewKeyManager(r)
            BY <4>1, <3>2 DEF Configure, RefuseEntry, InReader, Readers
          <6> QED BY <3>2, <6>2 DEF NewKeyManager, Go, TInv, TypeOK
        <5> QED BY <4>1, <5>1, <5>2
      <4>3. \A i \in DOMAIN params[r].issuers : ~(i < 1)
        BY <4>2
      <4> QED BY <1>1, <2>2, <3>2, <4>1, <4>3 DEF DIDsGiven
    <3> QED BY <1>1, <1>3, <3>1, <3>2
  <2> QED BY <1>1, <1>3, <2>1, <2>2, <2>3 DEF Progress, IndexesMade, ClientsIn, KeysMade,
     AtFirst, WithClients
<1> QED BY <1>2, <1>3

\* The indexes of the stores.
LEMMA StoreProgress ==
    ASSUME TInv, NEW r \in Replicas, Progress(r),
           NewTransactionStore(r) \/ NewStateStore(r) \/ Migrate(r) \/ NewNonceStore(r)
    PROVE  Progress(r)'
<1>1. /\ pc[r] \in {"txIndex", "stateIndex", "migrate", "nonceIndex"}
      /\ UNCHANGED <<params, at, made, dids, clients>>
  BY DEF NewTransactionStore, NewStateStore, Migrate, NewNonceStore, CreateIndexes
<1>2. pc[r] \in Alive /\ ~InReader(r) /\ pc[r] \notin {"configure", "keyManager"}
  BY <1>1 DEF InReader, Readers, Alive, Starting
<1>3. pc \in [Replicas -> {"off", "refused", "serving"} \cup Starting]
      /\ todo \in [Replicas -> SUBSET OAuthCollections]
  BY DEF TInv, TypeOK
<1>4. CASE NewTransactionStore(r)
  <2>1. pc'[r] = "stateIndex" /\ "transactions" \in indexed'
    BY <1>3, <1>4 DEF NewTransactionStore, Go, CreateIndexes
  <2>2. IndexesMade(r)' /\ ClientsIn(r)' /\ AtFirst(r)'
    BY <1>1, <1>4, <2>1 DEF IndexesMade, ClientsIn, AtFirst, WithClients, Progress,
       NewTransactionStore
  <2> QED BY <1>1, <1>2, <2>1, <2>2, ProgressGoes
<1>5. CASE NewStateStore(r)
  <2>1. /\ pc'[r] \in {"migrate", "refused"} /\ indexed' = indexed \cup {"states"}
        /\ todo'[r] = OAuthCollections
    BY <1>3, <1>5 DEF NewStateStore, Go, CreateIndexes
  <2>2. "transactions" \in indexed
    BY <1>5 DEF Progress, IndexesMade, NewStateStore
  <2>3. IndexesMade(r)' /\ ClientsIn(r)' /\ AtFirst(r)'
    BY <1>1, <1>5, <2>1, <2>2 DEF IndexesMade, ClientsIn, AtFirst, WithClients, Progress,
       NewStateStore
  <2> QED BY <1>1, <1>2, <2>1, <2>3, ProgressGoes
<1>6. CASE Migrate(r)
  <2>1. PICK c \in todo[r] :
            /\ indexed' = indexed \cup {c}
            /\ todo' = [todo EXCEPT ![r] = @ \ {c}]
            /\ IF todo[r] = {c} THEN Go(r, "insert") ELSE UNCHANGED pc
    BY <1>6 DEF Migrate, CreateIndexes
  <2>2. todo'[r] = todo[r] \ {c}
    BY <1>3, <2>1
  <2>3. /\ pc[r] = "migrate" /\ at[r] = 1
        /\ "transactions" \in indexed /\ "states" \in indexed
        /\ OAuthCollections \ todo[r] \subseteq indexed
    BY <1>6 DEF Progress, IndexesMade, AtFirst, Migrate, WithClients
  <2>4. OAuthCollections \ todo'[r] \subseteq indexed'
    BY <2>1, <2>2, <2>3
  <2>5. pc'[r] = "migrate" \/ (pc'[r] = "insert" /\ todo'[r] = {})
    BY <1>3, <2>1, <2>2, <2>3 DEF Go
  <2>6. IndexesMade(r)'
    BY <2>1, <2>3, <2>4, <2>5 DEF IndexesMade
  <2>7. ClientsIn(r)'
    <3>1. params[r].clients \in Seq(ClientIDs)
      BY <1>2, <2>3, FilesType DEF WithClients
    <3>2. \A i \in DOMAIN params[r].clients : ~(i < 1)
      BY <3>1
    <3> QED BY <1>1, <2>3, <2>5, <3>2 DEF ClientsIn, WithClients
  <2>8. AtFirst(r)'
    BY <1>1, <2>3, <2>5 DEF AtFirst
  <2> QED BY <1>1, <1>2, <2>5, <2>6, <2>7, <2>8, ProgressGoes
<1>7. CASE NewNonceStore(r)
  <2>1. pc'[r] = "serving" /\ indexed' = indexed \cup {"nonces"} /\ pc[r] = "nonceIndex"
    BY <1>3, <1>7 DEF NewNonceStore, Go, CreateIndexes
  <2>2. IndexesMade(r)' /\ AtFirst(r)'
    BY <2>1 DEF IndexesMade, AtFirst, WithClients, Progress
  <2>3. ClientsIn(r)'
    BY <1>1, <2>1 DEF ClientsIn, WithClients, Progress, Stored
  <2> QED BY <1>1, <1>2, <2>1, <2>2, <2>3, ProgressGoes
<1> QED BY <1>4, <1>5, <1>6, <1>7

\* The clients of the file.
LEMMA ClientProgress ==
    ASSUME TInv, NEW r \in Replicas, Progress(r), InsertClient(r) \/ Compose(r)
    PROVE  Progress(r)'
<1>1. /\ pc[r] = "insert" /\ UNCHANGED <<params, made, todo, dids, indexed>>
  BY DEF InsertClient, Compose, shared
<1>2. pc[r] \in Alive /\ ~InReader(r) /\ pc[r] \notin {"configure", "keyManager"}
  BY <1>1 DEF InReader, Readers, Alive, Starting
<1>3. pc'[r] \in {"insert", "verifiers"} /\ params[r].clients \in Seq(ClientIDs)
  BY ClientTypes
<1>4. at[r] \in Nat /\ clients \in Seq(ClientIDs)
  BY DEF TInv, TypeOK
<1>5. \A i \in DOMAIN params[r].clients : i < at[r] => Stored(params[r].clients[i])
  BY <1>1 DEF Progress, ClientsIn, WithClients
<1>6. IndexesMade(r)' /\ AtFirst(r)'
  BY <1>1, <1>3 DEF IndexesMade, AtFirst, WithClients, Progress
<1>7. ClientsIn(r)'
  <2>1. CASE InsertClient(r)
    <3> DEFINE x == params[r].clients[at[r]]
    <3>1. x \in ClientIDs /\ pc'[r] = "insert" /\ at'[r] = at[r] + 1
      BY <2>1, ClientTypes
    <3>2. clients' = IF Duplicate(x) THEN clients ELSE Append(clients, x)
      BY <2>1 DEF InsertClient
    <3> HIDE DEF x
    <3>3. Grows
      BY <1>1, <2>1, <3>1, <3>2 DEF Grows, InsertClient
    <3>4. \E i \in DOMAIN clients' : clients'[i] = x
      <4>1. CASE Duplicate(x)
        BY <3>2, <4>1 DEF Duplicate, Stored
      <4>2. CASE ~Duplicate(x)
        BY <1>4, <3>1, <3>2, <4>2
      <4> QED BY <4>1, <4>2
    <3>5. ASSUME NEW i \in DOMAIN params[r].clients, i < at[r] + 1
          PROVE  \E j \in DOMAIN clients' : clients'[j] = params[r].clients[i]
      <4>1. CASE i = at[r]
        BY <3>4, <4>1 DEF x
      <4>2. CASE i # at[r]
        <5>1. i < at[r] /\ params[r].clients[i] \in ClientIDs
          BY <1>3, <1>4, <3>5, <4>2
        <5> QED BY <1>5, <3>3, <5>1, Stays
      <4> QED BY <4>1, <4>2
    <3> QED BY <1>1, <3>1, <3>5 DEF ClientsIn, Stored
  <2>2. CASE Compose(r)
    <3>1. Len(params[r].clients) < at[r] /\ clients' = clients
      BY <1>3, <1>4, <2>2 DEF Compose, shared
    <3>2. \A i \in DOMAIN params[r].clients : Stored(params[r].clients[i])
      BY <1>3, <1>4, <1>5, <3>1
    <3> QED BY <1>1, <3>1, <3>2 DEF ClientsIn, Stored
  <2> QED BY <2>1, <2>2
<1> QED BY <1>1, <1>2, <1>3, <1>6, <1>7, ProgressGoes

\* The end of a list.
LEMMA EndProgress ==
    ASSUME TInv, NEW r \in Replicas, Progress(r), EndReader(r)
    PROVE  Progress(r)'
<1>1. /\ pc[r] \in Readers /\ at[r] > Len(Entries(r))
      /\ UNCHANGED <<params, made, todo, dids, indexed, clients>>
  BY DEF EndReader, shared
<1>2. pc[r] \in Alive /\ pc[r] \notin {"configure", "keyManager"}
  BY <1>1 DEF Readers, Alive, Starting
<1>3. Entries(r) \in Seq(Entry) /\ at[r] \in Nat
  BY <1>1, <1>2, FilesType, Past DEF Entries
<1>4. ~InReader(r)
  BY <1>1, <1>3 DEF InReader
<1>5. at'[r] = 1 /\ pc'[r] = IF pc[r] = "issuers" THEN "txIndex" ELSE "nonceIndex"
  BY EndReaderType
<1>6. IndexesMade(r)' /\ AtFirst(r)'
  BY <1>1, <1>5 DEF IndexesMade, AtFirst, Readers, WithClients, Progress
<1>7. ClientsIn(r)'
  BY <1>1, <1>5 DEF ClientsIn, Readers, WithClients, Progress, Stored
<1> QED BY <1>1, <1>2, <1>4, <1>5, <1>6, <1>7, ProgressGoes

\* The elements of a profiles file.
LEMMA EntryFields ==
    ASSUME NEW s \in Seq(Entry), NEW j \in DOMAIN s
    PROVE  j \in Nat /\ s[j] \in Entry /\ s[j].id \in ProfileIDs
<1>1. j \in Nat /\ s[j] \in Entry
  OBVIOUS
<1> QED BY <1>1 DEF Entry

\* The reader goes on to the next element: the DID of the profile is given.
LEMMA ReadProgress ==
    ASSUME TInv, NEW r \in Replicas, Progress(r), InReader(r),
           NEW d \in DID \cup {None}, Register(r, d), CreatesDID(r) => d # None,
           pc'[r] = pc[r], params'[r] = params[r], at'[r] = at[r] + 1, made'[r] = 0,
           indexed' = indexed, clients' = clients
    PROVE  Progress(r)'
<1>1. pc[r] \in Readers /\ pc[r] \in Alive /\ pc[r] \notin {"configure", "keyManager"}
      /\ at[r] \in Nat /\ Current(r).id \in ProfileIDs
  BY CurrentType, Past
<1>2. IndexesMade(r)' /\ KeysMade(r)' /\ AtFirst(r)'
  BY <1>1 DEF IndexesMade, KeysMade, AtFirst, Readers, Progress
<1>3. ClientsIn(r)'
  BY <1>1 DEF ClientsIn, Readers, Progress, Stored
<1>4. CASE pc[r] = "verifiers"
  <2>1. params[r].issuers \in Seq(Entry)
    BY <1>1, FilesType
  <2>2. \A j \in DOMAIN params[r].issuers : params[r].issuers[j].id \in ProfileIDs
    BY <2>1, EntryFields
  <2>3. \A p \in ProfileIDs : dids'[r]["issuers"][p] = dids[r]["issuers"][p]
    BY <1>4, RegisterType DEF Readers
  <2>4. DIDsGiven(r)'
    BY <1>1, <1>4, <2>2, <2>3 DEF DIDsGiven, Progress
  <2> QED BY <1>2, <1>3, <2>4 DEF Progress
<1>5. CASE pc[r] = "issuers"
  <2> DEFINE E == params[r].issuers
             a == at[r]
  <2>1. E \in Seq(Entry) /\ a \in DOMAIN E /\ Current(r) = E[a]
    BY <1>5, CurrentType DEF Entries, Current
  <2>2. \A j \in DOMAIN E : j \in Nat /\ E[j].id \in ProfileIDs
    BY <2>1, EntryFields
  <2>3. E[a].create => d # None
    BY <1>5, <2>1 DEF CreatesDID
  <2>4. dids'[r]["issuers"][E[a].id] = d
    BY <1>5, <2>1, RegisterType
  <2>5. \A p \in ProfileIDs : p # E[a].id => dids'[r]["issuers"][p] = dids[r]["issuers"][p]
    BY <1>5, <2>1, RegisterType DEF Readers
  <2>6. \A j \in DOMAIN E :
            /\ j < a
            /\ E[j].create
            /\ \A k \in DOMAIN E : E[k].id = E[j].id /\ k < a => k <= j
            => dids[r]["issuers"][E[j].id] # None
    BY <1>5, <1>1 DEF DIDsGiven, Progress
  <2> HIDE DEF E, a
  <2>7. ASSUME NEW j \in DOMAIN E, j < a + 1, E[j].create,
               \A k \in DOMAIN E : E[k].id = E[j].id /\ k < a + 1 => k <= j
        PROVE  dids'[r]["issuers"][E[j].id] # None
    <3>1. a \in Nat /\ j \in Nat
      BY <1>1, <2>2 DEF a
    <3>2. CASE j = a
      BY <2>3, <2>4, <2>7, <3>2
    <3>3. CASE j # a
      <4>1. j < a /\ E[j].id # E[a].id
        BY <2>1, <2>7, <3>1, <3>3
      <4>2. \A k \in DOMAIN E : E[k].id = E[j].id /\ k < a => k <= j
        BY <2>2, <2>7, <3>1
      <4> QED BY <2>2, <2>5, <2>6, <2>7, <4>1, <4>2
    <3> QED BY <3>2, <3>3
  <2>8. DIDsGiven(r)'
    BY <1>5, <2>7 DEF DIDsGiven, E, a
  <2> QED BY <1>2, <1>3, <2>8 DEF Progress
<1> QED BY <1>1, <1>4, <1>5 DEF Readers

\* Profiles that bring their DID.
LEMMA UseFileDIDProgress ==
    ASSUME TInv, NEW r \in Replicas, Progress(r), UseFileDID(r)
    PROVE  Progress(r)'
<1>1. /\ InReader(r) /\ ~CreatesDID(r) /\ Register(r, None)
      /\ UNCHANGED <<params, indexed, clients>>
  BY DEF UseFileDID, shared
<1>2. pc'[r] = pc[r] /\ at'[r] = at[r] + 1 /\ made'[r] = 0
  BY UseFileDIDType
<1> QED BY <1>1, <1>2, ReadProgress

\* The first key of a DID is its signing key, where every replica finds it.
LEMMA CreateKeyProgress ==
    ASSUME TInv, NEW r \in Replicas, Progress(r), CreateKey(r)
    PROVE  Progress(r)'
<1>1. /\ InReader(r)
      /\ keys' = keys \cup {[did |-> NewDID(r), n |-> made[r] + 1, place |-> PlaceOf(r)]}
      /\ UNCHANGED <<params, starts, todo, dids, indexed, clients>>
  BY DEF CreateKey
<1>2. /\ Others(r) /\ at'[r] = at[r]
      /\ \/ pc'[r] = "refused"
         \/ pc'[r] = pc[r] /\ made'[r] = made[r] + 1
  BY CreateKeyType
<1>3. CASE pc'[r] = "refused"
  BY <1>3, ProgressEnds
<1>4. CASE pc'[r] = pc[r] /\ made'[r] = made[r] + 1
  <2>1. pc[r] \in Readers /\ pc[r] \in Alive /\ pc[r] \notin {"configure", "keyManager"}
        /\ made[r] \in 0..5 /\ NewDID(r) \in DID
    BY <1>1, CurrentType, Past
  <2>2. Grows
    BY <1>1 DEF Grows
  <2>3. InReader(r)'
    BY <1>1, <1>2, <1>4 DEF InReader, Entries
  <2>4. NewDID(r)' = NewDID(r)
    BY <1>1, <1>2, <1>4, SameDID
  <2>5. \E k \in keys' :
            /\ k.did = NewDID(r)
            /\ k.n = 1
            /\ k.place \in {"db", "web", "aws"}
            /\ \A s \in Replicas : \A q \in ParamSets[s] : KeyPlace(q) = k.place
    <3>1. CASE made[r] = 0
      <4> DEFINE k == [did |-> NewDID(r), n |-> made[r] + 1, place |-> PlaceOf(r)]
      <4>1. k \in keys' /\ k.did = NewDID(r) /\ k.n = 1 /\ k.place = PlaceOf(r)
        BY <1>1, <3>1
      <4>2. /\ k.place \in {"db", "web", "aws"}
            /\ \A s \in Replicas : \A q \in ParamSets[s] : KeyPlace(q) = k.place
        BY <2>1, <4>1, ConfiguredPlace
      <4> HIDE DEF k
      <4> QED BY <4>1, <4>2
    <3>2. CASE made[r] # 0
      <4>1. Keyed(NewDID(r))
        BY <2>1, <3>2 DEF Progress, KeysMade
      <4> QED BY <2>1, <2>2, <4>1, Stays
    <3> QED BY <3>1, <3>2
  <2>6. KeysMade(r)'
    BY <2>3, <2>4, <2>5 DEF KeysMade, Keyed
  <2>7. IndexesMade(r)' /\ AtFirst(r)'
    BY <1>1, <1>2, <1>4 DEF IndexesMade, AtFirst, Progress
  <2>8. ClientsIn(r)' /\ DIDsGiven(r)'
    BY <1>1, <1>2, <1>4 DEF ClientsIn, DIDsGiven, Progress, Stored
  <2> QED BY <2>6, <2>7, <2>8 DEF Progress
<1> QED BY <1>2, <1>3, <1>4

\* A published DID is that of its profile.
LEMMA PublishDIDProgress ==
    ASSUME TInv, NEW r \in Replicas, Progress(r), PublishDID(r)
    PROVE  Progress(r)'
<1>1. InReader(r) /\ UNCHANGED <<params, indexed, clients>>
  BY DEF PublishDID
<1>2. \/ pc'[r] = "refused"
      \/ pc'[r] = pc[r] /\ at'[r] = at[r] + 1 /\ made'[r] = 0 /\ Register(r, NewDID(r))
  BY PublishDIDType
<1>3. NewDID(r) \in DID /\ NewDID(r) # None
  BY <1>1, CurrentType
<1> QED BY <1>1, <1>2, <1>3, ReadProgress, ProgressEnds

\* Every step of a replica that starts.
LEMMA StepProgress ==
    ASSUME TInv, NEW r \in Replicas, Progress(r), StartStep(r) \/ Start(r) \/ Fail(r) \/ Crash(r)
    PROVE  Progress(r)' /\ Others(r)
<1>1. CASE StartStep(r)
  BY <1>1, CheckProgress, UseFileDIDProgress, CreateKeyProgress, PublishDIDProgress,
     EndProgress, StoreProgress, ClientProgress, CheckTypes, UseFileDIDType, CreateKeyType,
     PublishDIDType, EndReaderType, StoreTypes, ClientTypes DEF StartStep
<1>2. CASE Start(r)
  <2>1. Others(r) /\ pc'[r] \in {"configure", "refused"} /\ at'[r] = 1
    BY <1>2, StartType
  <2>2. made'[r] = 0
    BY <1>2 DEF Start, TInv, TypeOK
  <2> QED BY <2>1, <2>2, ProgressEnds
<1>3. CASE Fail(r) \/ Crash(r)
  <2>1. Others(r) /\ pc'[r] \in {"refused", "off"}
    BY <1>3, EndType
  <2> QED BY <2>1, ProgressEnds
<1> QED BY <1>1, <1>2, <1>3

\* What replicas have done stays done, and they go on from there.
LEMMA AllProgress ==
    ASSUME TInv, [Next]_vars, \A s \in Replicas : Progress(s)
    PROVE  \A s \in Replicas : Progress(s)'
<1> SUFFICES ASSUME NEW s \in Replicas PROVE Progress(s)'
  OBVIOUS
<1>1. Grows
  BY AlwaysGrows
<1>2. ASSUME NEW r \in Replicas, StartStep(r) \/ Start(r) \/ Fail(r) \/ Crash(r)
      PROVE  Progress(s)'
  <2>1. Progress(r)' /\ Others(r)
    BY <1>2, StepProgress
  <2>2. s # r => SameAt(s)
    BY <2>1 DEF Others, SameAt
  <2> QED BY <1>1, <2>1, <2>2, ProgressStays
<1>3. CASE UNCHANGED local
  <2>1. SameAt(s)
    BY <1>3 DEF SameAt, local
  <2> QED BY <1>1, <2>1, ProgressStays
<1>4. ASSUME NEW r \in Replicas, NEW p \in ProfileIDs, IssueCredential(r, p) \/ UpdateVC(r, p)
      PROVE  UNCHANGED local
  BY <1>4 DEF IssueCredential, UpdateVC
<1> QED BY <1>2, <1>3, <1>4 DEF Next, vars

-----------------------------------------------------------------------------
(* The DIDs and the clients *)

\* Good DIDs stay good when only good ones are added.
LEMMA GoodStays ==
    ASSUME TInv, Grows, DIDsGood, published \subseteq published', published' \subseteq DID,
           \A d \in published' \ published : Keyed(d),
           \A r \in Replicas : \A k \in Readers : \A p \in ProfileIDs :
              dids'[r][k][p] \in {None, dids[r][k][p]} \cup published',
           \A p \in ProfileIDs :
              lists'[p] = lists[p] \/ lists'[p].vm \in {None} \cup published'
    PROVE  DIDsGood'
<1>1. \A r \in Replicas : \A k \in Readers : \A p \in ProfileIDs :
          dids'[r][k][p] # None => dids'[r][k][p] \in published'
  BY DEF DIDsGood
<1>2. \A d \in published' : Keyed(d)'
  <2> SUFFICES ASSUME NEW d \in published' PROVE Keyed(d)'
    OBVIOUS
  <2>1. Keyed(d) /\ d \in DID
    BY DEF DIDsGood
  <2> QED BY <2>1, Stays DEF Keyed
<1>3. \A p \in ProfileIDs :
          lists'[p] # None /\ lists'[p].vm # None => lists'[p].vm \in published'
  BY DEF DIDsGood
<1> QED BY <1>1, <1>2, <1>3 DEF DIDsGood

\* A DID is put into use only when it is published and has its keys.
LEMMA DIDsStep ==
    ASSUME TInv, \A r \in Replicas : Progress(r), DIDsGood, [Next]_vars
    PROVE  DIDsGood'
<1>1. Grows /\ published' \subseteq DID /\ published \subseteq DID
  BY AlwaysGrows, TypeStep DEF TInv, TypeOK
<1>2. CASE UNCHANGED <<dids, published, lists>>
  BY <1>1, <1>2, GoodStays
<1>3. ASSUME NEW r \in Replicas, StartStep(r), ~UseFileDID(r), ~PublishDID(r)
      PROVE  UNCHANGED <<dids, published, lists>>
  BY <1>3 DEF StartStep, Configure, NewKeyManager, RefuseEntry, CreateKey, EndReader,
     NewTransactionStore, NewStateStore, Migrate, InsertClient, Compose, NewNonceStore,
     CreateIndexes, shared
<1>4. ASSUME NEW r \in Replicas, UseFileDID(r) \/ PublishDID(r) PROVE DIDsGood'
  <2>1. InReader(r) /\ lists' = lists
    BY <1>4 DEF UseFileDID, PublishDID, shared
  <2>2. NewDID(r) \in DID
    BY <2>1, CurrentType
  <2>3. CASE UseFileDID(r)
    <3>1. Register(r, None) /\ published' = published
      BY <2>3 DEF UseFileDID, shared
    <3>2. \A s \in Replicas : \A k \in Readers : \A p \in ProfileIDs :
              dids'[s][k][p] \in {None, dids[s][k][p]}
      BY <2>1, <3>1, RegisterType
    <3> QED BY <1>1, <2>1, <3>1, <3>2, GoodStays
  <2>4. CASE PublishDID(r)
    <3>1. CASE UNCHANGED <<dids, published>>
      BY <1>2, <2>1, <3>1
    <3>2. CASE published' = published \cup {NewDID(r)} /\ Register(r, NewDID(r))
      <4>1. \A s \in Replicas : \A k \in Readers : \A p \in ProfileIDs :
                dids'[s][k][p] \in {NewDID(r), dids[s][k][p]}
        BY <2>1, <2>2, <3>2, RegisterType
      <4>2. Keyed(NewDID(r))
        <5>1. made[r] # 0
          BY <2>4 DEF PublishDID, KeyCount, newVerMethods
        <5>2. pc[r] \in Alive
          BY <2>1, CurrentType
        <5> QED BY <5>1, <5>2 DEF Progress, KeysMade
      <4> QED BY <1>1, <2>1, <3>2, <4>1, <4>2, GoodStays
    <3> QED BY <2>4, <3>1, <3>2, PublishDIDType
  <2> QED BY <1>4, <2>3, <2>4
<1>5. ASSUME NEW r \in Replicas, Start(r) PROVE DIDsGood'
  <2>1. /\ UNCHANGED <<published, lists>> /\ Others(r) /\ dids'[r] = NoDIDs
    BY <1>5, StartType DEF Start
  <2>2. \A s \in Replicas : \A k \in Readers : \A p \in ProfileIDs :
            dids'[s][k][p] \in {None, dids[s][k][p]}
    BY <2>1 DEF Others, NoDIDs
  <2> QED BY <1>1, <2>1, <2>2, GoodStays
<1>6. ASSUME NEW r \in Replicas, Fail(r) \/ Crash(r) PROVE UNCHANGED <<dids, published, lists>>
  BY <1>6 DEF Fail, Crash, shared
<1>7. ASSUME NEW r \in Replicas, NEW p \in ProfileIDs, IssueCredential(r, p) \/ UpdateVC(r, p)
      PROVE  DIDsGood'
  <2>1. pc[r] = "serving" /\ UNCHANGED <<dids, published>>
    BY <1>7 DEF IssueCredential, UpdateVC, local
  <2> DEFINE d == dids[r]["issuers"][p]
  <2>2. d \in {None} \cup published
    BY DEF DIDsGood, Readers
  <2> HIDE DEF d
  <2>3. lists \in [ProfileIDs -> StatusList \cup {None}]
    BY DEF TInv, TypeOK
  <2>4. \A s \in ProfileIDs : lists'[s] = lists[s] \/ lists'[s].vm \in {None} \cup published
    <3>1. CASE IssueCredential(r, p)
      <4>1. PICK e \in Issuers(r, p) :
                lists' = IF lists[p] # None THEN lists
                         ELSE [lists EXCEPT ![p] = [issuer |-> d, vm |-> d,
                                                    jwt |-> e.format = "jwt"]]
        BY <3>1 DEF IssueCredential, d
      <4> QED BY <2>2, <2>3, <4>1
    <3>2. CASE UpdateVC(r, p)
      <4>1. PICK e \in Issuers(r, p) :
                lists' = [lists EXCEPT ![p] =
                             [issuer |-> lists[p].issuer, vm |-> Resigner(r, e),
                              jwt |-> e.format = "jwt"]]
        BY <3>2 DEF UpdateVC
      <4>2. e.id = p /\ lists[p] # None
        BY <2>1, <3>2, IssuerType DEF UpdateVC
      <4>3. Resigner(r, e) \in {d, lists[p].vm}
        BY <4>2 DEF Resigner, d
      <4>4. Resigner(r, e) \in {None} \cup published
        BY <2>2, <4>2, <4>3 DEF DIDsGood
      <4> QED BY <2>3, <4>1, <4>4
    <3> QED BY <1>7, <3>1, <3>2
  <2> QED BY <1>1, <2>1, <2>4, GoodStays
<1>8. UNCHANGED vars => UNCHANGED <<dids, published, lists>>
  BY DEF vars, local, shared
<1> QED BY <1>2, <1>3, <1>4, <1>5, <1>6, <1>7, <1>8 DEF Next

\* An insert finds the unique index, which refuses a client that is there.
LEMMA ClientsStep ==
    ASSUME TInv, \A r \in Replicas : Progress(r), ClientsStoredOnce, [Next]_vars
    PROVE  ClientsStoredOnce'
<1>1. CASE clients' = clients
  BY <1>1 DEF ClientsStoredOnce
<1>2. ASSUME NEW r \in Replicas, InsertClient(r) PROVE ClientsStoredOnce'
  <2> DEFINE x == params[r].clients[at[r]]
  <2>1. "clients" \in indexed
    BY <1>2 DEF InsertClient, Progress, IndexesMade, WithClients, OAuthCollections
  <2>2. clients' = IF Duplicate(x) THEN clients ELSE Append(clients, x)
    BY <1>2 DEF InsertClient
  <2>3. clients \in Seq(ClientIDs) /\ x \in ClientIDs
    BY <1>2, ClientTypes DEF TInv, TypeOK
  <2> HIDE DEF x
  <2>4. CASE ~Stored(x) /\ clients' = Append(clients, x)
    <3>1. DOMAIN clients' = 1..(Len(clients) + 1) /\ DOMAIN clients = 1..Len(clients)
          /\ Len(clients) \in Nat
      BY <2>3, <2>4
    <3>2. /\ \A i \in DOMAIN clients : clients'[i] = clients[i]
          /\ clients'[Len(clients) + 1] = x
      BY <2>3, <2>4
    <3>3. \A i \in DOMAIN clients : clients[i] # x
      BY <2>4 DEF Stored
    <3> QED BY <3>1, <3>2, <3>3 DEF ClientsStoredOnce
  <2> QED BY <1>1, <2>1, <2>2, <2>4 DEF Duplicate
<1>3. ASSUME NEW r \in Replicas, StartStep(r), ~InsertClient(r) PROVE clients' = clients
  BY <1>3 DEF StartStep, Configure, NewKeyManager, UseFileDID, RefuseEntry, CreateKey,
     PublishDID, EndReader, NewTransactionStore, NewStateStore, Migrate, Compose,
     NewNonceStore, CreateIndexes, shared
<1>4. ASSUME NEW r \in Replicas, Start(r) \/ Fail(r) \/ Crash(r) PROVE clients' = clients
  BY <1>4 DEF Start, Fail, Crash, shared
<1>5. ASSUME NEW r \in Replicas, NEW p \in ProfileIDs, IssueCredential(r, p) \/ UpdateVC(r, p)
      PROVE  clients' = clients
  BY <1>5 DEF IssueCredential, UpdateVC
<1>6. UNCHANGED vars => clients' = clients
  BY DEF vars, shared
<1> QED BY <1>1, <1>2, <1>3, <1>4, <1>5, <1>6 DEF Next

\* The invariant holds at the start.
LEMMA StartInvInit == Init => StartInv
<1> SUFFICES ASSUME Init PROVE StartInv
  OBVIOUS
<1>1. TInv
  BY TypeInit
<1>2. \A r \in Replicas : Progress(r)
  BY DEF Init, Progress, IndexesMade, ClientsIn, KeysMade, DIDsGiven, AtFirst, WithClients,
     Alive, Starting
<1>3. DIDsGood /\ ClientsStoredOnce
  BY DEF Init, DIDsGood, ClientsStoredOnce, NoDIDs
<1> QED BY <1>1, <1>2, <1>3 DEF StartInv

\* It is inductive.
LEMMA StartInvStep == StartInv /\ [Next]_vars => StartInv'
BY TypeStep, AllProgress, DIDsStep, ClientsStep DEF StartInv

\* It is an invariant of starts, failures, crashes and of serving.
LEMMA StartInvAlways == Spec => []StartInv
BY StartInvInit, StartInvStep, PTL DEF Spec

\* The signing key of a DID in use is found by every replica that serves.
LEMMA PublishedHasKey ==
    ASSUME StartInv, NEW r \in Replicas, pc[r] = "serving",
           NEW d, d # None => d \in published
    PROVE  HasKey(r, d)
<1> SUFFICES ASSUME d # None
             PROVE  \E k \in keys : k.did = d /\ k.n = 1 /\ k.place = PlaceOf(r)
  BY DEF HasKey
<1>1. PICK k \in keys : /\ k.did = d
                        /\ k.n = 1
                        /\ \A s \in Replicas : \A q \in ParamSets[s] : KeyPlace(q) = k.place
  BY DEF StartInv, DIDsGood, Keyed
<1>2. pc[r] \in Alive \ {"configure"}
  BY DEF Alive
<1>3. params[r] \in ParamSets[r]
  BY <1>2, Past DEF StartInv
<1>4. KeyPlace(params[r]) = PlaceOf(r)
  BY <1>2, <1>3, ConfiguredPlace DEF StartInv
<1> QED BY <1>1, <1>3, <1>4

\* A client is stored once, however many replicas insert the clients of their
\* files, however often, and wherever earlier starts ended.
THEOREM OnceOnly == Spec => []ClientsStoredOnce
<1>1. StartInv => ClientsStoredOnce
  BY DEF StartInv
<1> QED BY <1>1, StartInvAlways, PTL

\* A replica that serves has the indexes, its clients, and for its DIDs the
\* published documents and the keys.
THEOREM ServesWhenReady == Spec => []ServingReady
<1>1. ASSUME StartInv, NEW r \in Replicas, pc[r] = "serving"
      PROVE  /\ indexed = Collections
             /\ \A i \in DOMAIN params[r].clients : Stored(params[r].clients[i])
  <2>1. Progress(r) /\ indexed \subseteq Collections
    BY <1>1 DEF StartInv, TInv, TypeOK
  <2> QED BY <1>1, <2>1 DEF Progress, IndexesMade, ClientsIn, WithClients, Collections
<1>2. ASSUME StartInv, NEW r \in Replicas, pc[r] = "serving",
             NEW j \in DOMAIN params[r].issuers
      PROVE  LET d == dids[r]["issuers"][params[r].issuers[j].id] IN
             /\ (\E f \in Issuers(r, params[r].issuers[j].id) : f.create) => d # None
             /\ d # None => d \in published /\ HasKey(r, d)
  <2> DEFINE E == params[r].issuers
             p == E[j].id
             d == dids[r]["issuers"][p]
  <2>1. E \in Seq(Entry)
    BY <1>2, FilesType DEF Alive, StartInv
  <2>2. p \in ProfileIDs
    BY <1>2, <2>1, EntryFields
  <2>3. ASSUME NEW f \in Issuers(r, p), f.create PROVE d # None
    <3>1. PICK i \in DOMAIN E : /\ f = E[i] /\ E[i].id = p
                                /\ \A k \in DOMAIN E : E[k].id = p => k <= i
      BY <2>3 DEF Issuers
    <3>2. DIDsGiven(r)
      BY <1>2 DEF StartInv, Progress
    <3>3. DIDsGiven(r) => \A m \in DOMAIN E :
              E[m].create /\ (\A k \in DOMAIN E : E[k].id = E[m].id => k <= m)
                => dids[r]["issuers"][E[m].id] # None
      BY <1>2 DEF DIDsGiven, Alive
    <3> QED BY <2>3, <3>1, <3>2, <3>3
  <2>4. d # None => d \in published
    BY <1>2, <2>2 DEF StartInv, DIDsGood, Readers
  <2>5. HasKey(r, d)
    BY <1>2, <2>4, PublishedHasKey
  <2> QED BY <2>3, <2>4, <2>5
<1>3. StartInv => ServingReady
  BY <1>1, <1>2 DEF ServingReady
<1> QED BY <1>3, StartInvAlways, PTL

\* A replica that serves can sign every stored status list anew, whichever
\* replica made it, before whichever restart.
THEOREM RevocableAfterRestart == Spec => []ListsUpdatable
<1>1. ASSUME StartInv, NEW r \in Replicas, pc[r] = "serving", NEW p \in ProfileIDs,
             lists[p] # None, NEW e \in Issuers(r, p)
      PROVE  HasKey(r, Resigner(r, e))
  <2>1. e.id = p
    BY <1>1, IssuerType DEF StartInv
  <2>2. Resigner(r, e) \in {dids[r]["issuers"][p], lists[p].vm}
    BY <2>1 DEF Resigner
  <2>3. Resigner(r, e) # None => Resigner(r, e) \in published
    BY <1>1, <2>2 DEF StartInv, DIDsGood, Readers
  <2> QED BY <1>1, <2>3, PublishedHasKey
<1>2. StartInv => ListsUpdatable
  BY <1>1 DEF ListsUpdatable
<1> QED BY <1>2, StartInvAlways, PTL
=============================================================================
