---------------------------- MODULE FleetProofs ----------------------------
(***************************************************************************)
(* Theorems about Fleet, for any number of users, machines, requests and   *)
(* rows.                                                                   *)
(***************************************************************************)
EXTENDS Fleet, SequenceTheorems, FiniteSetTheorems, TLAPS

\* Every row of a server belongs to a provider that is there.
ProvidersThere == \A s \in Servers : servers[s].prov \in Providers

\* As long as no row was stored by half and no two requests met, the rows of
\* a provider have addresses of their own.
OwnAddresses ==
  (~nameless /\ ~raced) =>
    \A s \in Servers :
      /\ servers[s].ip # "none"
      /\ \A t \in Servers :
           (t # s /\ servers[t].prov = servers[s].prov) => servers[t].ip # servers[s].ip

\* What a request that is being worked on goes by was there when it began.
RequestFits(h) ==
  /\ op[h].creds = "good"
  /\ op[h].kind = "add" => op[h].user \in Users
  /\ op[h].kind \in {"edit", "rediscover"} => op[h].row \in Providers

-----------------------------------------------------------------------------
\* Rows are appended, one or several, and rewritten in place.
LEMMA OneMore ==
  ASSUME NEW S, NEW s \in Seq(S), NEW x \in S
  PROVE  /\ Append(s, x) \in Seq(S) /\ Len(Append(s, x)) = Len(s) + 1
         /\ \A i \in 1..Len(s) : Append(s, x)[i] = s[i]
         /\ Append(s, x)[Len(s) + 1] = x
OBVIOUS

LEMMA SomeMore ==
  ASSUME NEW S, NEW s \in Seq(S), NEW n \in Nat, NEW e \in [1..n -> S]
  PROVE  /\ (s \o e) \in Seq(S) /\ Len(s \o e) = Len(s) + n
         /\ \A i \in 1..Len(s) : (s \o e)[i] = s[i]
         /\ \A i \in (Len(s) + 1)..(Len(s) + n) : (s \o e)[i] = e[i - Len(s)]
<1>1. e \in Seq(S) /\ Len(e) = n
  OBVIOUS
<1> QED BY <1>1

LEMMA Rewritten ==
  ASSUME NEW S, NEW s \in Seq(S), NEW f \in [1..Len(s) -> S]
  PROVE  f \in Seq(S) /\ Len(f) = Len(s)
OBVIOUS

LEMMA OneRewritten ==
  ASSUME NEW S, NEW s \in Seq(S), NEW i \in 1..Len(s), NEW x \in S
  PROVE  /\ [s EXCEPT ![i] = x] \in Seq(S) /\ Len([s EXCEPT ![i] = x]) = Len(s)
         /\ \A j \in 1..Len(s) : [s EXCEPT ![i] = x][j] = IF j = i THEN x ELSE s[j]
OBVIOUS

\* As long as no two requests met: one is worked on at a time, a rediscovery
\* knows the rows there are, and a registration is the first one.
OneBusy ==
  ~raced => \A g, h \in Handlers : (op[g].kind # "none" /\ op[h].kind # "none") => g = h

KnownRows ==
  ~raced => \A h \in Handlers :
    (op[h].kind = "rediscover" /\ op[h].step = "save") => op[h].known = Rows(op[h].row)

FirstRegistration ==
  ~raced =>
    /\ \A h \in Handlers : op[h].kind = "register" => \A u \in Users : users[u] = "none"
    /\ \A u, v \in Users : (users[u] = "registered" /\ users[v] = "registered") => u = v

FInv ==
  /\ TypeOK
  /\ \A h \in Handlers : RequestFits(h)
  /\ ProvidersThere /\ NumberFitsAddress /\ OwnAddresses
  /\ OneBusy /\ KnownRows /\ FirstRegistration
  /\ BadCredsExplained
  /\ SecretKept

-----------------------------------------------------------------------------
\* What every writer does to the server rows: the old ones keep their provider
\* and are given at most the number or the address they had in the other
\* column, and the new ones have addresses that no other row of theirs has.
Grows ==
  /\ servers' \in Seq(ServerRows) /\ Len(servers') <= MaxServers
  /\ Len(servers') >= Len(servers) /\ Len(provs') >= Len(provs)
  /\ (nameless => nameless') /\ (raced => raced')
  /\ \A s \in Servers :
       /\ servers'[s].prov = servers[s].prov
       /\ \/ servers'[s].id = servers[s].id /\ servers'[s].ip = servers[s].ip
          \/ /\ servers'[s].id = servers[s].ip /\ servers'[s].ip = servers[s].ip
             /\ servers[s].ip \in Machines
          \/ /\ servers'[s].id = servers[s].id /\ servers'[s].ip = servers[s].id
             /\ servers[s].id \in Machines
  /\ \A s \in (Len(servers) + 1)..Len(servers') :
       /\ servers'[s].prov \in 1..Len(provs')
       /\ servers'[s].id \in {"address", servers'[s].ip} \/ servers'[s].ip = "none"
       /\ (~nameless' /\ ~raced') =>
            /\ servers'[s].ip # "none"
            /\ \A t \in 1..Len(servers') :
                 (t # s /\ servers'[t].prov = servers'[s].prov) => servers'[t].ip # servers'[s].ip

LEMMA GrowStep ==
  ASSUME TypeOK, ProvidersThere, NumberFitsAddress, OwnAddresses, Grows
  PROVE  ProvidersThere' /\ NumberFitsAddress' /\ OwnAddresses'
<1> USE DEF Servers, Providers
<1>1. Len(servers) \in Nat /\ Len(servers') \in Nat /\ Len(provs) \in Nat /\ Len(provs') \in Int
  BY DEF TypeOK, Grows
<1>2. ASSUME NEW s \in 1..Len(servers')
      PROVE  s \in 1..Len(servers) \/ s \in (Len(servers) + 1)..Len(servers')
  BY <1>1
<1>3. ProvidersThere'
  BY <1>1, <1>2 DEF ProvidersThere, Grows
<1>4. NumberFitsAddress'
  BY <1>1, <1>2, MachinesAssumption DEF NumberFitsAddress, Grows
<1>5. OwnAddresses'
  <2> SUFFICES ASSUME ~nameless', ~raced', NEW s \in 1..Len(servers'), NEW t \in 1..Len(servers')
               PROVE  /\ servers'[s].ip # "none"
                      /\ (t # s /\ servers'[t].prov = servers'[s].prov) => servers'[t].ip # servers'[s].ip
    BY DEF OwnAddresses
  <2>1. ~nameless /\ ~raced
    BY DEF Grows
  <2>2. ASSUME NEW i \in 1..Len(servers)
        PROVE  servers'[i].ip = servers[i].ip /\ servers[i].ip # "none" /\ servers'[i].prov = servers[i].prov
    BY <1>1, <2>1, MachinesAssumption DEF NumberFitsAddress, OwnAddresses, Grows
  <2>3. CASE s \in 1..Len(servers) /\ t \in 1..Len(servers)
    BY <2>1, <2>2, <2>3 DEF OwnAddresses
  <2>4. CASE s \in (Len(servers) + 1)..Len(servers')
    BY <2>4 DEF Grows
  <2>5. CASE s \in 1..Len(servers) /\ t \in (Len(servers) + 1)..Len(servers')
    BY <2>2, <2>5 DEF Grows
  <2> QED BY <1>2, <2>3, <2>4, <2>5
<1> QED BY <1>3, <1>4, <1>5

-----------------------------------------------------------------------------
LEMMA Numbers == {MaxProviders, MaxServers, MaxStorages, MaxActs} \subseteq Nat
BY BoundsAssumption

\* A row of a machine, and what becomes of it.
LEMMA RowTypes ==
  ASSUME NEW p \in 1..MaxProviders, NEW m \in Machines
  PROVE  /\ Row(p, m) \in ServerRows
         /\ [Row(p, m) EXCEPT !.id = "address"] \in ServerRows
         /\ \A ip \in Addresses : [Row(p, m) EXCEPT !.ip = ip] \in ServerRows
<1>1. AddressOf(m) \in Addresses /\ m \in Ids /\ "address" \in Ids /\ 0 \in 0..MaxStorages
  BY Numbers DEF AddressOf, Addresses, Ids
<1>2. Row(p, m) \in ServerRows
  BY <1>1 DEF Row, ServerRows
<1> QED BY <1>1, <1>2 DEF ServerRows

LEMMA RowChanges ==
  ASSUME NEW x \in ServerRows
  PROVE  /\ \A id \in Ids : [x EXCEPT !.id = id] \in ServerRows
         /\ \A ip \in Addresses : [x EXCEPT !.ip = ip] \in ServerRows
         /\ \A t \in 0..MaxStorages : [x EXCEPT !.legacy = t] \in ServerRows
BY DEF ServerRows

LEMMA IdleType == Idle \in Requests
<1>1. 0 \in 0..MaxProviders
  BY Numbers
<1>2. {} \in SUBSET Machines /\ {} \in SUBSET (1..MaxServers)
  OBVIOUS
<1> QED BY <1>1, <1>2 DEF Idle, Requests, Names, Creds

\* A request that begins, goes on or ends is one of the requests there are.
LEMMA BeginTypes ==
  ASSUME TypeOK, NEW h \in Handlers, NEW x \in Requests, Begin(h, x)
  PROVE  op' \in [Handlers -> Requests] /\ raced' \in BOOLEAN /\ acts' \in 0..MaxActs
<1>1. raced' \in BOOLEAN
  BY Zenon DEF Begin
<1>2. acts' \in 0..MaxActs
  BY Numbers DEF Begin, Act, TypeOK
<1> QED BY <1>1, <1>2 DEF Begin, TypeOK

LEMMA EndTypes ==
  ASSUME TypeOK, NEW h \in Handlers, End(h)
  PROVE  op' \in [Handlers -> Requests]
BY IdleType DEF End, TypeOK

\* A set of machines that was found is finite, and its rows are appended.
LEMMA InsertTypes ==
  ASSUME NEW rows \in Seq(ServerRows), NEW p \in 1..MaxProviders,
         NEW ms \in SUBSET Machines, NEW list \in Listing(ms)
  PROVE  LET all == rows \o [i \in 1..Cardinality(ms) |-> Row(p, list[i])]
         IN /\ Cardinality(ms) \in Nat
            /\ all \in Seq(ServerRows) /\ Len(all) = Len(rows) + Cardinality(ms)
            /\ \A i \in 1..Len(rows) : all[i] = rows[i]
            /\ \A i \in (Len(rows) + 1)..(Len(rows) + Cardinality(ms)) :
                 list[i - Len(rows)] \in ms /\ all[i] = Row(p, list[i - Len(rows)])
<1> DEFINE n == Cardinality(ms)
           e == [i \in 1..n |-> Row(p, list[i])]
<1>1. n \in Nat
  BY MachinesAssumption, FS_Subset, FS_CardinalityType
<1>2. \A i \in 1..n : list[i] \in ms
  BY DEF Listing
<1>3. e \in [1..n -> ServerRows]
  BY <1>2, RowTypes
<1> HIDE DEF n
<1>4. (rows \o e) \in Seq(ServerRows) /\ Len(rows \o e) = Len(rows) + n
  BY <1>1, <1>3, SomeMore
<1>5. \A i \in 1..Len(rows) : (rows \o e)[i] = rows[i]
  BY <1>1, <1>3, SomeMore
<1>6. ASSUME NEW i \in (Len(rows) + 1)..(Len(rows) + n)
      PROVE  list[i - Len(rows)] \in ms /\ (rows \o e)[i] = Row(p, list[i - Len(rows)])
  <2>1. i - Len(rows) \in 1..n
    BY <1>1
  <2>2. (rows \o e)[i] = e[i - Len(rows)]
    BY <1>1, <1>3, SomeMore
  <2> QED BY <1>2, <2>1, <2>2
<1> QED BY <1>1, <1>4, <1>5, <1>6 DEF n

\* Rediscovery gives rows their number and appends the machines that had none.
New(h) == {m \in op[h].found : ByAddress(h, m) = {}}

LEMMA Rediscovered ==
  ASSUME TypeOK, NEW h \in Handlers, RequestFits(h), Rediscover(h)
  PROVE  /\ servers' \in Seq(ServerRows) /\ Len(servers') <= MaxServers
         /\ Len(servers') >= Len(servers)
         /\ nameless' = (nameless \/ New(h) \intersect Unaddressed # {})
         /\ \A s \in Servers :
              \/ servers'[s] = servers[s]
              \/ servers'[s] = [servers[s] EXCEPT !.id = servers[s].ip] /\ servers[s].ip \in Machines
         /\ \E list \in Listing(New(h)) :
              \A s \in (Len(servers) + 1)..Len(servers') :
                /\ s - Len(servers) \in DOMAIN list
                /\ list[s - Len(servers)] \in New(h)
                /\ servers'[s] = Row(op[h].row, list[s - Len(servers)])
<1> DEFINE
      renumbered(s) == \E m \in op[h].found :
        s \in ByAddress(h, m) /\ \A t \in ByAddress(h, m) : t <= s
      numbered == [s \in Servers |->
        IF renumbered(s) THEN [servers[s] EXCEPT !.id = servers[s].ip] ELSE servers[s]]
<1>1. /\ Len(servers) + Cardinality(New(h)) <= MaxServers
      /\ \E list \in Listing(New(h)) :
           servers' = numbered \o [i \in 1..Cardinality(New(h)) |-> Row(op[h].row, list[i])]
      /\ nameless' = (nameless \/ New(h) \intersect Unaddressed # {})
      /\ op[h].kind = "rediscover"
  BY DEF Rediscover, New
<1>2. PICK list \in Listing(New(h)) :
        servers' = numbered \o [i \in 1..Cardinality(New(h)) |-> Row(op[h].row, list[i])]
  BY <1>1
<1>3. New(h) \in SUBSET Machines
  BY DEF New, TypeOK, Requests
<1>4. op[h].row \in 1..MaxProviders
  BY <1>1, Numbers DEF RequestFits, Providers, TypeOK
<1>5. servers \in Seq(ServerRows) /\ Servers = 1..Len(servers) /\ Len(servers) \in Nat
  BY DEF TypeOK, Servers
<1>6. ASSUME NEW s \in Servers
      PROVE  /\ servers[s] \in ServerRows
             /\ renumbered(s) => servers[s].ip \in Machines
             /\ numbered[s] \in ServerRows
  <2>1. servers[s] \in ServerRows
    BY <1>5
  <2>2. renumbered(s) => servers[s].ip \in Machines
    BY DEF ByAddress, TypeOK, Requests
  <2>3. renumbered(s) => [servers[s] EXCEPT !.id = servers[s].ip] \in ServerRows
    BY <2>1, <2>2, RowChanges DEF Ids
  <2> QED BY <2>1, <2>2, <2>3
<1>7. \A s \in Servers :
        numbered[s] = IF renumbered(s) THEN [servers[s] EXCEPT !.id = servers[s].ip] ELSE servers[s]
  OBVIOUS
<1>8. numbered \in Seq(ServerRows) /\ Len(numbered) = Len(servers)
  <2>1. numbered \in [1..Len(servers) -> ServerRows]
    BY <1>5, <1>6
  <2> HIDE DEF numbered
  <2> QED BY <1>5, <2>1, Rewritten
<1> HIDE DEF numbered
<1>9. /\ Cardinality(New(h)) \in Nat
      /\ servers' \in Seq(ServerRows) /\ Len(servers') = Len(numbered) + Cardinality(New(h))
      /\ \A i \in 1..Len(numbered) : servers'[i] = numbered[i]
      /\ \A i \in (Len(numbered) + 1)..(Len(numbered) + Cardinality(New(h))) :
           list[i - Len(numbered)] \in New(h)
             /\ servers'[i] = Row(op[h].row, list[i - Len(numbered)])
  BY <1>2, <1>3, <1>4, <1>8, InsertTypes
<1>10. Len(servers') <= MaxServers /\ Len(servers') >= Len(servers)
  BY <1>1, <1>5, <1>8, <1>9
<1>11. \A s \in Servers :
         \/ servers'[s] = servers[s]
         \/ servers'[s] = [servers[s] EXCEPT !.id = servers[s].ip] /\ servers[s].ip \in Machines
  BY <1>5, <1>6, <1>7, <1>8, <1>9
<1>12. \A s \in (Len(servers) + 1)..Len(servers') :
         /\ s - Len(servers) \in DOMAIN list
         /\ list[s - Len(servers)] \in New(h)
         /\ servers'[s] = Row(op[h].row, list[s - Len(servers)])
  <2>1. DOMAIN list = 1..Cardinality(New(h))
    BY DEF Listing
  <2> QED BY <1>5, <1>8, <1>9, <2>1
<1> QED BY <1>1, <1>9, <1>10, <1>11, <1>12

\* What a web request does to the types.
LEMMA WebTypes ==
  ASSUME TypeOK, \A g \in Handlers : RequestFits(g), NEW h \in Handlers, Web(h)
  PROVE  TypeOK'
<1> USE Numbers DEF stores, memory
<1>r. op[h] \in Requests
  BY DEF TypeOK
<1>s. \A s \in Servers : servers[s] \in ServerRows /\ servers[s].prov \in 0..MaxProviders
  <2> SUFFICES ASSUME NEW s \in Servers
               PROVE  servers[s] \in ServerRows /\ servers[s].prov \in 0..MaxProviders
    OBVIOUS
  <2>1. servers[s] \in ServerRows
    BY DEF Servers, TypeOK
  <2> QED BY <2>1 DEF ServerRows
<1>o. owned \in SUBSET Machines
  BY DEF TypeOK
<1>1. CASE BeginRegister(h)
  <2>1. PICK u \in Users :
          Begin(h, [Idle EXCEPT !.kind = "register", !.step = "save", !.user = u])
    BY <1>1 DEF BeginRegister
  <2>2. [Idle EXCEPT !.kind = "register", !.step = "save", !.user = u] \in Requests
    BY IdleType DEF Requests
  <2> QED BY <1>1, <2>1, <2>2, BeginTypes DEF BeginRegister, TypeOK
<1>2. CASE Register(h)
  <2>1. op' \in [Handlers -> Requests]
    BY <1>2, EndTypes DEF Register
  <2>2. users' \in [Users -> {"none", "registered", "seeded"}]
    BY <1>2 DEF Register, TypeOK
  <2> QED BY <1>2, <2>1, <2>2 DEF Register, TypeOK
<1>3. CASE BeginAdd(h)
  <2>1. PICK u \in Users, n \in Names, c \in Creds :
          Begin(h, [Idle EXCEPT !.kind = "add", !.step = "save", !.user = u, !.name = n,
                                !.creds = c, !.found = owned])
    BY <1>3 DEF BeginAdd
  <2>2. [Idle EXCEPT !.kind = "add", !.step = "save", !.user = u, !.name = n,
                     !.creds = c, !.found = owned] \in Requests
    BY <1>o, IdleType DEF Requests
  <2> QED BY <1>3, <2>1, <2>2, BeginTypes DEF BeginAdd, TypeOK
<1>4. CASE AddServer(h)
  <2>1. op' \in [Handlers -> Requests]
    BY <1>4, EndTypes DEF AddServer
  <2>2. provs' \in Seq(ProviderRows) /\ Len(provs') <= MaxProviders
    <3>1. op[h].user \in Users
      BY <1>4 DEF AddServer, RequestFits
    <3>2. [user |-> op[h].user, name |-> op[h].name, creds |-> op[h].creds] \in ProviderRows
      BY <1>r, <3>1 DEF Requests, ProviderRows
    <3>3. Len(provs) < MaxProviders /\ Len(provs) \in Nat /\ provs \in Seq(ProviderRows)
      BY <1>4 DEF AddServer, TypeOK
    <3> QED BY <1>4, <3>2, <3>3, OneMore DEF AddServer
  <2>3. servers' \in Seq(ServerRows) /\ Len(servers') <= MaxServers
    <3>1. Len(provs) + 1 \in 1..MaxProviders /\ servers \in Seq(ServerRows)
          /\ op[h].found \in SUBSET Machines
      BY <1>4, <1>r DEF AddServer, TypeOK, Requests
    <3>2. PICK list \in Listing(op[h].found) :
            servers' = servers \o [i \in 1..Cardinality(op[h].found) |-> Row(Len(provs) + 1, list[i])]
      BY <1>4 DEF AddServer, InsertServers
    <3>3. Len(servers) + Cardinality(op[h].found) <= MaxServers
      BY <1>4 DEF AddServer, InsertServers
    <3>4. Cardinality(op[h].found) \in Nat
          /\ servers' \in Seq(ServerRows)
          /\ Len(servers') = Len(servers) + Cardinality(op[h].found)
      BY <3>1, <3>2, InsertTypes
    <3> QED BY <3>3, <3>4
  <2>4. nameless' \in BOOLEAN
    BY <1>4, Zenon DEF AddServer, InsertServers
  <2> QED BY <1>4, <2>1, <2>2, <2>3, <2>4 DEF AddServer, TypeOK
<1>5. CASE BeginEdit(h)
  <2>1. PICK s \in Servers, c \in Creds :
          Begin(h, [Idle EXCEPT !.kind = "edit", !.step = "save",
                                !.row = servers[s].prov, !.creds = c])
    BY <1>5 DEF BeginEdit
  <2>2. [Idle EXCEPT !.kind = "edit", !.step = "save",
                     !.row = servers[s].prov, !.creds = c] \in Requests
    BY <1>s, IdleType DEF Requests
  <2> QED BY <1>5, <2>1, <2>2, BeginTypes DEF BeginEdit, TypeOK
<1>6. CASE EditProvider(h)
  <2>1. op' \in [Handlers -> Requests]
    BY <1>6, EndTypes DEF EditProvider
  <2>2. provs' \in Seq(ProviderRows) /\ Len(provs') <= MaxProviders
    <3>1. PICK n \in Names :
            provs' = [provs EXCEPT ![op[h].row] = [@ EXCEPT !.name = n, !.creds = op[h].creds]]
      BY <1>6 DEF EditProvider
    <3>2. op[h].row \in 1..Len(provs) /\ provs \in Seq(ProviderRows)
      BY <1>6 DEF EditProvider, RequestFits, Providers, TypeOK
    <3>3. [provs[op[h].row] EXCEPT !.name = n, !.creds = op[h].creds] \in ProviderRows
      <4>1. provs[op[h].row] \in ProviderRows /\ op[h].creds \in Creds
        BY <1>r, <3>2 DEF Requests
      <4> QED BY <4>1 DEF ProviderRows
    <3> QED BY <3>1, <3>2, <3>3, OneRewritten DEF TypeOK
  <2> QED BY <1>6, <2>1, <2>2 DEF EditProvider, TypeOK
<1>7. CASE BeginRediscover(h)
  <2>1. PICK s \in Servers :
          Begin(h, [Idle EXCEPT !.kind = "rediscover", !.step = "read",
                                !.row = servers[s].prov, !.found = owned])
    BY <1>7 DEF BeginRediscover
  <2>2. [Idle EXCEPT !.kind = "rediscover", !.step = "read",
                     !.row = servers[s].prov, !.found = owned] \in Requests
    BY <1>o, <1>s, IdleType DEF Requests
  <2> QED BY <1>7, <2>1, <2>2, BeginTypes DEF BeginRediscover, TypeOK
<1>8. CASE ReadExisting(h)
  <2>1. Rows(op[h].row) \in SUBSET (1..MaxServers)
    BY DEF Rows, Servers, TypeOK
  <2>2. op' \in [Handlers -> Requests]
    BY <1>8, <1>r, <2>1 DEF ReadExisting, TypeOK, Requests
  <2> QED BY <1>8, <2>2 DEF ReadExisting, TypeOK
<1>9. CASE Rediscover(h)
  <2>1. op' \in [Handlers -> Requests]
    BY <1>9, EndTypes DEF Rediscover
  <2>2. nameless' \in BOOLEAN
    BY <1>9, Zenon DEF Rediscover
  <2>3. servers' \in Seq(ServerRows) /\ Len(servers') <= MaxServers
    BY <1>9, Rediscovered
  <2> QED BY <1>9, <2>1, <2>2, <2>3 DEF Rediscover, TypeOK
<1> QED BY <1>1, <1>2, <1>3, <1>4, <1>5, <1>6, <1>7, <1>8, <1>9 DEF Web

\* A command needs at most one row of each kind, and the row it works on is
\* that one or the next.
LEMMA OnlyOrNext ==
  ASSUME NEW set, NEW next
  PROVE  /\ set = {} => Only(set, next) = next
         /\ set # {} => Only(set, next) \in set
<1>1. CASE set = {}
  BY <1>1 DEF Only
<1>2. CASE set # {}
  <2>1. \E x \in set : TRUE
    BY <1>2
  <2>2. (CHOOSE x \in set : TRUE) \in set
    BY <2>1
  <2> QED BY <1>2, <2>2 DEF Only
<1> QED BY <1>1, <1>2

LEMMA CommandTypes ==
  ASSUME TypeOK, Command
  PROVE  owned' \subseteq Machines /\ op' \in [Handlers -> Requests] /\ key' \in Keys
         /\ raced' \in BOOLEAN /\ blind' \in BOOLEAN /\ acts' \in 0..MaxActs
<1>1. raced' \in BOOLEAN
  BY Zenon DEF Command
<1> QED BY <1>1, Numbers DEF Command, Act, TypeOK

\* The provider row of a command is there afterwards, at its number.
LEMMA PutProviderTypes ==
  ASSUME TypeOK, NEW u \in Users, NEW n \in Names, NEW set \in SUBSET Providers, NEW c \in Creds,
         PutProvider(u, n, set, c), Only(set, Len(provs) + 1) <= MaxProviders
  PROVE  /\ provs' \in Seq(ProviderRows) /\ Len(provs') <= MaxProviders
         /\ Len(provs') >= Len(provs)
         /\ Only(set, Len(provs) + 1) \in 1..Len(provs')
<1>1. provs \in Seq(ProviderRows) /\ Len(provs) \in Nat /\ Providers = 1..Len(provs)
  BY DEF TypeOK, Providers
<1>2. CASE set = {}
  <2>1. provs' = Append(provs, [user |-> u, name |-> n, creds |-> c])
    BY <1>2 DEF PutProvider
  <2>2. [user |-> u, name |-> n, creds |-> c] \in ProviderRows
    BY DEF ProviderRows
  <2>3. Only(set, Len(provs) + 1) = Len(provs) + 1
    BY <1>2 DEF Only
  <2>4. provs' \in Seq(ProviderRows) /\ Len(provs') = Len(provs) + 1
    BY <1>1, <2>1, <2>2, OneMore
  <2> QED BY <1>1, <2>3, <2>4
<1>3. CASE set # {}
  <2>1. Only(set, Len(provs) + 1) \in set
    BY <1>3, OnlyOrNext
  <2>2. provs' = [p \in 1..Len(provs) |-> IF p \in set THEN [provs[p] EXCEPT !.creds = c] ELSE provs[p]]
    BY <1>1, <1>3 DEF PutProvider
  <2>3. ASSUME NEW p \in 1..Len(provs)
        PROVE  provs[p] \in ProviderRows /\ [provs[p] EXCEPT !.creds = c] \in ProviderRows
    <3>1. provs[p] \in ProviderRows
      BY <1>1
    <3> QED BY <3>1 DEF ProviderRows
  <2>4. provs' \in [1..Len(provs) -> ProviderRows]
    BY <2>2, <2>3
  <2>5. provs' \in Seq(ProviderRows) /\ Len(provs') = Len(provs)
    BY <1>1, <2>4, Rewritten
  <2>6. Only(set, Len(provs) + 1) \in 1..Len(provs)
    BY <1>1, <2>1
  <2>7. Len(provs) <= MaxProviders
    BY DEF TypeOK
  <2> QED BY <1>1, <2>5, <2>6, <2>7
<1> QED BY <1>2, <1>3

LEMMA PutStorageTypes ==
  ASSUME TypeOK, NEW s \in 1..MaxServers, NEW set \in SUBSET Storages, NEW secrets \in Secrets,
         NEW seeded \in BOOLEAN,
         PutStorage(s, set, secrets, seeded), Only(set, Len(storages) + 1) <= MaxStorages
  PROVE  storages' \in Seq(StorageRows) /\ Len(storages') <= MaxStorages
<1>1. storages \in Seq(StorageRows) /\ Len(storages) \in Nat /\ Len(storages) <= MaxStorages
      /\ key \in Keys
  BY DEF TypeOK
<1>g. (secrets # {}) \in BOOLEAN
  OBVIOUS
<1>2. CASE set = {}
  <2>1. storages' = Append(storages, [server |-> s, secrets |-> secrets, key |-> key,
                                      given |-> secrets # {}, seeded |-> seeded,
                                      gone |-> FALSE])
    BY <1>2 DEF PutStorage
  <2>2. [server |-> s, secrets |-> secrets, key |-> key, given |-> secrets # {},
         seeded |-> seeded, gone |-> FALSE] \in StorageRows
    BY <1>1 DEF StorageRows
  <2>3. Only(set, Len(storages) + 1) = Len(storages) + 1
    BY <1>2 DEF Only
  <2> QED BY <1>1, <2>1, <2>2, <2>3, OneMore
<1>3. CASE set # {}
  <2>1. storages' = [t \in 1..Len(storages) |->
                IF t \in set THEN [storages[t] EXCEPT !.secrets = secrets, !.key = key,
                                                      !.given = secrets # {}]
                ELSE storages[t]]
    BY <1>3 DEF PutStorage
  <2>2. ASSUME NEW t \in 1..Len(storages)
        PROVE  /\ storages[t] \in StorageRows
               /\ [storages[t] EXCEPT !.secrets = secrets, !.key = key, !.given = secrets # {}]
                    \in StorageRows
    <3>1. storages[t] \in StorageRows
      BY <1>1
    <3> QED BY <1>1, <3>1 DEF StorageRows
  <2>3. storages' \in [1..Len(storages) -> StorageRows]
    BY <2>1, <2>2
  <2> QED BY <1>1, <2>3, Rewritten
<1> QED BY <1>2, <1>3

LEMMA AimTypes ==
  ASSUME NEW rows \in Seq(ServerRows), NEW s \in 1..Len(rows), NEW t \in 0..MaxStorages
  PROVE  /\ AimLegacy(rows, s, t) \in Seq(ServerRows)
         /\ Len(AimLegacy(rows, s, t)) = Len(rows)
         /\ \A i \in 1..Len(rows) :
              /\ AimLegacy(rows, s, t)[i].prov = rows[i].prov
              /\ AimLegacy(rows, s, t)[i].id = rows[i].id
              /\ AimLegacy(rows, s, t)[i].ip = rows[i].ip
<1>1. rows[s] \in ServerRows
  OBVIOUS
<1>2. [rows[s] EXCEPT !.legacy = t] \in ServerRows
  BY <1>1, RowChanges
<1>3. AimLegacy(rows, s, t) = [rows EXCEPT ![s] = [rows[s] EXCEPT !.legacy = t]]
  BY DEF AimLegacy
<1>4. \A i \in 1..Len(rows) :
        AimLegacy(rows, s, t)[i] = IF i = s THEN [rows[s] EXCEPT !.legacy = t] ELSE rows[i]
  BY <1>2, <1>3, OneRewritten
<1>5. /\ [rows[s] EXCEPT !.legacy = t].prov = rows[s].prov
      /\ [rows[s] EXCEPT !.legacy = t].id = rows[s].id
      /\ [rows[s] EXCEPT !.legacy = t].ip = rows[s].ip
  BY <1>1 DEF ServerRows
<1> QED BY <1>2, <1>3, <1>4, <1>5, OneRewritten

-----------------------------------------------------------------------------
LEMMA RowFields ==
  ASSUME NEW p, NEW m
  PROVE  /\ Row(p, m).prov = p /\ Row(p, m).id = m /\ Row(p, m).ip = AddressOf(m)
         /\ [Row(p, m) EXCEPT !.id = "address"].prov = p
         /\ [Row(p, m) EXCEPT !.id = "address"].id = "address"
         /\ [Row(p, m) EXCEPT !.id = "address"].ip = AddressOf(m)
         /\ \A ip : /\ [Row(p, m) EXCEPT !.ip = ip].prov = p
                    /\ [Row(p, m) EXCEPT !.ip = ip].id = m
                    /\ [Row(p, m) EXCEPT !.ip = ip].ip = ip
BY DEF Row

\* A machine without an address is stored with "none", any other with its own.
LEMMA AddressFits ==
  ASSUME NEW m \in Machines
  PROVE  /\ m \in Unaddressed => AddressOf(m) = "none"
         /\ m \notin Unaddressed => AddressOf(m) = m
         /\ m # "none" /\ m # "address"
BY MachinesAssumption DEF AddressOf

\* Rows that are appended for a provider, one for each machine of a set none
\* of whose addresses the provider has yet, let the rows grow.
LEMMA ListingGrows ==
  ASSUME TypeOK, ProvidersThere, NEW p \in 1..Len(provs'), Len(provs') >= Len(provs),
         NEW ms \in SUBSET Machines, NEW list \in Listing(ms),
         servers' \in Seq(ServerRows), Len(servers') <= MaxServers, Len(servers') >= Len(servers),
         nameless => nameless', raced => raced',
         ~nameless' => ms \intersect Unaddressed = {},
         \A s \in Servers :
           /\ servers'[s].prov = servers[s].prov
           /\ \/ servers'[s].id = servers[s].id /\ servers'[s].ip = servers[s].ip
              \/ /\ servers'[s].id = servers[s].ip /\ servers'[s].ip = servers[s].ip
                 /\ servers[s].ip \in Machines,
         (~nameless' /\ ~raced') =>
           \A s \in Servers : servers[s].prov = p => servers[s].ip \notin ms,
         \A s \in (Len(servers) + 1)..Len(servers') :
           /\ s - Len(servers) \in DOMAIN list
           /\ list[s - Len(servers)] \in ms
           /\ servers'[s] = Row(p, list[s - Len(servers)])
  PROVE  Grows
<1> USE DEF Servers
<1>1. Len(servers) \in Nat /\ Len(servers') \in Nat
  BY DEF TypeOK
<1>2. ASSUME NEW s \in (Len(servers) + 1)..Len(servers')
      PROVE  /\ servers'[s].prov = p /\ servers'[s].id = list[s - Len(servers)]
             /\ servers'[s].ip = AddressOf(list[s - Len(servers)])
             /\ list[s - Len(servers)] \in Machines
             /\ ~nameless' => servers'[s].ip = list[s - Len(servers)]
  <2>1. servers'[s] = Row(p, list[s - Len(servers)]) /\ list[s - Len(servers)] \in ms
    OBVIOUS
  <2>2. servers'[s].prov = p /\ servers'[s].id = list[s - Len(servers)]
        /\ servers'[s].ip = AddressOf(list[s - Len(servers)])
    BY <2>1, RowFields
  <2> QED BY <2>1, <2>2, AddressFits
<1>3. ASSUME NEW s \in (Len(servers) + 1)..Len(servers'), ~nameless', ~raced',
             NEW t \in 1..Len(servers'), t # s, servers'[t].prov = servers'[s].prov
      PROVE  servers'[t].ip # servers'[s].ip
  <2>1. servers'[s].ip = list[s - Len(servers)] /\ servers'[s].prov = p /\ list[s - Len(servers)] \in ms
    BY <1>2, <1>3
  <2>2. CASE t \in 1..Len(servers)
    BY <1>3, <2>1, <2>2
  <2>3. CASE t \in (Len(servers) + 1)..Len(servers')
    <3>1. servers'[t].ip = list[t - Len(servers)]
      BY <1>2, <1>3, <2>3
    <3>2. s - Len(servers) # t - Len(servers)
      BY <1>1, <1>3
    <3>3. list[s - Len(servers)] # list[t - Len(servers)]
      BY <2>3, <3>2 DEF Listing
    <3> QED BY <2>1, <3>1, <3>3
  <2> QED BY <1>1, <2>2, <2>3
<1>4. ASSUME NEW s \in (Len(servers) + 1)..Len(servers')
      PROVE  /\ servers'[s].prov \in 1..Len(provs')
             /\ servers'[s].id \in {"address", servers'[s].ip} \/ servers'[s].ip = "none"
             /\ ~nameless' => servers'[s].ip # "none"
  BY <1>2, AddressFits
<1> QED BY <1>3, <1>4 DEF Grows

LEMMA AddGrows ==
  ASSUME TypeOK, ProvidersThere, NEW h \in Handlers, RequestFits(h), AddServer(h)
  PROVE  Grows
<1> USE Numbers
<1>1. /\ Len(provs) < MaxProviders /\ op[h].kind = "add" /\ raced' = raced
      /\ provs' = Append(provs, [user |-> op[h].user, name |-> op[h].name, creds |-> op[h].creds])
      /\ Len(servers) + Cardinality(op[h].found) <= MaxServers
      /\ nameless' = (nameless \/ op[h].found \intersect Unaddressed # {})
  BY DEF AddServer, InsertServers
<1>2. op[h] \in Requests /\ provs \in Seq(ProviderRows) /\ Len(provs) \in Nat
      /\ servers \in Seq(ServerRows) /\ Len(servers) \in Nat
  BY DEF TypeOK
<1>3. PICK list \in Listing(op[h].found) :
        servers' = servers \o [i \in 1..Cardinality(op[h].found) |-> Row(Len(provs) + 1, list[i])]
  BY DEF AddServer, InsertServers
<1>4. op[h].found \in SUBSET Machines
  BY <1>2 DEF Requests
<1>5. Len(provs) + 1 \in 1..MaxProviders
  BY <1>1, <1>2
<1>6. Len(provs') = Len(provs) + 1
  BY <1>1, <1>2
<1>7. /\ Cardinality(op[h].found) \in Nat
      /\ servers' \in Seq(ServerRows) /\ Len(servers') = Len(servers) + Cardinality(op[h].found)
      /\ \A i \in 1..Len(servers) : servers'[i] = servers[i]
      /\ \A i \in (Len(servers) + 1)..(Len(servers) + Cardinality(op[h].found)) :
           list[i - Len(servers)] \in op[h].found
             /\ servers'[i] = Row(Len(provs) + 1, list[i - Len(servers)])
  BY <1>2, <1>3, <1>4, <1>5, InsertTypes
<1>8. \A s \in (Len(servers) + 1)..Len(servers') : s - Len(servers) \in DOMAIN list
  <2>1. DOMAIN list = 1..Cardinality(op[h].found)
    BY DEF Listing
  <2> QED BY <1>2, <1>7, <2>1
<1>9. \A s \in Servers : servers[s].prov # Len(provs) + 1
  BY <1>2 DEF ProvidersThere, Providers
<1>10. ~nameless' => op[h].found \intersect Unaddressed = {}
  BY <1>1
<1>11. nameless => nameless'
  BY <1>1
<1>12. Len(servers') <= MaxServers /\ Len(servers') >= Len(servers)
  BY <1>1, <1>2, <1>7
<1>13. Len(provs) + 1 \in 1..Len(provs') /\ Len(provs') >= Len(provs)
  BY <1>2, <1>6
<1> QED BY <1>1, <1>3, <1>4, <1>7, <1>8, <1>9, <1>10, <1>11, <1>12, <1>13, ListingGrows DEF Servers

LEMMA RediscoverGrows ==
  ASSUME TypeOK, ProvidersThere, NEW h \in Handlers, RequestFits(h), Rediscover(h),
         ~raced => op[h].known = Rows(op[h].row)
  PROVE  Grows
<1>1. op[h].row \in 1..Len(provs) /\ raced' = raced /\ provs' = provs /\ op[h].found \subseteq Machines
  BY DEF Rediscover, RequestFits, Providers, TypeOK, Requests
<1>2. New(h) \in SUBSET Machines
  BY <1>1 DEF New
<1>3. PICK list \in Listing(New(h)) :
        \A s \in (Len(servers) + 1)..Len(servers') :
          /\ s - Len(servers) \in DOMAIN list
          /\ list[s - Len(servers)] \in New(h)
          /\ servers'[s] = Row(op[h].row, list[s - Len(servers)])
  BY Rediscovered
<1>4. /\ servers' \in Seq(ServerRows) /\ Len(servers') <= MaxServers
      /\ Len(servers') >= Len(servers)
      /\ nameless' = (nameless \/ New(h) \intersect Unaddressed # {})
      /\ \A s \in Servers :
           \/ servers'[s] = servers[s]
           \/ servers'[s] = [servers[s] EXCEPT !.id = servers[s].ip] /\ servers[s].ip \in Machines
  BY Rediscovered
<1>5. ASSUME NEW s \in Servers
      PROVE  /\ servers'[s].prov = servers[s].prov
             /\ \/ servers'[s].id = servers[s].id /\ servers'[s].ip = servers[s].ip
                \/ /\ servers'[s].id = servers[s].ip /\ servers'[s].ip = servers[s].ip
                   /\ servers[s].ip \in Machines
  <2>1. servers[s] \in ServerRows
    BY DEF TypeOK, Servers
  <2> QED BY <1>4, <2>1 DEF ServerRows
<1>6. ~nameless' => New(h) \intersect Unaddressed = {}
  BY <1>4
<1>7. ASSUME ~nameless', ~raced', NEW s \in Servers, servers[s].prov = op[h].row
      PROVE  servers[s].ip \notin New(h)
  <2>1. s \in op[h].known
    BY <1>1, <1>7 DEF Rows
  <2> QED BY <1>6, <1>7, <2>1 DEF New, ByAddress
<1>8. nameless => nameless'
  BY <1>4
<1> QED BY <1>1, <1>2, <1>3, <1>4, <1>5, <1>6, <1>7, <1>8, ListingGrows

\* One row appended for a provider that has no other of that address.
LEMMA OneGrows ==
  ASSUME TypeOK, ProvidersThere, NEW x \in ServerRows, servers' = Append(servers, x),
         Len(servers) + 1 <= MaxServers, Len(provs') >= Len(provs), x.prov \in 1..Len(provs'),
         nameless => nameless', raced => raced',
         x.id \in {"address", x.ip} \/ x.ip = "none",
         (~nameless' /\ ~raced') =>
           x.ip # "none" /\ \A s \in Servers : servers[s].prov = x.prov => servers[s].ip # x.ip
  PROVE  Grows
<1>1. servers \in Seq(ServerRows) /\ Len(servers) \in Nat
  BY DEF TypeOK
<1>2. /\ servers' \in Seq(ServerRows) /\ Len(servers') = Len(servers) + 1
      /\ \A i \in 1..Len(servers) : servers'[i] = servers[i]
      /\ servers'[Len(servers) + 1] = x
  BY <1>1, OneMore
<1>3. \A s \in (Len(servers) + 1)..Len(servers') : s = Len(servers) + 1
  BY <1>1, <1>2
<1>4. \A t \in 1..Len(servers') : t # Len(servers) + 1 => t \in Servers /\ servers'[t] = servers[t]
  BY <1>1, <1>2 DEF Servers
<1> QED BY <1>1, <1>2, <1>3, <1>4 DEF Grows, Servers

LEMMA SeedGrows ==
  ASSUME TypeOK, ProvidersThere, NEW u \in Users, NEW m \in Machines, Seed(u, m)
  PROVE  Grows /\ TypeOK' /\ Len(provs') >= Len(provs)
<1> USE Numbers
<1> DEFINE ps == {p \in Providers : provs[p].user = u /\ provs[p].name = "panel"}
           p == Only(ps, Len(provs) + 1)
           ss == {s \in Rows(p) : servers[s].ip = m}
           s == Only(ss, Len(servers) + 1)
           ts == {t \in Storages : storages[t].server = s /\ storages[t].seeded}
<1>1. /\ m \notin Unaddressed /\ p <= MaxProviders /\ s <= MaxServers
      /\ Only(ts, Len(storages) + 1) <= MaxStorages
      /\ users' = IF Known(u) THEN users ELSE [users EXCEPT ![u] = "seeded"]
      /\ \E creds \in Creds : PutProvider(u, "panel", ps, creds)
      /\ servers' = IF ss # {} THEN servers
                    ELSE Append(servers, [Row(p, m) EXCEPT !.id = "address"])
      /\ \E secrets \in Secrets : PutStorage(s, ts, secrets, TRUE)
      /\ careless' = TRUE /\ nameless' = nameless
      /\ Command
  BY DEF Seed
<1>2. ps \in SUBSET Providers /\ ss \in SUBSET Servers /\ ts \in SUBSET Storages
  BY DEF Rows
<1>3. ss = {} => \A i \in Servers : servers[i].prov = p => servers[i].ip # m
  BY DEF Rows
<1> HIDE DEF ps, ss, ts
<1>4. "panel" \in Names
  BY DEF Names
<1>5. /\ provs' \in Seq(ProviderRows) /\ Len(provs') <= MaxProviders
      /\ Len(provs') >= Len(provs) /\ p \in 1..Len(provs')
  BY <1>1, <1>2, <1>4, PutProviderTypes
<1>6. servers \in Seq(ServerRows) /\ Len(servers) \in Nat /\ Len(servers) <= MaxServers
      /\ Len(provs') \in Nat
  BY <1>5 DEF TypeOK
<1> HIDE DEF p
<1>7. ss # {} => s \in Servers
  BY <1>2, OnlyOrNext
<1>8. ss = {} => s = Len(servers) + 1
  BY OnlyOrNext
<1>9. s \in 1..MaxServers
  BY <1>1, <1>6, <1>7, <1>8 DEF Servers
<1> HIDE DEF s
<1>10. storages' \in Seq(StorageRows) /\ Len(storages') <= MaxStorages
  BY <1>1, <1>2, <1>9, PutStorageTypes
<1>11. p \in 1..MaxProviders
  BY <1>1, <1>5, <1>6
<1>12. [Row(p, m) EXCEPT !.id = "address"] \in ServerRows
  BY <1>11, RowTypes
<1>13. raced => raced'
  BY <1>1 DEF Command
<1>14. Grows
  <2>1. CASE ss # {}
    <3>1. servers' = servers
      BY <1>1, <2>1
    <3> QED BY <1>1, <1>5, <1>6, <1>13, <3>1 DEF Grows, Servers
  <2>2. CASE ss = {}
    <3> DEFINE x == [Row(p, m) EXCEPT !.id = "address"]
    <3>1. x.prov = p /\ x.id = "address" /\ x.ip = m /\ m # "none"
      BY <1>1, RowFields, AddressFits
    <3>2. servers' = Append(servers, x) /\ Len(servers) + 1 <= MaxServers
      BY <1>1, <1>8, <2>2
    <3>3. x \in ServerRows
      BY <1>12
    <3> HIDE DEF x
    <3> QED BY <1>1, <1>3, <1>5, <1>13, <2>2, <3>1, <3>2, <3>3, OneGrows
  <2> QED BY <2>1, <2>2
<1>15. users' \in [Users -> {"none", "registered", "seeded"}]
  BY <1>1 DEF TypeOK
<1>16. nameless' \in BOOLEAN /\ careless' \in BOOLEAN
  BY <1>1 DEF TypeOK
<1>17. TypeOK'
  BY <1>1, <1>5, <1>10, <1>14, <1>15, <1>16, CommandTypes DEF TypeOK, Grows
<1> QED BY <1>5, <1>14, <1>17

LEMMA ImportGrows ==
  ASSUME TypeOK, ProvidersThere, NumberFitsAddress, OwnAddresses,
         NEW u \in Users, NEW m \in Machines, Import(u, m)
  PROVE  Grows /\ TypeOK' /\ Len(provs') >= Len(provs)
<1> USE Numbers
<1> DEFINE ps == {p \in Providers : provs[p].user = u /\ provs[p].name = m}
           p == Only(ps, Len(provs) + 1)
           ss == {s \in Rows(p) : servers[s].id = m}
           s == Only(ss, Len(servers) + 1)
           ts == {t \in Storages : storages[t].server = s}
           t == Only(ts, Len(storages) + 1)
<1>1. PICK ip \in {AddressOf(m), "none"} :
      /\ p <= MaxProviders /\ s <= MaxServers /\ t <= MaxStorages
      /\ \E creds \in Creds : PutProvider(u, m, ps, creds)
      /\ servers' = AimLegacy(
           IF ss = {} THEN Append(servers, [Row(p, m) EXCEPT !.ip = ip])
           ELSE [servers EXCEPT ![s].ip = IF ip = "none" THEN @ ELSE ip], s, t)
      /\ nameless' = (nameless \/ (ss = {} /\ (ip = "none" \/ Unnumbered(p) # {})))
      /\ \E secrets \in {{}, {"private_key"}} : PutStorage(s, ts, secrets, FALSE)
      /\ careless' = TRUE /\ users' = users
      /\ Command
  BY DEF Import
<1> DEFINE mid == IF ss = {} THEN Append(servers, [Row(p, m) EXCEPT !.ip = ip])
                  ELSE [servers EXCEPT ![s].ip = IF ip = "none" THEN @ ELSE ip]
<1>m. servers' = AimLegacy(mid, s, t)
  BY <1>1
<1>2. ps \in SUBSET Providers /\ ss \in SUBSET Servers /\ ts \in SUBSET Storages
  BY DEF Rows
<1>3. ss = {} => \A i \in Servers : servers[i].prov = p => servers[i].id # m
  BY DEF Rows
<1>a. ss # {} => \A i \in ss : servers[i].id = m
  OBVIOUS
<1> HIDE DEF ps, ss, ts
<1>4. m \in Names
  BY DEF Names
<1>5. /\ provs' \in Seq(ProviderRows) /\ Len(provs') <= MaxProviders
      /\ Len(provs') >= Len(provs) /\ p \in 1..Len(provs')
  BY <1>1, <1>2, <1>4, PutProviderTypes
<1>6. servers \in Seq(ServerRows) /\ Len(servers) \in Nat /\ Len(servers) <= MaxServers
      /\ Len(provs') \in Nat /\ Len(storages) \in Nat /\ Len(storages) <= MaxStorages
  BY <1>5 DEF TypeOK
<1> HIDE DEF p
<1>7. ss # {} => s \in ss /\ s \in Servers
  BY <1>2, OnlyOrNext
<1>8. ss = {} => s = Len(servers) + 1
  BY OnlyOrNext
<1>9. s \in 1..MaxServers
  BY <1>1, <1>6, <1>7, <1>8 DEF Servers
<1> HIDE DEF s
<1>10. storages' \in Seq(StorageRows) /\ Len(storages') <= MaxStorages
  <2>1. {{}, {"private_key"}} \subseteq Secrets
    BY DEF Secrets
  <2> QED BY <1>1, <1>2, <1>9, <2>1, PutStorageTypes
<1>11. t \in 0..MaxStorages
  <2>1. ts # {} => t \in 1..Len(storages)
    BY <1>2, OnlyOrNext DEF Storages
  <2>2. ts = {} => t = Len(storages) + 1
    BY OnlyOrNext
  <2> QED BY <1>1, <1>6, <2>1, <2>2
<1> HIDE DEF t
<1>12. p \in 1..MaxProviders
  BY <1>1, <1>5, <1>6
<1>13. ip \in Addresses
  BY AddressFits DEF Addresses
<1>14. (raced => raced') /\ (nameless => nameless')
  BY <1>1 DEF Command
<1>15. ASSUME ss = {} PROVE Grows
  <2> DEFINE x == [Row(p, m) EXCEPT !.ip = ip]
  <2>1. x \in ServerRows /\ x.prov = p /\ x.id = m /\ x.ip = ip
    <3>1. x \in ServerRows
      BY <1>12, <1>13, RowTypes
    <3>2. x.prov = p /\ x.id = m /\ x.ip = ip
      BY RowFields
    <3> QED BY <3>1, <3>2
  <2>2. mid = Append(servers, x)
    BY <1>15
  <2> HIDE DEF x
  <2>3. /\ mid \in Seq(ServerRows) /\ Len(mid) = Len(servers) + 1
        /\ \A i \in 1..Len(servers) : mid[i] = servers[i]
        /\ mid[Len(servers) + 1] = x
    BY <1>6, <2>1, <2>2, OneMore
  <2> HIDE DEF mid
  <2>4. s \in 1..Len(mid) /\ Len(servers) + 1 <= MaxServers
    BY <1>1, <1>6, <1>8, <1>15, <2>3
  <2>5. /\ servers' \in Seq(ServerRows) /\ Len(servers') = Len(servers) + 1
        /\ \A i \in 1..(Len(servers) + 1) :
             /\ servers'[i].prov = mid[i].prov
             /\ servers'[i].id = mid[i].id
             /\ servers'[i].ip = mid[i].ip
    <3>1. /\ AimLegacy(mid, s, t) \in Seq(ServerRows)
          /\ Len(AimLegacy(mid, s, t)) = Len(mid)
          /\ \A i \in 1..Len(mid) :
               /\ AimLegacy(mid, s, t)[i].prov = mid[i].prov
               /\ AimLegacy(mid, s, t)[i].id = mid[i].id
               /\ AimLegacy(mid, s, t)[i].ip = mid[i].ip
      BY <1>11, <2>3, <2>4, AimTypes
    <3> QED BY <1>m, <2>3, <3>1
  <2>6. \A i \in Servers : /\ servers'[i].prov = servers[i].prov
                           /\ servers'[i].id = servers[i].id
                           /\ servers'[i].ip = servers[i].ip
    BY <1>6, <2>3, <2>5 DEF Servers
  <2>7. /\ servers'[Len(servers) + 1].prov = p
        /\ servers'[Len(servers) + 1].id = m
        /\ servers'[Len(servers) + 1].ip = ip
    BY <1>6, <2>1, <2>3, <2>5
  <2>8. ip = "none" \/ ip = m
    BY AddressFits
  <2>9. ASSUME ~nameless', ~raced'
        PROVE  ip = m /\ m # "none"
               /\ \A i \in Servers : servers[i].prov = p => servers[i].ip # m
    <3>1. ~nameless /\ ~raced /\ ip # "none" /\ Unnumbered(p) = {}
      BY <1>1, <1>14, <1>15, <2>9
    <3>2. ASSUME NEW i \in Servers, servers[i].prov = p PROVE servers[i].ip # m
      <4>1. servers[i].id # "address"
        BY <3>1, <3>2 DEF Unnumbered, Rows
      <4>2. servers[i].ip # "none"
        BY <3>1 DEF OwnAddresses
      <4>3. servers[i].id = servers[i].ip
        BY <4>1, <4>2 DEF NumberFitsAddress
      <4> QED BY <1>3, <1>15, <3>2, <4>3
    <3> QED BY <2>8, <3>1, <3>2
  <2>10. \A i \in (Len(servers) + 1)..Len(servers') : i = Len(servers) + 1
    BY <1>6, <2>5
  <2>11. \A i \in 1..Len(servers') : i # Len(servers) + 1 => i \in Servers
    BY <1>6, <2>5 DEF Servers
  <2>12. ASSUME NEW i \in (Len(servers) + 1)..Len(servers')
         PROVE  /\ servers'[i].prov \in 1..Len(provs')
                /\ servers'[i].id \in {"address", servers'[i].ip} \/ servers'[i].ip = "none"
                /\ (~nameless' /\ ~raced') =>
                     /\ servers'[i].ip # "none"
                     /\ \A j \in 1..Len(servers') :
                          (j # i /\ servers'[j].prov = servers'[i].prov) => servers'[j].ip # servers'[i].ip
    <3>1. i = Len(servers) + 1
      BY <2>10
    <3>2. servers'[i].prov = p /\ servers'[i].id = m /\ servers'[i].ip = ip
      BY <2>7, <3>1
    <3>3. ASSUME ~nameless', ~raced', NEW j \in 1..Len(servers'), j # i,
                 servers'[j].prov = servers'[i].prov
          PROVE  servers'[j].ip # servers'[i].ip
      BY <2>6, <2>9, <2>11, <3>1, <3>2, <3>3
    <3> QED BY <1>5, <2>8, <2>9, <3>2, <3>3
  <2>13. Len(servers') <= MaxServers /\ Len(servers') >= Len(servers)
    BY <1>6, <2>4, <2>5
  <2> QED BY <1>5, <1>14, <2>5, <2>6, <2>12, <2>13 DEF Grows
<1>16. ASSUME ss # {} PROVE Grows
  <2>1. s \in 1..Len(servers) /\ servers[s].id = m
    BY <1>7, <1>a, <1>16 DEF Servers
  <2>2. servers[s] \in ServerRows /\ servers[s].ip \in Addresses
    <3>1. servers[s] \in ServerRows
      BY <1>6, <2>1
    <3> QED BY <3>1 DEF ServerRows
  <2> DEFINE y == IF ip = "none" THEN servers[s].ip ELSE ip
             x == [servers[s] EXCEPT !.ip = y]
  <2>3. /\ x \in ServerRows /\ x.prov = servers[s].prov /\ x.id = servers[s].id
        /\ x.ip = y
    BY <1>13, <2>2, RowChanges DEF ServerRows
  <2>4. mid = [servers EXCEPT ![s] = x]
    BY <1>16
  <2>5. y = servers[s].ip \/ (y = servers[s].id /\ servers[s].id \in Machines)
    BY <2>1, AddressFits
  <2> HIDE DEF x, y
  <2>6. /\ mid \in Seq(ServerRows) /\ Len(mid) = Len(servers)
        /\ \A i \in 1..Len(servers) : mid[i] = IF i = s THEN x ELSE servers[i]
    <3>1. /\ [servers EXCEPT ![s] = x] \in Seq(ServerRows)
          /\ Len([servers EXCEPT ![s] = x]) = Len(servers)
          /\ \A i \in 1..Len(servers) :
               [servers EXCEPT ![s] = x][i] = IF i = s THEN x ELSE servers[i]
      BY <1>6, <2>1, <2>3, OneRewritten
    <3> QED BY <2>4, <3>1
  <2> HIDE DEF mid
  <2>7. /\ servers' \in Seq(ServerRows) /\ Len(servers') = Len(servers)
        /\ \A i \in 1..Len(servers) :
             /\ servers'[i].prov = mid[i].prov
             /\ servers'[i].id = mid[i].id
             /\ servers'[i].ip = mid[i].ip
    <3>1. /\ AimLegacy(mid, s, t) \in Seq(ServerRows)
          /\ Len(AimLegacy(mid, s, t)) = Len(mid)
          /\ \A i \in 1..Len(mid) :
               /\ AimLegacy(mid, s, t)[i].prov = mid[i].prov
               /\ AimLegacy(mid, s, t)[i].id = mid[i].id
               /\ AimLegacy(mid, s, t)[i].ip = mid[i].ip
      BY <1>11, <2>1, <2>6, AimTypes
    <3> QED BY <1>m, <2>6, <3>1
  <2>8. ASSUME NEW i \in Servers
        PROVE  /\ servers'[i].prov = servers[i].prov
               /\ \/ servers'[i].id = servers[i].id /\ servers'[i].ip = servers[i].ip
                  \/ /\ servers'[i].id = servers[i].id /\ servers'[i].ip = servers[i].id
                     /\ servers[i].id \in Machines
    BY <2>3, <2>5, <2>6, <2>7 DEF Servers
  <2>9. Len(servers') <= MaxServers /\ Len(servers') >= Len(servers)
        /\ (Len(servers) + 1)..Len(servers') = {}
    BY <1>6, <2>7
  <2> QED BY <1>5, <1>14, <2>7, <2>8, <2>9 DEF Grows
<1>17. Grows
  BY <1>15, <1>16
<1>18. nameless' \in BOOLEAN
  BY <1>1, Zenon
<1>19. TypeOK'
  BY <1>1, <1>5, <1>10, <1>17, <1>18, CommandTypes DEF TypeOK, Grows
<1> QED BY <1>5, <1>17, <1>19

LEMMA LegacyGrows ==
  ASSUME TypeOK, SeedLegacyBackups
  PROVE  Grows /\ TypeOK'
<1>1. PICK t \in Storages : servers' = AimLegacy(servers, storages[t].server, t)
  BY DEF SeedLegacyBackups
<1>2. t \in 0..MaxStorages
  BY Numbers DEF Storages, TypeOK
<1>3. servers \in Seq(ServerRows) /\ Len(servers) \in Nat /\ Len(servers) <= MaxServers
      /\ Len(provs) \in Nat
  BY DEF TypeOK
<1>4. (raced => raced') /\ nameless' = nameless /\ provs' = provs
  BY DEF SeedLegacyBackups, Command
<1>5. Grows
  <2>1. CASE storages[t].server \in 1..Len(servers)
    <3> DEFINE s == storages[t].server
    <3>1. /\ AimLegacy(servers, s, t) \in Seq(ServerRows)
          /\ Len(AimLegacy(servers, s, t)) = Len(servers)
          /\ \A i \in 1..Len(servers) :
               /\ AimLegacy(servers, s, t)[i].prov = servers[i].prov
               /\ AimLegacy(servers, s, t)[i].id = servers[i].id
               /\ AimLegacy(servers, s, t)[i].ip = servers[i].ip
      BY <1>2, <1>3, <2>1, AimTypes
    <3> QED BY <1>1, <1>3, <1>4, <3>1 DEF Grows, Servers
  <2>2. CASE storages[t].server \notin 1..Len(servers)
    <3>1. servers' = servers
      BY <1>1, <1>3, <2>2 DEF AimLegacy
    <3> QED BY <1>3, <1>4, <3>1 DEF Grows, Servers
  <2> QED BY <2>1, <2>2
<1>6. TypeOK'
  BY <1>4, <1>5, CommandTypes DEF SeedLegacyBackups, TypeOK, Grows
<1> QED BY <1>5, <1>6

LEMMA SyncGrows ==
  ASSUME TypeOK, SyncFromRobot
  PROVE  Grows /\ TypeOK'
<1>1. PICK s \in Servers : servers[s].ip \in owned
                           /\ servers' = [servers EXCEPT ![s].id = servers[s].ip]
  BY DEF SyncFromRobot
<1>2. servers \in Seq(ServerRows) /\ Len(servers) \in Nat /\ Len(servers) <= MaxServers
      /\ Len(provs) \in Nat /\ s \in 1..Len(servers)
  BY DEF TypeOK, Servers
<1>3. (raced => raced') /\ nameless' = nameless /\ provs' = provs
  BY DEF SyncFromRobot, Command
<1> DEFINE x == [servers[s] EXCEPT !.id = servers[s].ip]
<1>4. servers[s] \in ServerRows /\ servers[s].ip \in Machines
  BY <1>1, <1>2 DEF TypeOK
<1>5. x \in ServerRows /\ x.prov = servers[s].prov /\ x.id = servers[s].ip /\ x.ip = servers[s].ip
  BY <1>4, RowChanges DEF Ids, ServerRows
<1>6. servers' = [servers EXCEPT ![s] = x]
  BY <1>1
<1> HIDE DEF x
<1>7. /\ servers' \in Seq(ServerRows) /\ Len(servers') = Len(servers)
      /\ \A i \in 1..Len(servers) : servers'[i] = IF i = s THEN x ELSE servers[i]
  <2>1. /\ [servers EXCEPT ![s] = x] \in Seq(ServerRows)
        /\ Len([servers EXCEPT ![s] = x]) = Len(servers)
        /\ \A i \in 1..Len(servers) :
             [servers EXCEPT ![s] = x][i] = IF i = s THEN x ELSE servers[i]
    BY <1>2, <1>5, OneRewritten
  <2> QED BY <1>6, <2>1
<1>8. Grows
  BY <1>2, <1>3, <1>4, <1>5, <1>7 DEF Grows, Servers
<1>9. TypeOK'
  BY <1>3, <1>8, CommandTypes DEF SyncFromRobot, TypeOK, Grows
<1> QED BY <1>8, <1>9

\* A step that leaves the server rows alone and keeps the provider rows.
LEMMA StillGrows ==
  ASSUME TypeOK, servers' = servers, Len(provs') >= Len(provs), nameless' = nameless, raced => raced'
  PROVE  Grows
<1>1. servers \in Seq(ServerRows) /\ Len(servers) \in Nat /\ Len(servers) <= MaxServers
  BY DEF TypeOK
<1> QED BY <1>1 DEF Grows, Servers

LEMMA CredsGrows ==
  ASSUME TypeOK, ProvidersThere, SetRobotCreds
  PROVE  Grows /\ TypeOK'
<1>1. PICK s \in Servers, c \in Creds : provs' = [provs EXCEPT ![servers[s].prov].creds = c]
  BY DEF SetRobotCreds
<1>2. provs \in Seq(ProviderRows) /\ Len(provs) \in Nat /\ Len(provs) <= MaxProviders
      /\ servers[s].prov \in 1..Len(provs)
  BY DEF TypeOK, ProvidersThere, Providers
<1> DEFINE x == [provs[servers[s].prov] EXCEPT !.creds = c]
<1>3. x \in ProviderRows
  <2>1. provs[servers[s].prov] \in ProviderRows
    BY <1>2
  <2> QED BY <2>1 DEF ProviderRows
<1>4. provs' = [provs EXCEPT ![servers[s].prov] = x]
  BY <1>1
<1> HIDE DEF x
<1>5. provs' \in Seq(ProviderRows) /\ Len(provs') = Len(provs)
  BY <1>2, <1>3, <1>4, OneRewritten
<1>6. servers' = servers /\ nameless' = nameless /\ (raced => raced')
  BY DEF SetRobotCreds, Command
<1>7. Grows
  BY <1>2, <1>5, <1>6, StillGrows
<1>8. TypeOK'
  BY <1>2, <1>5, <1>6, CommandTypes DEF SetRobotCreds, TypeOK
<1> QED BY <1>7, <1>8

\* An edit writes one storage: its secrets are kept or replaced, never lost,
\* as long as the key opens them.
LEMMA Edited ==
  ASSUME TypeOK, EditStorage
  PROVE  /\ storages' \in Seq(StorageRows) /\ Len(storages') = Len(storages)
         /\ \E t \in Storages :
              /\ \A i \in 1..Len(storages) : i # t => storages'[i] = storages[i]
              /\ storages'[t].gone = storages[t].gone
              /\ ~blind' => ~blind
              /\ (~blind' /\ storages'[t].given) =>
                   \/ storages'[t].secrets # {}
                   \/ storages[t].given /\ storages'[t].secrets = storages[t].secrets
<1>1. PICK t \in Storages, entered \in Secrets :
        LET opened == storages[t].key = key
            old == IF opened THEN storages[t].secrets ELSE {}
        IN /\ storages' = [storages EXCEPT ![t] =
                [storages[t] EXCEPT !.secrets = Preserved(entered, old), !.key = key,
                                    !.given = storages[t].given \/ entered # {}]]
           /\ blind' = (blind \/ ~opened)
  BY DEF EditStorage
<1> DEFINE old == IF storages[t].key = key THEN storages[t].secrets ELSE {}
           given == storages[t].given \/ entered # {}
           x == [storages[t] EXCEPT !.secrets = Preserved(entered, old), !.key = key, !.given = given]
<1>2. storages' = [storages EXCEPT ![t] = x] /\ blind' = (blind \/ storages[t].key # key)
  BY <1>1
<1>3. storages \in Seq(StorageRows) /\ t \in 1..Len(storages) /\ key \in Keys
  BY DEF TypeOK, Storages
<1>4. storages[t] \in StorageRows
  BY <1>3
<1>5. Preserved(entered, old) \in Secrets
  BY <1>4 DEF Preserved, StorageRows, Secrets
<1>6. given \in BOOLEAN
  OBVIOUS
<1>7. given => storages[t].given \/ entered # {}
  OBVIOUS
<1> HIDE DEF given
<1>8. x \in StorageRows /\ x.gone = storages[t].gone /\ x.secrets = Preserved(entered, old)
      /\ x.given = given
  BY <1>3, <1>4, <1>5, <1>6 DEF StorageRows
<1>9. storages[t].key = key => (x.given =>
        x.secrets # {} \/ (storages[t].given /\ x.secrets = storages[t].secrets))
  BY <1>7, <1>8 DEF Preserved
<1>10. ~blind' => ~blind /\ storages[t].key = key
  BY <1>2
<1> HIDE DEF x
<1>11. /\ storages' \in Seq(StorageRows) /\ Len(storages') = Len(storages)
       /\ \A i \in 1..Len(storages) : storages'[i] = IF i = t THEN x ELSE storages[i]
  <2>1. /\ [storages EXCEPT ![t] = x] \in Seq(StorageRows)
        /\ Len([storages EXCEPT ![t] = x]) = Len(storages)
        /\ \A i \in 1..Len(storages) :
             [storages EXCEPT ![t] = x][i] = IF i = t THEN x ELSE storages[i]
    BY <1>3, <1>8, OneRewritten
  <2> QED BY <1>2, <2>1
<1> QED BY <1>3, <1>8, <1>9, <1>10, <1>11

\* What happens to the storages keeps the types.
LEMMA StorageTypes ==
  ASSUME TypeOK, ProvidersThere, CreateStorage \/ EditStorage \/ DeleteStorage \/ ChangeKey \/ BuyMachine
  PROVE  TypeOK'
<1> USE Numbers DEF memory
<1>a. Act => acts' \in 0..MaxActs
  BY DEF Act, TypeOK
<1>t. storages \in Seq(StorageRows) /\ Len(storages) \in Nat /\ Len(storages) <= MaxStorages
      /\ key \in Keys
  BY DEF TypeOK
<1>1. CASE CreateStorage
  <2>1. PICK s \in Servers, secrets \in Secrets : PutStorage(s, {}, secrets, FALSE)
    BY <1>1 DEF CreateStorage
  <2>2. s \in 1..MaxServers
    BY DEF Servers, TypeOK
  <2>3. Only({}, Len(storages) + 1) <= MaxStorages
    BY <1>1, <1>t, OnlyOrNext DEF CreateStorage
  <2>4. storages' \in Seq(StorageRows) /\ Len(storages') <= MaxStorages
    BY <2>1, <2>2, <2>3, PutStorageTypes
  <2> QED BY <1>1, <1>a, <2>4 DEF CreateStorage, TypeOK
<1>2. CASE EditStorage
  <2>1. storages' \in Seq(StorageRows) /\ Len(storages') = Len(storages)
    BY <1>2, Edited
  <2>2. blind' \in BOOLEAN
    BY <1>2, Zenon DEF EditStorage
  <2> QED BY <1>2, <1>a, <1>t, <2>1, <2>2 DEF EditStorage, TypeOK
<1>3. CASE DeleteStorage
  <2>1. PICK t \in Storages : storages' = [storages EXCEPT ![t].gone = TRUE]
    BY <1>3 DEF DeleteStorage
  <2>2. t \in 1..Len(storages) /\ storages[t] \in StorageRows
    BY <1>t DEF Storages
  <2>3. [storages[t] EXCEPT !.gone = TRUE] \in StorageRows
    BY <2>2 DEF StorageRows
  <2>4. storages' \in Seq(StorageRows) /\ Len(storages') = Len(storages)
    BY <1>t, <2>1, <2>2, <2>3, OneRewritten
  <2> QED BY <1>3, <1>a, <1>t, <2>4 DEF DeleteStorage, TypeOK
<1>4. CASE ChangeKey
  BY <1>4, <1>a DEF ChangeKey, TypeOK
<1>5. CASE BuyMachine
  BY <1>5, <1>a DEF BuyMachine, TypeOK
<1> QED BY <1>1, <1>2, <1>3, <1>4, <1>5

\* PutStorage marks a row as given exactly when it has secrets.
LEMMA PutKeepsSecrets ==
  ASSUME TypeOK, SecretKept, NEW s, NEW set \in SUBSET Storages, NEW secrets \in Secrets, NEW seeded,
         PutStorage(s, set, secrets, seeded), blind' = blind
  PROVE  SecretKept'
<1>1. storages \in Seq(StorageRows) /\ Len(storages) \in Nat
  BY DEF TypeOK
<1>2. ASSUME NEW t \in Storages', storages'[t].given
      PROVE  storages'[t].secrets # {} \/ blind'
  <2>1. CASE set = {}
    <3> DEFINE x == [server |-> s, secrets |-> secrets, key |-> key, given |-> secrets # {},
                     seeded |-> seeded, gone |-> FALSE]
    <3>1. storages' = Append(storages, x)
      BY <2>1 DEF PutStorage
    <3>2. x.given => x.secrets # {}
      OBVIOUS
    <3> HIDE DEF x
    <3>3. t \in 1..(Len(storages) + 1) /\ ~storages'[t].gone
      BY <1>1, <3>1 DEF Storages
    <3>4. t # Len(storages) + 1 => t \in Storages /\ storages'[t] = storages[t]
      BY <1>1, <3>1, <3>3 DEF Storages
    <3>5. storages'[Len(storages) + 1] = x
      BY <1>1, <3>1
    <3> QED BY <1>2, <3>2, <3>4, <3>5 DEF SecretKept
  <2>2. CASE set # {}
    <3> DEFINE x(i) == [storages[i] EXCEPT !.secrets = secrets, !.key = key, !.given = secrets # {}]
    <3>1. storages' = [i \in 1..Len(storages) |-> IF i \in set THEN x(i) ELSE storages[i]]
      BY <2>2 DEF PutStorage
    <3>2. ASSUME NEW i \in 1..Len(storages), x(i).given PROVE x(i).secrets # {}
      <4>1. storages[i] \in StorageRows
        BY <1>1
      <4> QED BY <3>2, <4>1 DEF StorageRows
    <3>3. ASSUME NEW i \in 1..Len(storages) PROVE x(i).gone = storages[i].gone
      <4>1. storages[i] \in StorageRows
        BY <1>1
      <4> QED BY <4>1 DEF StorageRows
    <3> HIDE DEF x
    <3>4. Len(storages') = Len(storages)
      BY <1>1, <3>1
    <3>5. t \in 1..Len(storages) /\ ~storages'[t].gone
      BY <3>4 DEF Storages
    <3>6. storages'[t] = IF t \in set THEN x(t) ELSE storages[t]
      BY <3>1, <3>5
    <3>7. t \in Storages
      BY <3>3, <3>5, <3>6 DEF Storages
    <3> QED BY <1>2, <3>2, <3>5, <3>6, <3>7 DEF SecretKept
  <2> QED BY <2>1, <2>2
<1> QED BY <1>2 DEF SecretKept

LEMMA SecretStep ==
  ASSUME TypeOK, SecretKept, [Next]_vars
  PROVE  SecretKept'
<1>s. ASSUME storages' = storages, blind' = blind PROVE SecretKept'
  BY <1>s DEF SecretKept, Storages
<1>1. ASSUME NEW h \in Handlers, Web(h) PROVE SecretKept'
  <2>1. storages' = storages /\ blind' = blind
    BY <1>1 DEF Web, BeginRegister, Register, BeginAdd, AddServer, BeginEdit, EditProvider,
                BeginRediscover, ReadExisting, Rediscover, stores, memory
  <2> QED BY <1>s, <2>1
<1>2. ASSUME NEW u \in Users, NEW m \in Machines, Seed(u, m) PROVE SecretKept'
  <2> DEFINE ps == {p \in Providers : provs[p].user = u /\ provs[p].name = "panel"}
             ss == {s \in Rows(Only(ps, Len(provs) + 1)) : servers[s].ip = m}
             s == Only(ss, Len(servers) + 1)
             ts == {t \in Storages : storages[t].server = s /\ storages[t].seeded}
  <2>1. (\E secrets \in Secrets : PutStorage(s, ts, secrets, TRUE)) /\ blind' = blind
    BY <1>2 DEF Seed, Command
  <2>2. ts \in SUBSET Storages
    OBVIOUS
  <2> HIDE DEF s, ts
  <2> QED BY <2>1, <2>2, PutKeepsSecrets
<1>3. ASSUME NEW u \in Users, NEW m \in Machines, Import(u, m) PROVE SecretKept'
  <2> DEFINE ps == {p \in Providers : provs[p].user = u /\ provs[p].name = m}
             ss == {s \in Rows(Only(ps, Len(provs) + 1)) : servers[s].id = m}
             s == Only(ss, Len(servers) + 1)
             ts == {t \in Storages : storages[t].server = s}
  <2>1. (\E secrets \in {{}, {"private_key"}} : PutStorage(s, ts, secrets, FALSE)) /\ blind' = blind
    BY <1>3 DEF Import, Command
  <2>2. ts \in SUBSET Storages
    OBVIOUS
  <2>3. {{}, {"private_key"}} \subseteq Secrets
    BY DEF Secrets
  <2> HIDE DEF s, ts
  <2> QED BY <2>1, <2>2, <2>3, PutKeepsSecrets
<1>4. CASE SeedLegacyBackups \/ SyncFromRobot \/ SetRobotCreds
  BY <1>4, <1>s DEF SeedLegacyBackups, SyncFromRobot, SetRobotCreds, Command
<1>5. CASE CreateStorage
  <2>1. {} \in SUBSET Storages /\ blind' = blind
    BY <1>5 DEF CreateStorage, memory
  <2> QED BY <1>5, <2>1, PutKeepsSecrets DEF CreateStorage
<1>6. CASE EditStorage
  <2>1. PICK t \in Storages :
          /\ \A i \in 1..Len(storages) : i # t => storages'[i] = storages[i]
          /\ storages'[t].gone = storages[t].gone
          /\ ~blind' => ~blind
          /\ (~blind' /\ storages'[t].given) =>
               \/ storages'[t].secrets # {}
               \/ storages[t].given /\ storages'[t].secrets = storages[t].secrets
    BY <1>6, Edited
  <2>2. Len(storages') = Len(storages)
    BY <1>6, Edited
  <2>3. \A i \in Storages' : i \in Storages
    BY <2>1, <2>2 DEF Storages
  <2>4. ASSUME NEW i \in Storages', storages'[i].given, ~blind' PROVE storages'[i].secrets # {}
    <3>1. i \in Storages /\ i \in 1..Len(storages)
      BY <2>3 DEF Storages
    <3>2. CASE i = t
      BY <2>1, <2>4, <3>1, <3>2 DEF SecretKept
    <3>3. CASE i # t
      BY <2>1, <2>4, <3>1, <3>3 DEF SecretKept
    <3> QED BY <3>2, <3>3
  <2> QED BY <2>4 DEF SecretKept
<1>7. CASE DeleteStorage
  <2>1. PICK t \in Storages : storages' = [storages EXCEPT ![t].gone = TRUE]
    BY <1>7 DEF DeleteStorage
  <2>2. storages \in Seq(StorageRows) /\ t \in 1..Len(storages)
    BY DEF TypeOK, Storages
  <2>3. storages[t] \in StorageRows
    BY <2>2
  <2> DEFINE x == [storages[t] EXCEPT !.gone = TRUE]
  <2>4. x \in StorageRows /\ x.gone
    BY <2>3 DEF StorageRows
  <2>5. storages' = [storages EXCEPT ![t] = x]
    BY <2>1
  <2> HIDE DEF x
  <2>6. /\ Len(storages') = Len(storages)
        /\ \A i \in 1..Len(storages) : storages'[i] = IF i = t THEN x ELSE storages[i]
    <3>1. /\ Len([storages EXCEPT ![t] = x]) = Len(storages)
          /\ \A i \in 1..Len(storages) :
               [storages EXCEPT ![t] = x][i] = IF i = t THEN x ELSE storages[i]
      BY <2>2, <2>4, OneRewritten
    <3> QED BY <2>5, <3>1
  <2>7. \A i \in Storages' : i \in Storages /\ storages'[i] = storages[i]
    BY <2>4, <2>6 DEF Storages
  <2>8. blind' = blind
    BY <1>7 DEF DeleteStorage, memory
  <2> QED BY <2>7, <2>8 DEF SecretKept
<1>8. CASE ChangeKey \/ BuyMachine \/ UNCHANGED vars
  <2>1. storages' = storages /\ blind' = blind
    BY <1>8 DEF ChangeKey, BuyMachine, vars, memory
  <2> QED BY <1>s, <2>1
<1> QED BY <1>1, <1>2, <1>3, <1>4, <1>5, <1>6, <1>7, <1>8 DEF Next, CommandLine

\* Only commands store credentials that nobody has tried.
LEMMA CredsStep ==
  ASSUME TypeOK, \A h \in Handlers : RequestFits(h), BadCredsExplained, [Next]_vars
  PROVE  BadCredsExplained'
<1> USE DEF Providers
<1>1. provs \in Seq(ProviderRows) /\ Len(provs) \in Nat
  BY DEF TypeOK
<1>2. ASSUME provs' = provs, careless' = careless PROVE BadCredsExplained'
  BY <1>2 DEF BadCredsExplained
<1>3. ASSUME careless' = TRUE PROVE BadCredsExplained'
  BY <1>3 DEF BadCredsExplained
<1>4. ASSUME NEW h \in Handlers, AddServer(h) PROVE BadCredsExplained'
  <2>1. PICK x : x.creds = op[h].creds /\ provs' = Append(provs, x) /\ careless' = careless
    <3>1. provs' = Append(provs, [user |-> op[h].user, name |-> op[h].name, creds |-> op[h].creds])
          /\ careless' = careless
      BY <1>4 DEF AddServer
    <3> QED BY <3>1
  <2>2. op[h].creds = "good"
    BY DEF RequestFits
  <2>3. /\ Len(provs') = Len(provs) + 1
        /\ \A i \in 1..Len(provs) : provs'[i] = provs[i]
        /\ provs'[Len(provs) + 1] = x
    BY <1>1, <2>1
  <2> QED BY <1>1, <2>1, <2>2, <2>3 DEF BadCredsExplained
<1>5. ASSUME NEW h \in Handlers, EditProvider(h) PROVE BadCredsExplained'
  <2>1. PICK n \in Names :
          provs' = [provs EXCEPT ![op[h].row] = [@ EXCEPT !.name = n, !.creds = op[h].creds]]
    BY <1>5 DEF EditProvider
  <2>2. op[h].creds = "good" /\ op[h].row \in 1..Len(provs) /\ careless' = careless
    BY <1>5 DEF EditProvider, RequestFits, memory
  <2> DEFINE x == [provs[op[h].row] EXCEPT !.name = n, !.creds = op[h].creds]
  <2>3. x.creds = "good"
    <3>1. provs[op[h].row] \in ProviderRows
      BY <1>1, <2>2
    <3> QED BY <2>2, <3>1 DEF ProviderRows
  <2>4. provs' = [provs EXCEPT ![op[h].row] = x]
    BY <2>1
  <2> HIDE DEF x
  <2>5. Len(provs') = Len(provs)
        /\ \A i \in 1..Len(provs) : provs'[i] = IF i = op[h].row THEN x ELSE provs[i]
    BY <1>1, <2>2, <2>4
  <2> QED BY <2>2, <2>3, <2>5 DEF BadCredsExplained
<1>6. ASSUME NEW h \in Handlers, Web(h), ~AddServer(h), ~EditProvider(h) PROVE BadCredsExplained'
  <2>1. provs' = provs /\ careless' = careless
    BY <1>6 DEF Web, BeginRegister, Register, BeginAdd, BeginEdit,
                BeginRediscover, ReadExisting, Rediscover, memory
  <2> QED BY <1>2, <2>1
<1>7. ASSUME NEW u \in Users, NEW m \in Machines, Seed(u, m) \/ Import(u, m) PROVE BadCredsExplained'
  BY <1>3, <1>7 DEF Seed, Import
<1>8. CASE SetRobotCreds
  BY <1>3, <1>8 DEF SetRobotCreds
<1>9. CASE SeedLegacyBackups \/ SyncFromRobot
  BY <1>2, <1>9 DEF SeedLegacyBackups, SyncFromRobot
<1>10. CASE CreateStorage \/ EditStorage \/ DeleteStorage \/ ChangeKey \/ BuyMachine \/ UNCHANGED vars
  <2>1. provs' = provs /\ careless' = careless
    BY <1>10 DEF CreateStorage, EditStorage, DeleteStorage, ChangeKey, BuyMachine, vars, memory
  <2> QED BY <1>2, <2>1
<1> QED BY <1>4, <1>5, <1>6, <1>7, <1>8, <1>9, <1>10 DEF Next, CommandLine

-----------------------------------------------------------------------------
\* What a step does to the requests.
LEMMA BeginBegins ==
  ASSUME TypeOK, NEW h \in Handlers, NEW x, Begin(h, x)
  PROVE  /\ op'[h] = x /\ op[h].kind = "none"
         /\ \A g \in Handlers \ {h} : op'[g] = op[g]
         /\ raced => raced'
         /\ ~raced' => \A g \in Handlers : op[g].kind = "none"
<1>1. raced' = (raced \/ Busy # {})
  BY DEF Begin
<1>2. (raced => raced') /\ (~raced' => Busy = {})
  BY <1>1
<1>3. Busy = {} => \A g \in Handlers : op[g].kind = "none"
  BY DEF Busy
<1>4. op'[h] = x /\ op[h].kind = "none" /\ \A g \in Handlers \ {h} : op'[g] = op[g]
  BY DEF Begin, TypeOK
<1> QED BY <1>2, <1>3, <1>4

LEMMA EndEnds ==
  ASSUME TypeOK, NEW h \in Handlers, End(h)
  PROVE  op'[h] = Idle /\ \A g \in Handlers \ {h} : op'[g] = op[g]
BY DEF End, TypeOK

LEMMA CommandFacts ==
  ASSUME TypeOK, Command
  PROVE  op' = op /\ (raced => raced') /\ (~raced' => \A g \in Handlers : op[g].kind = "none")
<1>1. raced' = (raced \/ Busy # {}) /\ op' = op
  BY DEF Command
<1>2. (raced => raced') /\ (~raced' => Busy = {})
  BY <1>1
<1>3. Busy = {} => \A g \in Handlers : op[g].kind = "none"
  BY DEF Busy
<1> QED BY <1>1, <1>2, <1>3

\* Each request keeps going by rows that are there, and as long as no two
\* met, one at a time.
Meetings == (\A h \in Handlers : RequestFits(h)) /\ OneBusy /\ KnownRows /\ FirstRegistration

\* A request that begins.
LEMMA BeginMeets ==
  ASSUME FInv, NEW h \in Handlers, NEW x, Begin(h, x), Len(provs') >= Len(provs),
         users' = users, x.creds = "good", x.kind = "add" => x.user \in Users,
         x.kind \in {"edit", "rediscover"} => x.row \in Providers,
         ~(x.kind = "rediscover" /\ x.step = "save"),
         x.kind = "register" => RegistrationOpen
  PROVE  Meetings'
<1> USE DEF FInv
<1>1. /\ op'[h] = x /\ op[h].kind = "none"
      /\ \A g \in Handlers \ {h} : op'[g] = op[g]
      /\ raced => raced'
      /\ ~raced' => \A g \in Handlers : op[g].kind = "none"
  BY BeginBegins
<1>2. \A p \in Providers : p \in Providers'
  BY DEF Providers, TypeOK
<1>3. \A g \in Handlers : RequestFits(g)'
  BY <1>1, <1>2 DEF RequestFits
<1>4. OneBusy'
  BY <1>1 DEF OneBusy
<1>5. KnownRows'
  BY <1>1 DEF KnownRows
<1>6. FirstRegistration'
  BY <1>1 DEF FirstRegistration, RegistrationOpen
<1> QED BY <1>3, <1>4, <1>5, <1>6 DEF Meetings

\* A request that ends.
LEMMA EndMeets ==
  ASSUME FInv, NEW h \in Handlers, End(h), op[h].kind # "none", raced' = raced,
         Len(provs') >= Len(provs),
         \/ users' = users
         \/ op[h].kind = "register" /\ users' = [users EXCEPT ![op[h].user] = "registered"]
  PROVE  Meetings'
<1> USE DEF FInv
<1>1. op'[h].kind = "none" /\ op'[h].creds = "good" /\ \A g \in Handlers \ {h} : op'[g] = op[g]
  BY EndEnds DEF Idle
<1>2. \A p \in Providers : p \in Providers'
  BY DEF Providers, TypeOK
<1>3. \A g \in Handlers : RequestFits(g)'
  BY <1>1, <1>2 DEF RequestFits
<1>4. ~raced => \A g \in Handlers : op'[g].kind = "none"
  BY <1>1 DEF OneBusy
<1>5. OneBusy' /\ KnownRows'
  BY <1>4 DEF OneBusy, KnownRows
<1>6. FirstRegistration'
  <2>1. ~raced => \A u, v \in Users : (users'[u] = "registered" /\ users'[v] = "registered") => u = v
    <3>1. CASE users' = users
      BY <3>1 DEF FirstRegistration
    <3>2. CASE op[h].kind = "register" /\ users' = [users EXCEPT ![op[h].user] = "registered"]
      BY <3>2 DEF FirstRegistration, TypeOK
    <3> QED BY <3>1, <3>2
  <2> QED BY <1>4, <2>1 DEF FirstRegistration
<1> QED BY <1>3, <1>5, <1>6 DEF Meetings

\* A step that is not a request's.
LEMMA OtherMeets ==
  ASSUME FInv, op' = op, Len(provs') >= Len(provs), raced => raced',
         \/ servers' = servers
         \/ ~raced' => \A g \in Handlers : op[g].kind = "none",
         \A u \in Users : users'[u] = "registered" => users[u] = "registered",
         users' = users \/ (~raced' => \A g \in Handlers : op[g].kind = "none")
  PROVE  Meetings'
<1> USE DEF FInv
<1>1. \A p \in Providers : p \in Providers'
  BY DEF Providers, TypeOK
<1>2. \A g \in Handlers : RequestFits(g)'
  BY <1>1 DEF RequestFits
<1>3. OneBusy'
  BY DEF OneBusy
<1>4. KnownRows'
  BY DEF KnownRows, Rows, Servers
<1>5. FirstRegistration'
  BY DEF FirstRegistration
<1> QED BY <1>2, <1>3, <1>4, <1>5 DEF Meetings

-----------------------------------------------------------------------------
\* Every step keeps the types and lets the rows grow.
LEMMA RowsStep ==
  ASSUME FInv, [Next]_vars
  PROVE  Grows /\ TypeOK'
<1> USE DEF FInv
<1>t. provs \in Seq(ProviderRows) /\ Len(provs) \in Nat
  BY DEF TypeOK
<1>1. ASSUME NEW h \in Handlers, AddServer(h) PROVE Grows /\ TypeOK'
  <2>1. Web(h)
    BY <1>1 DEF Web
  <2> QED BY <1>1, <2>1, AddGrows, WebTypes
<1>2. ASSUME NEW h \in Handlers, Rediscover(h) PROVE Grows /\ TypeOK'
  <2>1. Web(h)
    BY <1>2 DEF Web
  <2>2. ~raced => op[h].known = Rows(op[h].row)
    BY <1>2 DEF Rediscover, KnownRows
  <2> QED BY <1>2, <2>1, <2>2, RediscoverGrows, WebTypes
<1>3. ASSUME NEW h \in Handlers, EditProvider(h) PROVE Grows /\ TypeOK'
  <2>1. Web(h)
    BY <1>3 DEF Web
  <2>2. Len(provs') = Len(provs)
    BY <1>3, <1>t DEF EditProvider, RequestFits, Providers
  <2>3. servers' = servers /\ nameless' = nameless /\ raced' = raced
    BY <1>3 DEF EditProvider, memory
  <2> QED BY <1>t, <2>1, <2>2, <2>3, StillGrows, WebTypes
<1>4. ASSUME NEW h \in Handlers, Web(h), ~AddServer(h), ~Rediscover(h), ~EditProvider(h)
      PROVE  Grows /\ TypeOK'
  <2>1. servers' = servers /\ nameless' = nameless /\ provs' = provs
    BY <1>4 DEF Web, BeginRegister, Register, BeginAdd, BeginEdit, BeginRediscover, ReadExisting,
                memory
  <2>2. raced => raced'
    BY <1>4, BeginBegins DEF Web, BeginRegister, Register, BeginAdd, BeginEdit, BeginRediscover,
                             ReadExisting, memory
  <2> QED BY <1>4, <1>t, <2>1, <2>2, StillGrows, WebTypes
<1>5. ASSUME NEW u \in Users, NEW m \in Machines, Seed(u, m) \/ Import(u, m)
      PROVE  Grows /\ TypeOK'
  BY <1>5, SeedGrows, ImportGrows
<1>6. CASE SeedLegacyBackups \/ SyncFromRobot \/ SetRobotCreds
  BY <1>6, LegacyGrows, SyncGrows, CredsGrows
<1>7. CASE CreateStorage \/ EditStorage \/ DeleteStorage \/ ChangeKey \/ BuyMachine
  <2>1. servers' = servers /\ nameless' = nameless /\ provs' = provs /\ raced' = raced
    BY <1>7 DEF CreateStorage, EditStorage, DeleteStorage, ChangeKey, BuyMachine, memory
  <2> QED BY <1>7, <1>t, <2>1, StillGrows, StorageTypes
<1>8. CASE UNCHANGED vars
  <2>1. TypeOK'
    BY <1>8 DEF TypeOK, vars
  <2> QED BY <1>8, <1>t, <2>1, StillGrows DEF vars
<1> QED BY <1>1, <1>2, <1>3, <1>4, <1>5, <1>6, <1>7, <1>8 DEF Next, CommandLine

\* Every step leaves the requests meeting as before.
LEMMA MeetStep ==
  ASSUME FInv, [Next]_vars
  PROVE  Meetings'
<1>l. Len(provs') >= Len(provs)
  BY RowsStep DEF Grows
<1>i. /\ Idle.creds = "good"
      /\ TypeOK /\ ProvidersThere
  BY DEF Idle, FInv
<1>1. ASSUME NEW h \in Handlers, BeginRegister(h) PROVE Meetings'
  <2>1. PICK u \in Users :
          Begin(h, [Idle EXCEPT !.kind = "register", !.step = "save", !.user = u])
    BY <1>1 DEF BeginRegister
  <2> DEFINE x == [Idle EXCEPT !.kind = "register", !.step = "save", !.user = u]
  <2>2. x.creds = "good" /\ x.kind = "register"
    BY DEF Idle
  <2>3. RegistrationOpen /\ users' = users
    BY <1>1 DEF BeginRegister
  <2>4. Begin(h, x)
    BY <2>1
  <2> HIDE DEF x
  <2> QED BY <1>l, <2>2, <2>3, <2>4, BeginMeets
<1>2. ASSUME NEW h \in Handlers, BeginAdd(h) PROVE Meetings'
  <2>1. PICK u \in Users, n \in Names, c \in Creds :
          /\ Tried(c)
          /\ Begin(h, [Idle EXCEPT !.kind = "add", !.step = "save", !.user = u, !.name = n,
                                   !.creds = c, !.found = owned])
    BY <1>2 DEF BeginAdd
  <2> DEFINE x == [Idle EXCEPT !.kind = "add", !.step = "save", !.user = u, !.name = n,
                               !.creds = c, !.found = owned]
  <2>2. x.creds = "good" /\ x.kind = "add" /\ x.user \in Users
    BY <2>1 DEF Idle, Tried
  <2>3. users' = users
    BY <1>2 DEF BeginAdd
  <2>4. Begin(h, x)
    BY <2>1
  <2> HIDE DEF x
  <2> QED BY <1>l, <2>2, <2>3, <2>4, BeginMeets
<1>3. ASSUME NEW h \in Handlers, BeginEdit(h) PROVE Meetings'
  <2>1. PICK s \in Servers, c \in Creds :
          /\ Tried(c)
          /\ Begin(h, [Idle EXCEPT !.kind = "edit", !.step = "save",
                                   !.row = servers[s].prov, !.creds = c])
    BY <1>3 DEF BeginEdit
  <2> DEFINE x == [Idle EXCEPT !.kind = "edit", !.step = "save",
                               !.row = servers[s].prov, !.creds = c]
  <2>2. x.creds = "good" /\ x.kind = "edit" /\ x.row \in Providers
    BY <1>i, <2>1 DEF Idle, Tried, ProvidersThere
  <2>3. users' = users
    BY <1>3 DEF BeginEdit
  <2>4. Begin(h, x)
    BY <2>1
  <2> HIDE DEF x
  <2> QED BY <1>l, <2>2, <2>3, <2>4, BeginMeets
<1>4. ASSUME NEW h \in Handlers, BeginRediscover(h) PROVE Meetings'
  <2>1. PICK s \in Servers :
          Begin(h, [Idle EXCEPT !.kind = "rediscover", !.step = "read",
                                !.row = servers[s].prov, !.found = owned])
    BY <1>4 DEF BeginRediscover
  <2> DEFINE x == [Idle EXCEPT !.kind = "rediscover", !.step = "read",
                               !.row = servers[s].prov, !.found = owned]
  <2>2. x.creds = "good" /\ x.kind = "rediscover" /\ x.step = "read" /\ x.row \in Providers
    BY <1>i DEF Idle, ProvidersThere
  <2>3. users' = users
    BY <1>4 DEF BeginRediscover
  <2>4. Begin(h, x)
    BY <2>1
  <2> HIDE DEF x
  <2> QED BY <1>l, <2>2, <2>3, <2>4, BeginMeets
<1>5. ASSUME NEW h \in Handlers, Register(h) \/ AddServer(h) \/ EditProvider(h) \/ Rediscover(h)
      PROVE  Meetings'
  <2>1. End(h) /\ op[h].kind # "none" /\ raced' = raced
    BY <1>5 DEF Register, AddServer, EditProvider, Rediscover, memory
  <2>2. \/ users' = users
        \/ op[h].kind = "register" /\ users' = [users EXCEPT ![op[h].user] = "registered"]
    BY <1>5 DEF Register, AddServer, EditProvider, Rediscover
  <2> QED BY <1>l, <2>1, <2>2, EndMeets
<1>6. ASSUME NEW h \in Handlers, ReadExisting(h) PROVE Meetings'
  <2> USE DEF FInv
  <2>1. /\ op' = [op EXCEPT ![h].step = "save", ![h].known = Rows(op[h].row)]
        /\ users' = users /\ servers' = servers /\ provs' = provs /\ raced' = raced
    BY <1>6 DEF ReadExisting, memory
  <2>2. op \in [Handlers -> Requests] /\ op[h] \in Requests
    BY DEF TypeOK
  <2>3. /\ op'[h].kind = op[h].kind /\ op'[h].creds = op[h].creds /\ op'[h].user = op[h].user
        /\ op'[h].row = op[h].row /\ op'[h].known = Rows(op[h].row)
        /\ \A g \in Handlers \ {h} : op'[g] = op[g]
    BY <2>1, <2>2 DEF Requests
  <2>4. \A g \in Handlers : RequestFits(g)'
    BY <2>1, <2>3 DEF RequestFits, Providers
  <2>5. \A g \in Handlers : op'[g].kind = op[g].kind
    BY <2>3
  <2>6. OneBusy'
    BY <2>1, <2>5 DEF OneBusy
  <2>7. KnownRows'
    <3>1. \A p : Rows(p)' = Rows(p)
      BY <2>1 DEF Rows, Servers
    <3>2. ASSUME ~raced, NEW g \in Handlers, op'[g].kind = "rediscover", op'[g].step = "save"
          PROVE  op'[g].known = Rows(op'[g].row)
      BY <2>3, <3>2 DEF KnownRows
    <3> QED BY <2>1, <3>1, <3>2 DEF KnownRows
  <2>8. FirstRegistration'
    BY <2>1, <2>3 DEF FirstRegistration
  <2> QED BY <2>4, <2>6, <2>7, <2>8 DEF Meetings
<1>7. ASSUME NEW u \in Users, NEW m \in Machines, Seed(u, m) \/ Import(u, m)
      PROVE  Meetings'
  <2>1. op' = op /\ (raced => raced') /\ (~raced' => \A g \in Handlers : op[g].kind = "none")
    BY <1>7, <1>i, CommandFacts DEF Seed, Import
  <2>2. users' = users \/ users' = [users EXCEPT ![u] = "seeded"]
    BY <1>7 DEF Seed, Import
  <2>3. \A v \in Users : users'[v] = "registered" => users[v] = "registered"
    BY <1>i, <2>2 DEF TypeOK
  <2> QED BY <1>l, <2>1, <2>3, OtherMeets
<1>8. CASE SeedLegacyBackups \/ SyncFromRobot \/ SetRobotCreds
  <2>1. op' = op /\ (raced => raced') /\ (~raced' => \A g \in Handlers : op[g].kind = "none")
    BY <1>8, <1>i, CommandFacts DEF SeedLegacyBackups, SyncFromRobot, SetRobotCreds
  <2>2. users' = users
    BY <1>8 DEF SeedLegacyBackups, SyncFromRobot, SetRobotCreds
  <2> QED BY <1>l, <2>1, <2>2, OtherMeets
<1>9. CASE CreateStorage \/ EditStorage \/ DeleteStorage \/ ChangeKey \/ BuyMachine \/ UNCHANGED vars
  <2>1. op' = op /\ raced' = raced /\ servers' = servers /\ users' = users
    BY <1>9 DEF CreateStorage, EditStorage, DeleteStorage, ChangeKey, BuyMachine, vars, memory
  <2> QED BY <1>l, <2>1, OtherMeets
<1> QED BY <1>1, <1>2, <1>3, <1>4, <1>5, <1>6, <1>7, <1>8, <1>9 DEF Next, CommandLine, Web

LEMMA InitInv == Init => FInv
<1> SUFFICES ASSUME Init PROVE FInv
  OBVIOUS
<1> USE Numbers DEF Init
<1>1. Len(provs) = 0 /\ Len(servers) = 0 /\ Len(storages) = 0
  OBVIOUS
<1>2. \A h \in Handlers : op[h] = Idle /\ op[h].kind = "none" /\ op[h].creds = "good"
  BY DEF Idle
<1>3. TypeOK
  <2>1. op \in [Handlers -> Requests]
    BY IdleType
  <2>2. provs \in Seq(ProviderRows) /\ servers \in Seq(ServerRows) /\ storages \in Seq(StorageRows)
    OBVIOUS
  <2>3. users \in [Users -> {"none", "registered", "seeded"}] /\ owned \subseteq Machines
    OBVIOUS
  <2>4. /\ raced \in BOOLEAN /\ careless \in BOOLEAN /\ nameless \in BOOLEAN
        /\ key \in Keys /\ blind \in BOOLEAN /\ acts \in 0..MaxActs
    <3>1. raced = FALSE /\ careless = FALSE /\ nameless = FALSE /\ blind = FALSE
      OBVIOUS
    <3>2. raced \in BOOLEAN /\ careless \in BOOLEAN /\ nameless \in BOOLEAN /\ blind \in BOOLEAN
      BY <3>1, Zenon
    <3>3. key \in Keys /\ acts \in 0..MaxActs
      BY DEF Keys
    <3> QED BY <3>2, <3>3
  <2> QED BY <1>1, <2>1, <2>2, <2>3, <2>4 DEF TypeOK
<1>4. \A h \in Handlers : RequestFits(h)
  BY <1>2 DEF RequestFits
<1>5. Servers = {} /\ Providers = {} /\ Storages = {}
  BY <1>1 DEF Servers, Providers, Storages
<1>6. ProvidersThere /\ NumberFitsAddress /\ OwnAddresses
  BY <1>5 DEF ProvidersThere, NumberFitsAddress, OwnAddresses
<1>7. OneBusy /\ KnownRows
  BY <1>2 DEF OneBusy, KnownRows
<1>8. FirstRegistration
  BY <1>2 DEF FirstRegistration
<1>9. BadCredsExplained /\ SecretKept
  BY <1>5 DEF BadCredsExplained, SecretKept
<1> QED BY <1>3, <1>4, <1>6, <1>7, <1>8, <1>9 DEF FInv

LEMMA StepInv == FInv /\ [Next]_vars => FInv'
<1> SUFFICES ASSUME FInv, [Next]_vars PROVE FInv'
  OBVIOUS
<1>1. Grows /\ TypeOK'
  BY RowsStep
<1>2. ProvidersThere' /\ NumberFitsAddress' /\ OwnAddresses'
  BY <1>1, GrowStep DEF FInv
<1>3. Meetings'
  BY MeetStep
<1>4. BadCredsExplained'
  BY CredsStep DEF FInv
<1>5. SecretKept'
  BY SecretStep DEF FInv
<1> QED BY <1>1, <1>2, <1>3, <1>4, <1>5 DEF FInv, Meetings

\* The rows of the fleet keep to the invariant, whichever requests and
\* commands are run in whatever order.
THEOREM FleetInvariant == Spec => []FInv
<1> QED BY InitInv, StepInv, PTL DEF Spec

\* Rows, requests and keys have their types, and no table outgrows its bound.
THEOREM FleetTypes == Spec => []TypeOK
<1>1. FInv => TypeOK
  BY DEF FInv
<1> QED BY <1>1, FleetInvariant, PTL

\* A provider has at most one row for a machine, and no row carries the number
\* of another machine than the one at its address, unless a row was stored by
\* half or two requests met.
THEOREM RowsStandForMachines == Spec => []RowsFitMachines
<1>1. ASSUME FInv PROVE RowsFitMachines
  <2>1. NumberFitsAddress /\ OwnAddresses
    BY <1>1 DEF FInv
  <2>2. ASSUME ~nameless, ~raced, NEW s \in Servers
        PROVE  MachineOf(s) = servers[s].ip
    BY <2>1, <2>2 DEF MachineOf, NumberFitsAddress, OwnAddresses
  <2>3. NoDuplicates
    BY <2>1, <2>2 DEF NoDuplicates, OwnAddresses
  <2> QED BY <2>1, <2>3 DEF RowsFitMachines
<1> QED BY <1>1, FleetInvariant, PTL

\* There is a second registered administrator only if two requests met:
\* registration looks whether there is a user, and inserts one later.
THEOREM SecondAdminRaced == Spec => []SecondAdminExplained
<1>1. ASSUME FInv PROVE SecondAdminExplained
  <2> DEFINE admins == {u \in Users : users[u] = "registered"}
  <2>1. ASSUME ~raced PROVE ~(Cardinality(admins) > 1)
    <3>1. \A u, v \in admins : u = v
      BY <1>1, <2>1 DEF FInv, FirstRegistration
    <3>2. CASE admins = {}
      BY <3>2, FS_EmptySet
    <3>3. CASE admins # {}
      <4>1. PICK u : u \in admins
        BY <3>3
      <4>2. admins = {u}
        BY <3>1, <4>1
      <4> QED BY <4>2, FS_Singleton
    <3> QED BY <3>2, <3>3
  <2> QED BY <2>1 DEF SecondAdminExplained
<1> QED BY <1>1, FleetInvariant, PTL

\* Credentials the Robot refuses come from a command that did not try them.
THEOREM TestedCredentials == Spec => []BadCredsExplained
<1>1. FInv => BadCredsExplained
  BY DEF FInv
<1> QED BY <1>1, FleetInvariant, PTL

\* A storage that has been given a secret has one, unless a storage was edited
\* under a key that did not open it.
THEOREM SecretsStay == Spec => []SecretKept
<1>1. FInv => SecretKept
  BY DEF FInv
<1> QED BY <1>1, FleetInvariant, PTL
=============================================================================
