------------------------------- MODULE Fleet -------------------------------
(***************************************************************************)
(* The rows that say which machines there are and how to reach them:       *)
(* users, provider configs with their Robot credentials, servers, storages *)
(* and the legacy backup configs.  They are written by web requests, which *)
(* wait for the Robot API between reading and writing, and by the commands *)
(* of the command line, which run in a process of their own on the same    *)
(* SQLite file.  No column but a user's email is unique, so what keeps a   *)
(* machine from having two rows is only that each writer looks first.      *)
(*                                                                         *)
(* Rows of a table are numbered from 1 in the order of their insertion.    *)
(***************************************************************************)
EXTENDS Naturals, Sequences, FiniteSets

CONSTANTS
  Users,        \* email addresses
  Machines,     \* machines the Robot account may hold
  Unaddressed,  \* those of them that have no IPv4 address
  Handlers,     \* web requests the panel may be working on
  MaxProviders, MaxServers, MaxStorages,  \* bounds: rows
  MaxActs       \* bound: requests, commands and machines bought

ASSUME MachinesAssumption ==
  /\ IsFiniteSet(Machines)
  /\ Unaddressed \subseteq Machines
  /\ Machines \intersect {"address", "none", "panel"} = {}
ASSUME BoundsAssumption == {MaxProviders, MaxServers, MaxStorages, MaxActs} \subseteq Nat

VARIABLES
  owned,     \* the machines in the Robot account
  users,     \* users[u]: how the row of u came about, "none" without one
  provs,     \* ProviderConfig rows
  servers,   \* Server rows
  storages,  \* StorageConfig rows; a deleted one stays here, "gone"
  key,       \* the ENCRYPTION_KEY the panel runs with
  op,        \* op[h]: the request that handler h is working on
  \* what the properties remember
  raced,     \* two requests that read before they write ran together
  careless,  \* a command stored Robot credentials nobody has tried
  nameless,  \* a server row was inserted without an address, or by its
             \* number beside one whose number was not known
  blind,     \* a storage was edited whose secrets the key did not open
  acts

vars == <<owned, users, provs, servers, storages, key, op, raced, careless,
          nameless, blind, acts>>
memory == <<raced, careless, nameless, blind>>
stores == <<storages, key, blind>>

Creds == {"good", "bad"}
Secrets == SUBSET {"password", "private_key"}
Keys == {"old", "new"}
Names == Machines \union {"panel"}
Idle == [kind |-> "none", step |-> "none", row |-> 0, user |-> "nobody", name |-> "panel",
         creds |-> "good", found |-> {}, known |-> {}]

\* A server row names its machine by the Robot's number, or by its address
\* while the number is not known.
Ids == Machines \union {"address"}
Addresses == Machines \union {"none"}
AddressOf(m) == IF m \in Unaddressed THEN "none" ELSE m

ProviderRows == [user : Users, name : Names, creds : Creds]
ServerRows ==
  [prov : 1..MaxProviders, id : Ids, ip : Addresses, legacy : 0..MaxStorages]
StorageRows ==
  [server : 1..MaxServers, secrets : Secrets, given : BOOLEAN, key : Keys,
   seeded : BOOLEAN, gone : BOOLEAN]
Requests ==
  [kind : {"none", "register", "add", "edit", "rediscover"},
   step : {"none", "save", "read"}, row : 0..MaxProviders,
   user : Users \union {"nobody"}, name : Names, creds : Creds,
   found : SUBSET Machines, known : SUBSET (1..MaxServers)]

TypeOK ==
  /\ owned \subseteq Machines
  /\ users \in [Users -> {"none", "registered", "seeded"}]
  /\ provs \in Seq(ProviderRows) /\ Len(provs) <= MaxProviders
  /\ servers \in Seq(ServerRows) /\ Len(servers) <= MaxServers
  /\ storages \in Seq(StorageRows) /\ Len(storages) <= MaxStorages
  /\ op \in [Handlers -> Requests]
  /\ raced \in BOOLEAN /\ careless \in BOOLEAN /\ nameless \in BOOLEAN
  /\ key \in Keys /\ blind \in BOOLEAN
  /\ acts \in 0..MaxActs

Init ==
  /\ owned \in SUBSET Machines
  /\ users = [u \in Users |-> "none"]
  /\ provs = << >> /\ servers = << >> /\ storages = << >>
  /\ op = [h \in Handlers |-> Idle]
  /\ raced = FALSE /\ careless = FALSE /\ nameless = FALSE
  /\ key = "old" /\ blind = FALSE
  /\ acts = 0

-----------------------------------------------------------------------------
Act == acts < MaxActs /\ acts' = acts + 1

Known(u) == users[u] # "none"
Providers == 1..Len(provs)
Servers == 1..Len(servers)
Storages == {t \in 1..Len(storages) : ~storages[t].gone}
Rows(p) == {s \in Servers : servers[s].prov = p}

\* Mutant of Row: the number is not filled in.
RowUnnumbered(p, m) == [prov |-> p, id |-> "", ip |-> AddressOf(m), legacy |-> 0]

Row(p, m) == [prov |-> p, id |-> m, ip |-> AddressOf(m), legacy |-> 0]

\* The rows of a set of machines, in the order in which the Robot lists them.
Listing(ms) ==
  {seq \in [1..Cardinality(ms) -> ms] : \A i, j \in DOMAIN seq : seq[i] = seq[j] => i = j}

InsertServers(p, ms) ==
  /\ Len(servers) + Cardinality(ms) <= MaxServers
  /\ \E list \in Listing(ms) :
       servers' = servers \o [i \in 1..Cardinality(ms) |-> Row(p, list[i])]
  /\ nameless' = (nameless \/ ms \intersect Unaddressed # {})

Busy == {h \in Handlers : op[h].kind # "none"}

Begin(h, request) ==
  /\ op[h].kind = "none"
  /\ Act
  /\ op' = [op EXCEPT ![h] = request]
  /\ raced' = (raced \/ Busy # {})

End(h) == op' = [op EXCEPT ![h] = Idle]

BuyMachine ==
  /\ \E m \in Machines \ owned : owned' = owned \union {m}
  /\ Act
  /\ UNCHANGED <<users, provs, servers, storages, key, op, memory>>

-----------------------------------------------------------------------------
(***************************************************************************)
(* Registration                                                            *)
(***************************************************************************)

\* Mutant of RegistrationOpen: anybody whose email is new may register.
RegistrationOpenToNew == \E u \in Users : users[u] = "none"

\* Only the first user may register; others are created by seed.
RegistrationOpen == \A u \in Users : users[u] = "none"

BeginRegister(h) ==
  /\ RegistrationOpen
  /\ \E u \in Users : Begin(h, [Idle EXCEPT !.kind = "register", !.step = "save", !.user = u])
  /\ UNCHANGED <<owned, users, provs, servers, stores, careless, nameless>>

\* The unique email turns the second of two equal requests away.
Register(h) ==
  /\ op[h].kind = "register"
  /\ users' = IF Known(op[h].user) THEN users
              ELSE [users EXCEPT ![op[h].user] = "registered"]
  /\ End(h)
  /\ UNCHANGED <<owned, provs, servers, storages, key, memory, acts>>

-----------------------------------------------------------------------------
(***************************************************************************)
(* Web requests that ask the Robot API                                     *)
(***************************************************************************)

\* Mutant of Tried: any credentials are taken.
Untried(creds) == creds \in Creds

\* list_servers answers; with credentials it refuses, nothing is stored.
Tried(creds) == creds = "good"

BeginAdd(h) ==
  /\ \E u \in Users, n \in Names : \E creds \in Creds :
       /\ Known(u) /\ Tried(creds)
       /\ Begin(h, [Idle EXCEPT !.kind = "add", !.step = "save", !.user = u, !.name = n,
                                !.creds = creds, !.found = owned])
  /\ UNCHANGED <<owned, users, provs, servers, stores, careless, nameless>>

\* A provider row and a server row for each machine, whether or not the same
\* account was added before; one commit at the end.
AddServer(h) ==
  /\ op[h].kind = "add"
  /\ Len(provs) < MaxProviders
  /\ provs' = Append(provs, [user |-> op[h].user, name |-> op[h].name,
                             creds |-> op[h].creds])
  /\ InsertServers(Len(provs) + 1, op[h].found)
  /\ End(h)
  /\ UNCHANGED <<owned, users, stores, raced, careless, acts>>

BeginEdit(h) ==
  /\ \E s \in Servers, creds \in Creds :
       /\ Tried(creds)
       /\ Begin(h, [Idle EXCEPT !.kind = "edit", !.step = "save",
                                !.row = servers[s].prov, !.creds = creds])
  /\ UNCHANGED <<owned, users, provs, servers, stores, careless, nameless>>

EditProvider(h) ==
  /\ op[h].kind = "edit"
  /\ \E n \in Names :
       provs' = [provs EXCEPT ![op[h].row] = [@ EXCEPT !.name = n, !.creds = op[h].creds]]
  /\ End(h)
  /\ UNCHANGED <<owned, users, servers, storages, key, memory, acts>>

BeginRediscover(h) ==
  /\ \E s \in Servers :
       /\ provs[servers[s].prov].creds = "good"
       /\ Begin(h, [Idle EXCEPT !.kind = "rediscover", !.step = "read",
                                !.row = servers[s].prov, !.found = owned])
  /\ UNCHANGED <<owned, users, provs, servers, stores, careless, nameless>>

\* The rows of the provider are read after the Robot has answered.
ReadExisting(h) ==
  /\ op[h].step = "read"
  /\ op' = [op EXCEPT ![h].step = "save", ![h].known = Rows(op[h].row)]
  /\ UNCHANGED <<owned, users, provs, servers, storages, key, memory, acts>>

\* Mutant of ByAddress: no row is recognised.
ByNothing(h, m) == {s \in op[h].known : FALSE /\ servers[s].ip = m}

\* by_ip: a row without an address is not found, nor is a machine without.
ByAddress(h, m) == {s \in op[h].known : m \notin Unaddressed /\ servers[s].ip = m}

\* The last of the rows with an address gets the number; a machine that no
\* row was found for gets a new one.
Rediscover(h) ==
  LET new == {m \in op[h].found : ByAddress(h, m) = {}}
      renumbered(s) == \E m \in op[h].found :
        s \in ByAddress(h, m) /\ \A t \in ByAddress(h, m) : t <= s
      numbered == [s \in Servers |->
        IF renumbered(s) THEN [servers[s] EXCEPT !.id = servers[s].ip] ELSE servers[s]]
  IN /\ op[h].kind = "rediscover" /\ op[h].step = "save"
     /\ Len(servers) + Cardinality(new) <= MaxServers
     /\ \E list \in Listing(new) :
          servers' = numbered \o [i \in 1..Cardinality(new) |-> Row(op[h].row, list[i])]
     /\ nameless' = (nameless \/ new \intersect Unaddressed # {})
     /\ End(h)
     /\ UNCHANGED <<owned, users, provs, stores, raced, careless, acts>>

-----------------------------------------------------------------------------
(***************************************************************************)
(* Commands.  Their first write takes SQLite's lock for the rest of the    *)
(* transaction, and it comes before they look for a server: the encrypted  *)
(* credentials differ each time and are written with the next query.       *)
(***************************************************************************)

\* scalar_one_or_none: none, the one, or an error that ends the command.
AtMostOne(set) == Cardinality(set) <= 1

\* Every command leaves what it did not write to the other actions.
Command ==
  /\ Act
  /\ UNCHANGED <<owned, key, op, blind>>
  /\ raced' = (raced \/ Busy # {})

\* Inserts or updates the provider row that set holds, giving it creds.
PutProvider(u, n, set, creds) ==
  provs' = IF set = {} THEN Append(provs, [user |-> u, name |-> n, creds |-> creds])
           ELSE [p \in Providers |-> IF p \in set THEN [provs[p] EXCEPT !.creds = creds]
                                     ELSE provs[p]]

\* Inserts or updates the storage row that set holds: the new secrets
\* replace the old ones, none at all included.
PutStorage(s, set, secrets, seeded) ==
  storages' = IF set = {}
              THEN Append(storages, [server |-> s, secrets |-> secrets, key |-> key,
                                     given |-> secrets # {}, seeded |-> seeded,
                                     gone |-> FALSE])
              ELSE [t \in 1..Len(storages) |->
                IF t \in set THEN [storages[t] EXCEPT !.secrets = secrets, !.key = key,
                                                      !.given = secrets # {}]
                ELSE storages[t]]

\* The daily, the weekly and the monthly legacy config of the server, each
\* inserted or updated, send to this storage and to no other.
AimLegacy(rows, s, t) == [rows EXCEPT ![s].legacy = t]

Only(set, new) == IF set = {} THEN new ELSE CHOOSE x \in set : TRUE

\* User by email, provider by name, server by address, storage by name.
\* Without Robot credentials, empty ones replace those that were there.
Seed(u, m) ==
  LET ps == {p \in Providers : provs[p].user = u /\ provs[p].name = "panel"}
      p == Only(ps, Len(provs) + 1)
      ss == {s \in Rows(p) : servers[s].ip = m}
      s == Only(ss, Len(servers) + 1)
      ts == {t \in Storages : storages[t].server = s /\ storages[t].seeded}
  IN /\ m \notin Unaddressed
     /\ AtMostOne(ps) /\ AtMostOne(ss) /\ AtMostOne(ts)
     /\ p <= MaxProviders /\ s <= MaxServers
     /\ Only(ts, Len(storages) + 1) <= MaxStorages
     /\ users' = IF Known(u) THEN users ELSE [users EXCEPT ![u] = "seeded"]
     /\ \E creds \in Creds : PutProvider(u, "panel", ps, creds)
     /\ servers' = IF ss # {} THEN servers
                   ELSE Append(servers, [Row(p, m) EXCEPT !.id = "address"])
     /\ \E secrets \in Secrets : PutStorage(s, ts, secrets, TRUE)
     /\ careless' = TRUE
     /\ UNCHANGED nameless
     /\ Command

\* The rows of a provider whose machines' numbers are not known yet.
Unnumbered(p) == {s \in Rows(p) : servers[s].id = "address"}

\* Provider by the name "hetzner-<number>", server by number, storage by its
\* type; then the legacy configs are aimed at that storage.
Import(u, m) ==
  LET ps == {p \in Providers : provs[p].user = u /\ provs[p].name = m}
      p == Only(ps, Len(provs) + 1)
      ss == {s \in Rows(p) : servers[s].id = m}
      s == Only(ss, Len(servers) + 1)
      ts == {t \in Storages : storages[t].server = s}
      t == Only(ts, Len(storages) + 1)
  IN /\ Known(u)
     /\ AtMostOne(ps) /\ AtMostOne(ss) /\ AtMostOne(ts)
     /\ p <= MaxProviders /\ s <= MaxServers /\ t <= MaxStorages
     /\ \E creds \in Creds : PutProvider(u, m, ps, creds)
     /\ \E ip \in {AddressOf(m), "none"} :
          /\ servers' = AimLegacy(
               IF ss = {} THEN Append(servers, [Row(p, m) EXCEPT !.ip = ip])
               ELSE [servers EXCEPT ![s].ip = IF ip = "none" THEN @ ELSE ip], s, t)
          /\ nameless' = (nameless \/ (ss = {} /\ (ip = "none" \/ Unnumbered(p) # {})))
     /\ \E secrets \in {{}, {"private_key"}} : PutStorage(s, ts, secrets, FALSE)
     /\ careless' = TRUE
     /\ UNCHANGED users
     /\ Command

SeedLegacyBackups ==
  /\ \E t \in Storages : servers' = AimLegacy(servers, storages[t].server, t)
  /\ UNCHANGED <<users, provs, storages, careless, nameless>>
  /\ Command

\* The number of the machine that has the row's address.
SyncFromRobot ==
  /\ \E s \in Servers :
       /\ provs[servers[s].prov].creds = "good"
       /\ servers[s].ip \in owned
       /\ servers' = [servers EXCEPT ![s].id = servers[s].ip]
  /\ UNCHANGED <<users, provs, storages, careless, nameless>>
  /\ Command

SetRobotCreds ==
  /\ \E s \in Servers, creds \in Creds :
       provs' = [provs EXCEPT ![servers[s].prov].creds = creds]
  /\ careless' = TRUE
  /\ UNCHANGED <<users, servers, storages, nameless>>
  /\ Command

-----------------------------------------------------------------------------
(***************************************************************************)
(* Storages                                                                *)
(***************************************************************************)

CreateStorage ==
  /\ Act
  /\ Len(storages) < MaxStorages
  /\ \E s \in Servers, secrets \in Secrets : PutStorage(s, {}, secrets, FALSE)
  /\ UNCHANGED <<owned, users, provs, servers, key, op, memory>>

\* Mutant of Preserved: what was not entered again is not kept.
PreservedNever(entered, old) == entered \union (old \ {"password", "private_key"})

\* Nothing entered keeps both secrets; one entered again drops the other.
Preserved(entered, old) == IF entered = {} THEN old ELSE entered

\* Secrets that cannot be decrypted count as none, and the row is written.
EditStorage ==
  /\ Act
  /\ \E t \in Storages, entered \in Secrets :
       LET opened == storages[t].key = key
           old == IF opened THEN storages[t].secrets ELSE {}
       IN /\ storages' = [storages EXCEPT ![t] =
               [storages[t] EXCEPT !.secrets = Preserved(entered, old), !.key = key,
                                   !.given = storages[t].given \/ entered # {}]]
          /\ blind' = (blind \/ ~opened)
  /\ UNCHANGED <<owned, users, provs, servers, key, op, raced, careless, nameless>>

\* The panel is started with another key, lost or found again.
ChangeKey ==
  /\ Act
  /\ key' \in Keys \ {key}
  /\ UNCHANGED <<owned, users, provs, servers, storages, op, memory>>

\* Backup configs that name the storage are not told.
DeleteStorage ==
  /\ Act
  /\ \E t \in Storages : storages' = [storages EXCEPT ![t].gone = TRUE]
  /\ UNCHANGED <<owned, users, provs, servers, key, op, memory>>

-----------------------------------------------------------------------------
Web(h) ==
  \/ BeginRegister(h) \/ Register(h)
  \/ BeginAdd(h) \/ AddServer(h)
  \/ BeginEdit(h) \/ EditProvider(h)
  \/ BeginRediscover(h) \/ ReadExisting(h) \/ Rediscover(h)

CommandLine ==
  \/ \E u \in Users, m \in Machines : Seed(u, m) \/ Import(u, m)
  \/ SeedLegacyBackups \/ SyncFromRobot \/ SetRobotCreds

Next ==
  \/ BuyMachine
  \/ \E h \in Handlers : Web(h)
  \/ CommandLine
  \/ CreateStorage \/ EditStorage \/ DeleteStorage \/ ChangeKey

Spec == Init /\ [][Next]_vars

-----------------------------------------------------------------------------
(***************************************************************************)
(* Properties                                                              *)
(***************************************************************************)

MachineOf(s) == IF servers[s].id = "address" THEN servers[s].ip ELSE servers[s].id

\* One provider has two rows for one machine only if a row was once stored
\* without an address, or by its number beside one without its number (a
\* seeded provider renamed as the import names them), or if two requests ran
\* together.
NoDuplicates ==
  (\E s, t \in Servers : /\ s # t /\ servers[s].prov = servers[t].prov
                         /\ MachineOf(s) = MachineOf(t))
    => nameless \/ raced

\* The number in a row that has an address is that of the machine at the
\* address, so a reset never goes to another machine than SSH does.
NumberFitsAddress ==
  \A s \in Servers : (servers[s].id # "address" /\ servers[s].ip # "none") =>
    servers[s].id = servers[s].ip

\* The rows of the servers stand for the machines, one for one, although
\* five writers go by the address, the number, or neither.
RowsFitMachines == NoDuplicates /\ NumberFitsAddress

\* Registration makes a second administrator only if two requests raced.
SecondAdminExplained ==
  Cardinality({u \in Users : users[u] = "registered"}) > 1 => raced

\* Credentials that the Robot refuses were stored by a command, never by a
\* web request, whichever requests and commands overlapped.
BadCredsExplained ==
  (\E p \in Providers : provs[p].creds = "bad") => careless

\* A storage keeps a secret once it has been given one, through every edit,
\* unless it was edited under a key that did not open it (what it held is
\* then written over although the right key may be found again).
SecretKept ==
  \A t \in Storages : storages[t].given => storages[t].secrets # {} \/ blind
=============================================================================
