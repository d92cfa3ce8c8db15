------------------------------ MODULE Startup ------------------------------
(***************************************************************************)
(* How the gateway comes up: the configuration is read entry by entry      *)
(* (gateway/config.cpp), and the constructor of Controller                 *)
(* (gateway/controller.cpp) makes the accounts, what they share and the    *)
(* streams, each with the next stream id.  Any condition the code does not *)
(* accept ends the process with log::fatal.                                *)
(*                                                                         *)
(* The accounts and the order-entry streams are made by iterating over     *)
(* hash maps, so their order is left open.                                 *)
(***************************************************************************)
EXTENDS Naturals, Sequences, SequencesExt, Functions

CONSTANTS
  Names,        \* names of accounts
  MaxEntries    \* bound: entries of the configuration

ASSUME EntriesAssumption == MaxEntries \in Nat

CONSTANT NoName   \* the empty name
ASSUME NoNameAssumption == NoName \notin Names

(* An [accounts] entry; login and secret tell whether they are given. *)
Entry == [name : Names, master : BOOLEAN, login : BOOLEAN, secret : BOOLEAN]

(* The settings the constructors look at; those of multicast tell whether  *)
(* they are given, request_template whether the configuration has one.     *)
Settings ==
  [local_interface : BOOLEAN, channel_ids : BOOLEAN, config_file : BOOLEAN,
   disable_master_account_check : BOOLEAN, request_template : BOOLEAN]

VARIABLES
  settings,         \* the settings
  config,           \* the configuration file
  unread,           \* the entries of it that Config has not been given yet
  master_account,   \* master_account_
  accounts,         \* config.accounts: the entry kept for a name
  step,             \* where the constructor is
  created,          \* names of the accounts made: accounts_
  stream_id,        \* stream_id_
  order_entry,      \* stream ids of order_entry_, by name
  snapshot,         \* stream id of market_data_snapshot_, 0 if there is none
  market_data,      \* stream id of market_data_, 0 if there is none
  fatal             \* what log::fatal was called for

vars == <<settings, config, unread, master_account, accounts, step, created,
          stream_id, order_entry, snapshot, market_data, fatal>>

(* An account is a table of the configuration, and tables have names of    *)
(* their own; the parser takes them in an order the file does not fix.     *)
DistinctNames(s) == \A i, j \in DOMAIN s : s[i].name = s[j].name => i = j

Init ==
  /\ settings \in Settings
  /\ config \in {s \in BoundedSeq(Entry, MaxEntries) : DistinctNames(s)}
  /\ unread = config
  /\ master_account = NoName
  /\ accounts = <<>>
  /\ step = "config"
  /\ created = {}
  /\ stream_id = 0
  /\ order_entry = <<>>
  /\ snapshot = 0
  /\ market_data = 0
  /\ fatal = "none"

Alive == fatal = "none"

(* Config::operator()(Account): the last master wins (slips: the first; or *)
(* none if an account follows it).                                         *)
Put(f, name, value) == [n \in DOMAIN f \cup {name} |-> IF n = name THEN value ELSE f[n]]

FirstMaster(master, entry) == IF entry.master /\ master = NoName THEN entry.name ELSE master
ForgetMaster(master, entry) == IF entry.master THEN entry.name ELSE NoName
LastMaster(master, entry) == IF entry.master THEN entry.name ELSE master

(* accounts is an emplace into config.accounts: names are distinct, so the *)
(* entry is always new.                                                    *)
ReadAccount ==
  /\ Alive
  /\ step = "config"
  /\ unread # <<>>
  /\ unread' = Tail(unread)
  /\ master_account' = LastMaster(master_account, Head(unread))
  /\ accounts' = Put(accounts, Head(unread).name, Head(unread))
  /\ UNCHANGED <<settings, config, step, created, stream_id, order_entry,
                 snapshot, market_data, fatal>>

(* Config::operator()(RequestTemplate), wherever in the file it stands. *)
ReadRequestTemplate ==
  /\ Alive
  /\ step = "config"
  /\ settings.request_template
  /\ fatal' = "request templates not supported"
  /\ UNCHANGED <<settings, config, unread, master_account, accounts, step,
                 created, stream_id, order_entry, snapshot, market_data>>

(* create_master_account, once the file is read. *)
CreateMasterAccount ==
  /\ Alive
  /\ step = "config"
  /\ unread = <<>>
  /\ ~settings.request_template
  /\ fatal' = IF master_account = NoName THEN "no master account" ELSE "none"
  /\ step' = "accounts"
  /\ UNCHANGED <<settings, config, unread, master_account, accounts, created,
                 stream_id, order_entry, snapshot, market_data>>

(* The constructor of Account: create_key and create_crypto ask for the    *)
(* key and the secret by name (a slip: an empty secret passes).            *)
KeyOnly(entry) == IF entry.login THEN "none" ELSE "missing key"
Credentials(entry) ==
  CASE ~entry.login -> "missing key"
    [] entry.login /\ ~entry.secret -> "missing secret"
    [] entry.login /\ entry.secret -> "none"

(* One round of create_accounts. *)
CreateAccount(name) ==
  /\ Alive
  /\ step = "accounts"
  /\ name \notin created
  /\ fatal' = Credentials(accounts[name])
  /\ created' = created \cup {name}
  /\ UNCHANGED <<settings, config, unread, master_account, accounts, step,
                 stream_id, order_entry, snapshot, market_data>>

(* The constructor of Shared: get_multicast. *)
HasMulticast == settings.local_interface

CreateShared ==
  /\ Alive
  /\ step = "accounts"
  /\ created = DOMAIN accounts
  /\ fatal' = CASE HasMulticast /\ ~settings.channel_ids -> "no channel ids"
                [] HasMulticast /\ settings.channel_ids /\ ~settings.config_file -> "no config file"
                [] OTHER -> "none"
  /\ step' = "order entry"
  /\ UNCHANGED <<settings, config, unread, master_account, accounts, created,
                 stream_id, order_entry, snapshot, market_data>>

(* ++stream_id; slips: the id of the stream before, and a first id of -1.  *)
SameStreamId == IF stream_id = 0 THEN 1 ELSE stream_id
MinusOneStreamId == IF stream_id = 0 THEN 0 - 1 ELSE stream_id + 1
NextStreamId == stream_id + 1

(* One round of create_order_entry. *)
CreateOrderEntry(name) ==
  /\ Alive
  /\ step = "order entry"
  /\ name \notin DOMAIN order_entry
  /\ stream_id' = NextStreamId
  /\ order_entry' = Put(order_entry, name, stream_id')
  /\ UNCHANGED <<settings, config, unread, master_account, accounts, step,
                 created, snapshot, market_data, fatal>>

(* create_market_data_snapshot and create_market_data: an id is used up    *)
(* whether or not the stream is made.                                      *)
CreateSnapshot ==
  /\ Alive
  /\ step = "order entry"
  /\ DOMAIN order_entry = created
  /\ stream_id' = NextStreamId
  /\ snapshot' = IF HasMulticast THEN stream_id' ELSE 0
  /\ step' = "market data"
  /\ UNCHANGED <<settings, config, unread, master_account, accounts, created,
                 order_entry, market_data, fatal>>

CreateMarketData ==
  /\ Alive
  /\ step = "market data"
  /\ stream_id' = NextStreamId
  /\ market_data' = IF HasMulticast THEN stream_id' ELSE 0
  /\ step' = "body"
  /\ UNCHANGED <<settings, config, unread, master_account, accounts, created,
                 order_entry, snapshot, fatal>>

(* The body of the constructor of Controller. *)
CheckMasterAccount ==
  /\ Alive
  /\ step = "body"
  /\ fatal' = IF master_account = NoName /\ ~settings.disable_master_account_check
              THEN "a master account is required" ELSE "none"
  /\ step' = "up"
  /\ UNCHANGED <<settings, config, unread, master_account, accounts, created,
                 stream_id, order_entry, snapshot, market_data>>

Next ==
  \/ ReadAccount
  \/ ReadRequestTemplate
  \/ CreateMasterAccount
  \/ \E name \in DOMAIN accounts : CreateAccount(name)
  \/ CreateShared
  \/ \E name \in created : CreateOrderEntry(name)
  \/ CreateSnapshot
  \/ CreateMarketData
  \/ CheckMasterAccount

Spec == Init /\ [][Next]_vars

(* A constructor runs to its end. *)
FairSpec == Spec /\ WF_vars(Next)

-----------------------------------------------------------------------------
(* The type invariant: every variable stays within the states of the code. *)
TypeOK ==
  /\ settings \in Settings
  /\ config \in Seq(Entry)
  /\ unread \in Seq(Entry)
  /\ master_account \in Names \cup {NoName}
  /\ DOMAIN accounts \subseteq Names
  /\ \A n \in DOMAIN accounts : accounts[n] \in Entry
  /\ step \in {"config", "accounts", "order entry", "market data", "body", "up"}
  /\ created \subseteq DOMAIN accounts
  /\ stream_id \in Nat
  /\ DOMAIN order_entry \subseteq created
  /\ \A n \in DOMAIN order_entry : order_entry[n] \in Nat
  /\ snapshot \in Nat
  /\ market_data \in Nat
  /\ fatal \in {"none", "request templates not supported", "no master account",
                "missing key", "missing secret", "no channel ids", "no config file",
                "a master account is required"}

Up == Alive /\ step = "up"

(* No two streams of a gateway share a stream id, whichever streams there  *)
(* are and in whatever order the accounts come: order requests and stream  *)
(* status are routed by it (the ++stream_id of create_order_entry and of   *)
(* the constructor of Controller).                                         *)
StreamIdsUnique ==
  LET multicast == {i \in {snapshot, market_data} : i # 0} IN
  /\ IsInjective(order_entry)
  /\ Range(order_entry) \cap multicast = {}
  /\ snapshot # 0 => snapshot # market_data

(* What the code demands of a configuration. *)
Acceptable ==
  /\ ~settings.request_template
  /\ \E i \in DOMAIN config : config[i].master
  /\ \A i \in DOMAIN config : config[i].login /\ config[i].secret
  /\ settings.local_interface => settings.channel_ids /\ settings.config_file

(* A gateway that is up has one order-entry stream for each account of the *)
(* configuration, whichever order they come in, and the two streams of     *)
(* multicast if that is configured, and nothing that the configuration     *)
(* lacks was passed over on the way: every account can sign                *)
(* (create_accounts, the constructor of Account, create_order_entry,       *)
(* get_multicast, create_market_data).                                     *)
ServesTheConfiguration ==
  Up =>
    /\ Acceptable
    /\ DOMAIN order_entry = {config[i].name : i \in DOMAIN config}
    /\ snapshot # 0 <=> settings.local_interface
    /\ market_data # 0 <=> settings.local_interface

(* No acceptable configuration is refused by any of the checks, whichever  *)
(* order its accounts come in (all of log::fatal in config.cpp,            *)
(* account.cpp, shared.cpp and the constructor of Controller).             *)
RefusalIsJustified == ~Alive => ~Acceptable

(* A gateway with an acceptable configuration comes up: the constructors   *)
(* neither end the process nor wait for one another (the order of the      *)
(* member initializers of Controller).                                     *)
ComesUp == Acceptable ~> Up

(* The master account of a gateway that is up is the account of the last   *)
(* entry marked so, and it is one of the accounts served                   *)
(* (Config::operator()(Account), create_master_account).                   *)
MasterIsServed ==
  Up =>
    \E i \in DOMAIN config :
      /\ config[i].master
      /\ config[i].name = master_account
      /\ \A j \in i + 1 .. Len(config) : ~config[j].master
      /\ master_account \in DOMAIN order_entry

(* "(TEST) Disable requirement for master account", flags/misc.json: with  *)
(* the flag, no configuration is refused for want of a master account      *)
(* (create_master_account, the constructor of Controller).                 *)
MasterCheckCanBeDisabled ==
  settings.disable_master_account_check =>
    fatal \notin {"no master account", "a master account is required"}

=============================================================================
