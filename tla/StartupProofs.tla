--------------------------- MODULE StartupProofs ---------------------------
(***************************************************************************)
(* That a gateway that comes up serves its configuration under stream ids  *)
(* of their own, and that nothing acceptable is refused, for any number of *)
(* accounts.                                                               *)
(***************************************************************************)
EXTENDS Startup, TLAPS

-----------------------------------------------------------------------------
(* How many entries of the configuration have been read. *)
NumRead(c, u) == Len(c) - Len(u)

(* What is known of the file that is being read. *)
ReadInv ==
  /\ DistinctNames(config)
  /\ Len(unread) <= Len(config)
  /\ \A i \in 1 .. Len(unread) : unread[i] = config[NumRead(config, unread) + i]
  /\ step # "config" => unread = <<>>

(* accounts is what has been read. *)
AccountsInv ==
  /\ DOMAIN accounts = {config[i].name : i \in 1 .. NumRead(config, unread)}
  /\ \A i \in 1 .. NumRead(config, unread) : accounts[config[i].name] = config[i]

(* master_account is the last master that has been read. *)
IsLastMaster(m, c, n) ==
  \/ m = NoName /\ \A i \in 1 .. n : ~c[i].master
  \/ \E i \in 1 .. n :
       /\ c[i].master
       /\ c[i].name = m
       /\ \A j \in i + 1 .. n : ~c[j].master

MasterInv == IsLastMaster(master_account, config, NumRead(config, unread))

(* What has been checked of a gateway that is alive. *)
CheckedInv ==
  /\ fatal # "none" => ~Acceptable
  /\ Alive /\ step # "config" => ~settings.request_template /\ master_account # NoName
  /\ Alive => \A n \in created : accounts[n].login /\ accounts[n].secret
  /\ Alive /\ step \notin {"config", "accounts"} =>
       /\ created = DOMAIN accounts
       /\ settings.local_interface => settings.channel_ids /\ settings.config_file

(* The ids in use are different and at most stream_id. *)
IdsInv ==
  /\ \A n \in DOMAIN order_entry : order_entry[n] \in 1 .. stream_id
  /\ \A m, n \in DOMAIN order_entry : order_entry[m] = order_entry[n] => m = n
  /\ step \in {"config", "accounts", "order entry"} => snapshot = 0
  /\ step \in {"config", "accounts", "order entry", "market data"} => market_data = 0
  /\ snapshot # 0 => /\ snapshot \in 1 .. stream_id
                     /\ \A n \in DOMAIN order_entry : order_entry[n] # snapshot
  /\ market_data # 0 => /\ market_data \in 1 .. stream_id
                        /\ market_data # snapshot
                        /\ \A n \in DOMAIN order_entry : order_entry[n] # market_data
  /\ step \in {"market data", "body", "up"} =>
       /\ DOMAIN order_entry = created
       /\ snapshot # 0 <=> settings.local_interface
  /\ step \in {"body", "up"} => (market_data # 0 <=> settings.local_interface)

StartupInv ==
  TypeOK /\ ReadInv /\ AccountsInv /\ MasterInv /\ CheckedInv /\ IdsInv

-----------------------------------------------------------------------------
(* The configuration is a sequence of entries. *)
LEMMA ConfigType ==
  ASSUME NEW s \in BoundedSeq(Entry, MaxEntries)
  PROVE  s \in Seq(Entry)
<1>1. PICK n \in 0 .. MaxEntries : s \in [1 .. n -> Entry]
  BY DEF BoundedSeq, SeqOf
<1>2. n \in Nat
  BY <1>1, EntriesAssumption
<1> QED
  BY <1>1, <1>2

(* The invariant holds at first. *)
LEMMA StartupInit == Init => StartupInv
<1> SUFFICES ASSUME Init PROVE StartupInv
  OBVIOUS
<1>1. config \in Seq(Entry) /\ Len(config) \in Nat /\ unread = config
  BY ConfigType DEF Init
<1>2. NumRead(config, unread) = 0
  BY <1>1 DEF NumRead
<1>3. DOMAIN accounts = {} /\ DOMAIN order_entry = {}
  BY DEF Init
<1>4. TypeOK
  BY <1>1, <1>3 DEF Init, TypeOK
<1>5. ReadInv
  BY <1>1, <1>2 DEF Init, ReadInv
<1>6. AccountsInv
  BY <1>2, <1>3 DEF AccountsInv
<1>7. MasterInv
  BY <1>2 DEF Init, MasterInv, IsLastMaster
<1>8. CheckedInv /\ IdsInv
  BY <1>3 DEF Init, CheckedInv, IdsInv, Alive
<1> QED
  BY <1>4, <1>5, <1>6, <1>7, <1>8 DEF StartupInv

(* What the invariant says of lengths. *)
LEMMA Lengths ==
  ASSUME StartupInv
  PROVE  /\ config \in Seq(Entry) /\ Len(config) \in Nat
         /\ unread \in Seq(Entry) /\ Len(unread) \in Nat
         /\ NumRead(config, unread) \in 0 .. Len(config)
         /\ DOMAIN config = 1 .. Len(config)
         /\ \A i \in 1 .. Len(config) : config[i] \in Entry /\ config[i].name \in Names
<1>1. /\ config \in Seq(Entry) /\ Len(config) \in Nat
      /\ unread \in Seq(Entry) /\ Len(unread) \in Nat
      /\ Len(unread) <= Len(config)
  <2>1. config \in Seq(Entry) /\ unread \in Seq(Entry)
    BY DEF StartupInv, TypeOK
  <2>2. Len(unread) <= Len(config)
    BY DEF StartupInv, ReadInv
  <2> QED
    BY <2>1, <2>2
<1>2. \A i \in 1 .. Len(config) : config[i] \in Entry
  BY <1>1
<1>3. \A e \in Entry : e.name \in Names
  BY DEF Entry
<1> QED
  BY <1>1, <1>2, <1>3 DEF NumRead

(* The whole file has been read when the constructors run. *)
LEMMA AllRead ==
  ASSUME StartupInv, unread = <<>>
  PROVE  /\ NumRead(config, unread) = Len(config)
         /\ DOMAIN accounts = {config[i].name : i \in DOMAIN config}
         /\ \A i \in DOMAIN config : accounts[config[i].name] = config[i]
<1>1. Len(unread) = 0 /\ Len(config) \in Nat /\ DOMAIN config = 1 .. Len(config)
  BY Lengths
<1>2. NumRead(config, unread) = Len(config)
  BY <1>1 DEF NumRead
<1> QED
  BY <1>1, <1>2 DEF StartupInv, AccountsInv

(* The master after one more entry. *)
LEMMA MasterOfNext ==
  ASSUME NEW m, NEW c, NEW n \in Nat, IsLastMaster(m, c, n), NEW e, c[n + 1] = e
  PROVE  IsLastMaster(LastMaster(m, e), c, n + 1)
<1>1. CASE e.master
  <2>1. /\ c[n + 1].master
        /\ c[n + 1].name = LastMaster(m, e)
        /\ \A j \in (n + 1) + 1 .. n + 1 : ~c[j].master
    BY <1>1 DEF LastMaster
  <2> QED
    BY <2>1 DEF IsLastMaster
<1>2. CASE ~e.master
  <2>1. LastMaster(m, e) = m
    BY <1>2 DEF LastMaster
  <2>2. CASE m = NoName /\ \A i \in 1 .. n : ~c[i].master
    <3>1. \A i \in 1 .. n + 1 : i \in 1 .. n \/ i = n + 1
      OBVIOUS
    <3> QED
      BY <1>2, <2>1, <2>2, <3>1 DEF IsLastMaster
  <2>3. CASE \E i \in 1 .. n :
               c[i].master /\ c[i].name = m /\ \A j \in i + 1 .. n : ~c[j].master
    <3>1. PICK i \in 1 .. n :
            c[i].master /\ c[i].name = m /\ \A j \in i + 1 .. n : ~c[j].master
      BY <2>3
    <3>2. \A j \in i + 1 .. n + 1 : j \in i + 1 .. n \/ j = n + 1
      BY <3>1
    <3>3. \A j \in i + 1 .. n + 1 : ~c[j].master
      BY <1>2, <3>1, <3>2
    <3>4. i \in 1 .. n + 1
      BY <3>1
    <3> QED
      BY <2>1, <3>1, <3>3, <3>4 DEF IsLastMaster
  <2> QED
    BY <2>2, <2>3 DEF IsLastMaster
<1> QED
  BY <1>1, <1>2

(* Reading an account keeps the invariant. *)
LEMMA ReadAccountInv == ASSUME StartupInv, ReadAccount PROVE StartupInv'
<1> DEFINE n == NumRead(config, unread)
           e == Head(unread)
<1>1. /\ unread \in Seq(Entry) /\ unread # <<>>
      /\ unread' = Tail(unread)
      /\ config' = config
      /\ master_account' = LastMaster(master_account, e)
      /\ accounts' = Put(accounts, e.name, e)
      /\ step = "config" /\ step' = "config"
      /\ fatal = "none" /\ fatal' = "none"
  BY Lengths DEF ReadAccount, Alive
<1>2. /\ unread' \in Seq(Entry)
      /\ Len(unread') = Len(unread) - 1
      /\ Len(unread) \in Nat \ {0}
      /\ e = unread[1]
      /\ e \in Entry
      /\ \A i \in 1 .. Len(unread) - 1 : unread'[i] = unread[i + 1]
  BY <1>1
<1>3. n \in Nat /\ n + 1 <= Len(config) /\ Len(config) \in Nat
      /\ NumRead(config', unread') = n + 1
  BY <1>1, <1>2, Lengths DEF NumRead
<1>4. \A i \in 1 .. Len(unread) : unread[i] = config[n + i]
  BY DEF StartupInv, ReadInv
<1>5. e = config[n + 1]
  BY <1>2, <1>4
<1> HIDE DEF n, e
<1>6. ReadInv'
  <2>1. ASSUME NEW i \in 1 .. Len(unread')
        PROVE  unread'[i] = config[(n + 1) + i]
    <3>1. i \in 1 .. Len(unread) - 1 /\ i + 1 \in 1 .. Len(unread)
      BY <1>2
    <3>2. unread'[i] = config[n + (i + 1)]
      BY <1>2, <1>4, <3>1
    <3>3. n + (i + 1) = (n + 1) + i
      BY <1>3, <3>1
    <3> QED
      BY <3>2, <3>3
  <2>2. DistinctNames(config)
    BY DEF StartupInv, ReadInv
  <2>3. Len(unread) <= Len(config)
    BY DEF StartupInv, ReadInv
  <2>4. Len(unread') <= Len(config)
    BY <1>2, <1>3, <2>3
  <2> QED
    BY <1>1, <1>3, <2>1, <2>2, <2>4 DEF ReadInv
<1>7. DOMAIN accounts' = DOMAIN accounts \cup {e.name}
  BY <1>1 DEF Put
<1>8. \A k \in DOMAIN accounts' : accounts'[k] = IF k = e.name THEN e ELSE accounts[k]
  BY <1>1, <1>7 DEF Put
<1>9. AccountsInv'
  <2>1. \A i \in 1 .. n + 1 : i \in 1 .. n \/ i = n + 1
    BY <1>3
  <2>2. DOMAIN accounts = {config[i].name : i \in 1 .. n}
    BY DEF StartupInv, AccountsInv, n
  <2>3. DOMAIN accounts' = {config[i].name : i \in 1 .. n + 1}
    BY <1>3, <1>5, <1>7, <2>1, <2>2
  <2>4. ASSUME NEW i \in 1 .. n + 1
        PROVE  accounts'[config[i].name] = config[i]
    <3>1. config[i].name \in DOMAIN accounts'
      BY <2>3
    <3>2. CASE i = n + 1
      BY <1>5, <1>8, <3>1, <3>2
    <3>3. CASE i \in 1 .. n
      <4>1. i \in DOMAIN config /\ n + 1 \in DOMAIN config /\ i # n + 1
        BY <1>3, <3>3, Lengths
      <4>2. config[i].name # e.name
        BY <1>5, <4>1 DEF StartupInv, ReadInv, DistinctNames
      <4>3. accounts[config[i].name] = config[i]
        BY <3>3 DEF StartupInv, AccountsInv, n
      <4> QED
        BY <1>8, <3>1, <4>2, <4>3
    <3> QED
      BY <2>1, <3>2, <3>3
  <2> QED
    BY <1>1, <1>3, <2>3, <2>4 DEF AccountsInv
<1>10. MasterInv'
  <2>1. IsLastMaster(master_account, config, n)
    BY DEF StartupInv, MasterInv, n
  <2>2. IsLastMaster(LastMaster(master_account, e), config, n + 1)
    BY <1>3, <1>5, <2>1, MasterOfNext
  <2> QED
    BY <1>1, <1>3, <2>2 DEF MasterInv
<1>11. created \subseteq DOMAIN accounts /\ created' = created /\ settings' = settings
       /\ order_entry' = order_entry /\ snapshot' = snapshot /\ market_data' = market_data
       /\ stream_id' = stream_id
  BY DEF ReadAccount, StartupInv, TypeOK
<1>12. \A k \in created : accounts'[k].login /\ accounts'[k].secret
  <2>1. \A k \in created : accounts[k].login /\ accounts[k].secret
    BY <1>1 DEF StartupInv, CheckedInv, Alive
  <2>2. CASE e.name \in created
    <3>1. PICK i \in 1 .. n : e.name = config[i].name
      BY <1>11, <2>2 DEF StartupInv, AccountsInv, n
    <3>2. i \in DOMAIN config /\ n + 1 \in DOMAIN config /\ i # n + 1
      BY <1>3, <3>1, Lengths
    <3> QED
      BY <1>5, <3>1, <3>2 DEF StartupInv, ReadInv, DistinctNames
  <2>3. CASE e.name \notin created
    BY <1>7, <1>8, <1>11, <2>1, <2>3
  <2> QED
    BY <2>2, <2>3
<1>13. CheckedInv'
  BY <1>1, <1>11, <1>12 DEF CheckedInv, Alive
<1>14. IdsInv'
  BY <1>1, <1>11 DEF StartupInv, IdsInv
<1>15. TypeOK'
  <2>1. e.name \in Names /\ LastMaster(master_account, e) \in Names \cup {NoName}
    BY <1>2 DEF StartupInv, TypeOK, LastMaster, Entry
  <2>2. \A k \in DOMAIN accounts' : accounts'[k] \in Entry
    BY <1>2, <1>7, <1>8 DEF StartupInv, TypeOK
  <2> QED
    BY <1>1, <1>2, <1>7, <1>11, <2>1, <2>2 DEF StartupInv, TypeOK
<1> QED
  BY <1>6, <1>9, <1>10, <1>13, <1>14, <1>15 DEF StartupInv

(* A step that reads nothing keeps what is known of the file. *)
LEMMA SameFile ==
  ASSUME StartupInv, UNCHANGED <<config, unread, master_account, accounts>>,
         step' # "config" => unread = <<>>
  PROVE  ReadInv' /\ AccountsInv' /\ MasterInv'
<1>1. ReadInv'
  BY DEF StartupInv, ReadInv
<1>2. AccountsInv'
  BY DEF StartupInv, AccountsInv
<1>3. MasterInv'
  BY DEF StartupInv, MasterInv
<1> QED
  BY <1>1, <1>2, <1>3

(* Without a master account no entry is marked. *)
LEMMA NoMaster ==
  ASSUME StartupInv, unread = <<>>, master_account = NoName
  PROVE  ~Acceptable
<1>1. IsLastMaster(NoName, config, Len(config)) /\ DOMAIN config = 1 .. Len(config)
  BY AllRead, Lengths DEF StartupInv, MasterInv
<1>2. \A i \in 1 .. Len(config) : config[i].name # NoName
  BY Lengths, NoNameAssumption
<1> QED
  BY <1>1, <1>2 DEF IsLastMaster, Acceptable

(* A request template in the file ends the process. *)
LEMMA ReadRequestTemplateInv == ASSUME StartupInv, ReadRequestTemplate PROVE StartupInv'
<1>1. CheckedInv'
  BY DEF ReadRequestTemplate, CheckedInv, Alive, Acceptable
<1>2. IdsInv' /\ TypeOK'
  BY DEF ReadRequestTemplate, StartupInv, IdsInv, TypeOK
<1>3. ReadInv' /\ AccountsInv' /\ MasterInv'
  BY SameFile DEF ReadRequestTemplate
<1> QED
  BY <1>1, <1>2, <1>3 DEF StartupInv

(* The check of the master account refuses no file that has one. *)
LEMMA CreateMasterAccountInv == ASSUME StartupInv, CreateMasterAccount PROVE StartupInv'
<1>1. Acceptable' <=> Acceptable
  BY DEF CreateMasterAccount, Acceptable
<1>2. fatal' # "none" => ~Acceptable
  BY NoMaster DEF CreateMasterAccount
<1>3. CheckedInv'
  BY <1>1, <1>2 DEF CreateMasterAccount, StartupInv, CheckedInv, Alive
<1>4. TypeOK'
  BY DEF CreateMasterAccount, StartupInv, TypeOK
<1>5. IdsInv'
  BY DEF CreateMasterAccount, StartupInv, IdsInv
<1>6. ReadInv' /\ AccountsInv' /\ MasterInv'
  BY SameFile DEF CreateMasterAccount
<1> QED
  BY <1>3, <1>4, <1>5, <1>6 DEF StartupInv

(* The constructor of an account refuses none that can sign. *)
LEMMA CreateAccountInv ==
  ASSUME StartupInv, NEW name \in DOMAIN accounts, CreateAccount(name)
  PROVE  StartupInv'
<1>1. unread = <<>> /\ step = "accounts" /\ step' = "accounts"
      /\ fatal = "none" /\ fatal' = Credentials(accounts[name])
      /\ UNCHANGED <<settings, config, unread, master_account, accounts>>
  BY DEF CreateAccount, StartupInv, ReadInv, Alive
<1>2. Acceptable' <=> Acceptable
  BY <1>1 DEF Acceptable
<1>3. PICK i \in DOMAIN config : accounts[name] = config[i]
  BY <1>1, AllRead
<1>4. fatal' # "none" => ~Acceptable
  BY <1>1, <1>3 DEF Credentials, Acceptable
<1>5. fatal' = "none" => accounts[name].login /\ accounts[name].secret
  BY <1>1 DEF Credentials
<1>6. CheckedInv'
  BY <1>1, <1>2, <1>4, <1>5 DEF CreateAccount, StartupInv, CheckedInv, Alive
<1>7. fatal' \in {"none", "missing key", "missing secret"}
  BY <1>1 DEF Credentials
<1>8. TypeOK'
  BY <1>1, <1>7 DEF CreateAccount, StartupInv, TypeOK
<1>9. IdsInv'
  BY <1>1 DEF CreateAccount, StartupInv, IdsInv
<1>10. ReadInv' /\ AccountsInv' /\ MasterInv'
  BY <1>1, SameFile
<1> QED
  BY <1>6, <1>8, <1>9, <1>10 DEF StartupInv

(* Incomplete settings of multicast are refused, and no others. *)
LEMMA CreateSharedInv == ASSUME StartupInv, CreateShared PROVE StartupInv'
<1>1. unread = <<>> /\ step = "accounts" /\ step' = "order entry" /\ fatal = "none"
      /\ UNCHANGED <<settings, config, unread, master_account, accounts, created>>
  BY DEF CreateShared, StartupInv, ReadInv, Alive
<1>2. Acceptable' <=> Acceptable
  BY <1>1 DEF Acceptable
<1>3. /\ fatal' # "none" => ~Acceptable
      /\ fatal' = "none" =>
           (settings.local_interface => settings.channel_ids /\ settings.config_file)
      /\ fatal' \in {"none", "no channel ids", "no config file"}
  BY DEF CreateShared, HasMulticast, Acceptable
<1>4. CheckedInv'
  BY <1>1, <1>2, <1>3 DEF CreateShared, StartupInv, CheckedInv, Alive
<1>5. TypeOK'
  BY <1>1, <1>3 DEF CreateShared, StartupInv, TypeOK
<1>6. IdsInv'
  BY <1>1 DEF CreateShared, StartupInv, IdsInv
<1>7. ReadInv' /\ AccountsInv' /\ MasterInv'
  BY <1>1, SameFile
<1> QED
  BY <1>4, <1>5, <1>6, <1>7 DEF StartupInv

(* What the constructors of the streams leave alone. *)
LEMMA StreamStep ==
  ASSUME StartupInv, step \notin {"config", "accounts"}, step' \notin {"config", "accounts"},
         fatal = "none", fatal' = "none",
         UNCHANGED <<settings, config, unread, master_account, accounts, created>>
  PROVE  ReadInv' /\ AccountsInv' /\ MasterInv' /\ CheckedInv'
<1>1. unread = <<>>
  BY DEF StartupInv, ReadInv
<1>2. CheckedInv'
  BY DEF StartupInv, CheckedInv, Alive
<1> QED
  BY <1>1, <1>2, SameFile

(* The next stream id is not one of those in use. *)
LEMMA NextIdIsNew ==
  ASSUME NEW n \in Nat
  PROVE  /\ n + 1 \in Nat /\ n + 1 # 0 /\ n + 1 \in 1 .. n + 1
         /\ \A i \in 1 .. n : i \in Nat /\ i \in 1 .. n + 1 /\ i # n + 1
OBVIOUS

(* A stream of order entry takes an id that no other has. *)
LEMMA CreateOrderEntryInv ==
  ASSUME StartupInv, NEW name \in created, CreateOrderEntry(name)
  PROVE  StartupInv'
<1>1. /\ step = "order entry" /\ step' = "order entry"
      /\ fatal = "none" /\ fatal' = "none"
      /\ stream_id \in Nat /\ stream_id' = stream_id + 1
      /\ order_entry' = Put(order_entry, name, stream_id + 1)
      /\ name \notin DOMAIN order_entry
      /\ snapshot' = 0 /\ market_data' = 0
      /\ UNCHANGED <<settings, config, unread, master_account, accounts, created>>
  BY DEF CreateOrderEntry, NextStreamId, Alive, StartupInv, TypeOK, IdsInv
<1>2. /\ DOMAIN order_entry' = DOMAIN order_entry \cup {name}
      /\ order_entry'[name] = stream_id + 1
      /\ \A n \in DOMAIN order_entry : order_entry'[n] = order_entry[n]
  BY <1>1 DEF Put
<1>3. \A n \in DOMAIN order_entry : order_entry[n] \in 1 .. stream_id
  BY DEF StartupInv, IdsInv
<1>4. \A n \in DOMAIN order_entry' : order_entry'[n] \in 1 .. stream_id' /\ order_entry'[n] \in Nat
  <2>1. \A n \in DOMAIN order_entry :
          order_entry[n] \in 1 .. stream_id + 1 /\ order_entry[n] \in Nat
    BY <1>1, <1>3, NextIdIsNew
  <2>2. stream_id + 1 \in 1 .. stream_id + 1 /\ stream_id + 1 \in Nat
    BY <1>1, NextIdIsNew
  <2>3. stream_id' = stream_id + 1
    BY <1>1
  <2> QED
    BY <1>2, <2>1, <2>2, <2>3
<1>5. ASSUME NEW m \in DOMAIN order_entry', NEW n \in DOMAIN order_entry',
             order_entry'[m] = order_entry'[n]
      PROVE  m = n
  <2>1. CASE m \in DOMAIN order_entry /\ n \in DOMAIN order_entry
    BY <1>2, <1>5, <2>1 DEF StartupInv, IdsInv
  <2>2. \A k \in DOMAIN order_entry : order_entry'[k] # stream_id + 1
    BY <1>1, <1>2, <1>3, NextIdIsNew
  <2>3. CASE m = name \/ n = name
    BY <1>2, <1>5, <2>2, <2>3
  <2> QED
    BY <1>2, <2>1, <2>3
<1>6. IdsInv'
  <2>1. step' = "order entry" /\ snapshot' = 0 /\ market_data' = 0
    BY <1>1
  <2> QED
    BY <1>4, <1>5, <2>1 DEF IdsInv
<1>7. TypeOK'
  <2>1. DOMAIN order_entry' \subseteq created
    BY <1>2 DEF StartupInv, TypeOK
  <2>2. \A n \in DOMAIN order_entry' : order_entry'[n] \in Nat
    BY <1>4
  <2>3. stream_id' \in Nat
    BY <1>1, NextIdIsNew
  <2> QED
    BY <2>1, <2>2, <2>3 DEF CreateOrderEntry, StartupInv, TypeOK
<1> QED
  BY <1>1, <1>6, <1>7, StreamStep DEF StartupInv

(* So does the stream of snapshots. *)
LEMMA CreateSnapshotInv == ASSUME StartupInv, CreateSnapshot PROVE StartupInv'
<1>1. /\ step = "order entry" /\ step' = "market data"
      /\ fatal = "none" /\ fatal' = "none"
      /\ stream_id \in Nat /\ stream_id' = stream_id + 1
      /\ snapshot' = IF settings.local_interface THEN stream_id + 1 ELSE 0
      /\ market_data' = 0
      /\ DOMAIN order_entry = created
      /\ UNCHANGED <<settings, config, unread, master_account, accounts, created, order_entry>>
  BY DEF CreateSnapshot, NextStreamId, HasMulticast, Alive, StartupInv, TypeOK, IdsInv
<1>2. \A n \in DOMAIN order_entry : order_entry[n] \in 1 .. stream_id
  BY DEF StartupInv, IdsInv
<1>3. \A n \in DOMAIN order_entry :
        order_entry[n] \in 1 .. stream_id + 1 /\ order_entry[n] # stream_id + 1
  BY <1>1, <1>2, NextIdIsNew
<1>4. \A m, n \in DOMAIN order_entry : order_entry[m] = order_entry[n] => m = n
  BY DEF StartupInv, IdsInv
<1>5. /\ snapshot' \in Nat
      /\ snapshot' # 0 => snapshot' = stream_id + 1 /\ snapshot' \in 1 .. stream_id + 1
      /\ snapshot' # 0 <=> settings.local_interface
      /\ stream_id + 1 \in Nat
  BY <1>1, NextIdIsNew
<1>6. IdsInv'
  <2>1. /\ step' = "market data" /\ stream_id' = stream_id + 1 /\ market_data' = 0
        /\ DOMAIN order_entry = created
        /\ order_entry' = order_entry /\ created' = created /\ settings' = settings
    BY <1>1
  <2> QED
    BY <1>3, <1>4, <1>5, <2>1 DEF IdsInv
<1>7. TypeOK'
  BY <1>5 DEF CreateSnapshot, NextStreamId, StartupInv, TypeOK
<1> QED
  BY <1>1, <1>6, <1>7, StreamStep DEF StartupInv

(* So does the incremental stream. *)
LEMMA CreateMarketDataInv == ASSUME StartupInv, CreateMarketData PROVE StartupInv'
<1>1. /\ step = "market data" /\ step' = "body"
      /\ fatal = "none" /\ fatal' = "none"
      /\ stream_id \in Nat /\ stream_id' = stream_id + 1
      /\ market_data' = IF settings.local_interface THEN stream_id + 1 ELSE 0
      /\ DOMAIN order_entry = created
      /\ UNCHANGED <<settings, config, unread, master_account, accounts, created,
                    order_entry, snapshot>>
  BY DEF CreateMarketData, NextStreamId, HasMulticast, Alive, StartupInv, TypeOK, IdsInv
<1>2. /\ \A n \in DOMAIN order_entry : order_entry[n] \in 1 .. stream_id
      /\ snapshot # 0 => /\ snapshot \in 1 .. stream_id
                         /\ \A n \in DOMAIN order_entry : order_entry[n] # snapshot
      /\ snapshot # 0 <=> settings.local_interface
  BY <1>1 DEF StartupInv, IdsInv
<1>3. \A n \in DOMAIN order_entry :
        order_entry[n] \in 1 .. stream_id + 1 /\ order_entry[n] # stream_id + 1
  BY <1>1, <1>2, NextIdIsNew
<1>4. \A m, n \in DOMAIN order_entry : order_entry[m] = order_entry[n] => m = n
  BY DEF StartupInv, IdsInv
<1>5. /\ market_data' \in Nat
      /\ market_data' # 0 => /\ market_data' \in 1 .. stream_id + 1
                             /\ market_data' = stream_id + 1
                             /\ market_data' # snapshot
      /\ market_data' # 0 <=> settings.local_interface
      /\ snapshot # 0 => snapshot \in 1 .. stream_id + 1
      /\ stream_id + 1 \in Nat
  BY <1>1, <1>2, NextIdIsNew
<1>6. IdsInv'
  <2>1. /\ step' = "body" /\ stream_id' = stream_id + 1
        /\ DOMAIN order_entry = created /\ snapshot' = snapshot
        /\ order_entry' = order_entry /\ created' = created /\ settings' = settings
    BY <1>1
  <2> QED
    BY <1>2, <1>3, <1>4, <1>5, <2>1 DEF IdsInv
<1>7. TypeOK'
  BY <1>5 DEF CreateMarketData, NextStreamId, StartupInv, TypeOK
<1> QED
  BY <1>1, <1>6, <1>7, StreamStep DEF StartupInv

(* The last check finds the master account that the first one found. *)
LEMMA CheckMasterAccountInv == ASSUME StartupInv, CheckMasterAccount PROVE StartupInv'
<1>1. step = "body" /\ step' = "up" /\ fatal = "none" /\ fatal' = "none"
      /\ UNCHANGED <<settings, config, unread, master_account, accounts, created,
                    stream_id, order_entry, snapshot, market_data>>
  BY DEF CheckMasterAccount, Alive, StartupInv, CheckedInv
<1>2. IdsInv'
  BY <1>1 DEF StartupInv, IdsInv
<1>3. TypeOK'
  BY <1>1 DEF StartupInv, TypeOK
<1> QED
  BY <1>1, <1>2, <1>3, StreamStep DEF StartupInv

(* Every step keeps the invariant. *)
LEMMA StartupStep == StartupInv /\ [Next]_vars => StartupInv'
<1> SUFFICES ASSUME StartupInv, [Next]_vars PROVE StartupInv'
  OBVIOUS
<1>1. CASE ReadAccount
  BY <1>1, ReadAccountInv
<1>2. CASE ReadRequestTemplate
  BY <1>2, ReadRequestTemplateInv
<1>3. CASE CreateMasterAccount
  BY <1>3, CreateMasterAccountInv
<1>4. CASE \E name \in DOMAIN accounts : CreateAccount(name)
  BY <1>4, CreateAccountInv
<1>5. CASE CreateShared
  BY <1>5, CreateSharedInv
<1>6. CASE \E name \in created : CreateOrderEntry(name)
  BY <1>6, CreateOrderEntryInv
<1>7. CASE CreateSnapshot
  BY <1>7, CreateSnapshotInv
<1>8. CASE CreateMarketData
  BY <1>8, CreateMarketDataInv
<1>9. CASE CheckMasterAccount
  BY <1>9, CheckMasterAccountInv
<1>10. CASE UNCHANGED vars
  <2>1. ReadInv' /\ AccountsInv' /\ MasterInv'
    BY <1>10, SameFile DEF vars, StartupInv, ReadInv
  <2>2. CheckedInv'
    BY <1>10 DEF vars, StartupInv, CheckedInv, Alive, Acceptable
  <2>3. IdsInv' /\ TypeOK'
    BY <1>10 DEF vars, StartupInv, IdsInv, TypeOK
  <2> QED
    BY <2>1, <2>2, <2>3 DEF StartupInv
<1> QED
  BY <1>1, <1>2, <1>3, <1>4, <1>5, <1>6, <1>7, <1>8, <1>9, <1>10 DEF Next

(* The invariant always holds. *)
LEMMA StartupInvariant == Spec => []StartupInv
BY StartupInit, StartupStep, PTL DEF Spec

-----------------------------------------------------------------------------
(* What the invariant says of a gateway that is up. *)
LEMMA UpInv ==
  ASSUME StartupInv, Up
  PROVE  /\ unread = <<>>
         /\ DOMAIN order_entry = {config[i].name : i \in DOMAIN config}
         /\ created = DOMAIN accounts /\ DOMAIN order_entry = created
         /\ master_account # NoName
<1>1. step = "up" /\ Alive
  BY DEF Up
<1>2. unread = <<>>
  BY <1>1 DEF StartupInv, ReadInv
<1>3. created = DOMAIN accounts /\ master_account # NoName
  BY <1>1 DEF StartupInv, CheckedInv
<1>4. DOMAIN order_entry = created
  BY <1>1 DEF StartupInv, IdsInv
<1> QED
  BY <1>2, <1>3, <1>4, AllRead

(* The last master is an account that is served. *)
LEMMA InvMaster == ASSUME StartupInv PROVE MasterIsServed
<1> SUFFICES ASSUME Up
             PROVE  \E i \in DOMAIN config :
                      /\ config[i].master
                      /\ config[i].name = master_account
                      /\ \A j \in i + 1 .. Len(config) : ~config[j].master
                      /\ master_account \in DOMAIN order_entry
  BY DEF MasterIsServed
<1>1. IsLastMaster(master_account, config, Len(config)) /\ DOMAIN config = 1 .. Len(config)
  BY UpInv, AllRead, Lengths DEF StartupInv, MasterInv
<1>2. PICK i \in DOMAIN config :
        /\ config[i].master
        /\ config[i].name = master_account
        /\ \A j \in i + 1 .. Len(config) : ~config[j].master
  BY <1>1, UpInv DEF IsLastMaster
<1>3. master_account \in DOMAIN order_entry
  BY <1>2, UpInv
<1> QED
  BY <1>2, <1>3

(* What a gateway that is up has been built from. *)
LEMMA InvServes == ASSUME StartupInv PROVE ServesTheConfiguration
<1> SUFFICES ASSUME Up
             PROVE  /\ Acceptable
                    /\ DOMAIN order_entry = {config[i].name : i \in DOMAIN config}
                    /\ snapshot # 0 <=> settings.local_interface
                    /\ market_data # 0 <=> settings.local_interface
  BY DEF ServesTheConfiguration
<1>1. step = "up" /\ Alive
  BY DEF Up
<1>2. /\ ~settings.request_template
      /\ settings.local_interface => settings.channel_ids /\ settings.config_file
      /\ \A n \in created : accounts[n].login /\ accounts[n].secret
  BY <1>1 DEF StartupInv, CheckedInv
<1>3. \A i \in DOMAIN config : config[i].login /\ config[i].secret
  BY <1>2, UpInv, AllRead
<1>4. \E i \in DOMAIN config : config[i].master
  BY InvMaster DEF MasterIsServed
<1>5. (snapshot # 0 <=> settings.local_interface) /\ (market_data # 0 <=> settings.local_interface)
  BY <1>1 DEF StartupInv, IdsInv
<1> QED
  BY <1>2, <1>3, <1>4, <1>5, UpInv DEF Acceptable

(* The stream ids that are in use differ. *)
LEMMA InvUnique == ASSUME StartupInv PROVE StreamIdsUnique
<1>1. IsInjective(order_entry)
  BY DEF StartupInv, IdsInv, IsInjective
<1>2. Range(order_entry) \cap {i \in {snapshot, market_data} : i # 0} = {}
  BY DEF StartupInv, IdsInv, Range
<1>3. snapshot # 0 => snapshot # market_data
  BY DEF StartupInv, IdsInv
<1> QED
  BY <1>1, <1>2, <1>3 DEF StreamIdsUnique

(* Types: the constructors leave every member in a state it has a type for *)
(* (members of Config and Controller).                                     *)
THEOREM TypeCorrect == Spec => []TypeOK
<1>1. StartupInv => TypeOK
  BY DEF StartupInv
<1> QED
  BY <1>1, StartupInvariant, PTL

(* No two streams share an id, of any number of accounts in any order      *)
(* (create_order_entry and the constructor of Controller).                 *)
THEOREM StreamsHaveTheirOwnIds == Spec => []StreamIdsUnique
<1>1. StartupInv => StreamIdsUnique
  BY InvUnique
<1> QED
  BY <1>1, StartupInvariant, PTL

(* A gateway that is up serves exactly its configuration, of any number of *)
(* accounts (create_accounts, create_order_entry, get_multicast).          *)
THEOREM ConfigurationIsServed == Spec => []ServesTheConfiguration
<1>1. StartupInv => ServesTheConfiguration
  BY InvServes
<1> QED
  BY <1>1, StartupInvariant, PTL

(* The last entry marked as the master is the master account, and it is    *)
(* served (Config::operator()(Account), create_master_account).            *)
THEOREM MasterAccountIsServed == Spec => []MasterIsServed
<1>1. StartupInv => MasterIsServed
  BY InvMaster
<1> QED
  BY <1>1, StartupInvariant, PTL

(* Nothing acceptable is refused, whatever the order of the checks         *)
(* (log::fatal of config.cpp, account.cpp, shared.cpp and controller.cpp). *)
THEOREM NothingAcceptableIsRefused == Spec => []RefusalIsJustified
<1>1. StartupInv => RefusalIsJustified
  BY DEF StartupInv, CheckedInv, Alive, RefusalIsJustified
<1> QED
  BY <1>1, StartupInvariant, PTL

-----------------------------------------------------------------------------
(***************************************************************************)
(* The second check of the master account.  create_master_account has      *)
(* refused a configuration without one before the body of the constructor  *)
(* runs, so the check in the body never fires, and the flag that disables  *)
(* it changes nothing.                                                     *)
(***************************************************************************)
SecondCheckIsDead ==
  /\ fatal # "a master account is required"
  /\ Alive /\ step = "body" => master_account # NoName

(* Every step keeps that. *)
LEMMA SecondCheckStep ==
  StartupInv /\ SecondCheckIsDead /\ [Next]_vars => SecondCheckIsDead'
<1> SUFFICES ASSUME StartupInv, SecondCheckIsDead, [Next]_vars
             PROVE  SecondCheckIsDead'
  OBVIOUS
<1>1. StartupInv'
  BY StartupStep
<1>2. Alive' /\ step' = "body" => master_account' # NoName
  BY <1>1 DEF StartupInv, CheckedInv
<1>3. fatal' # "a master account is required"
  <2>1. CASE CheckMasterAccount
    BY <2>1 DEF CheckMasterAccount, SecondCheckIsDead
  <2>2. CASE ~CheckMasterAccount
    BY <2>2 DEF Next, vars, SecondCheckIsDead, ReadAccount, ReadRequestTemplate,
                CreateMasterAccount, CreateAccount, Credentials, CreateShared,
                CreateOrderEntry, CreateSnapshot, CreateMarketData
  <2> QED
    BY <2>1, <2>2
<1> QED
  BY <1>2, <1>3 DEF SecondCheckIsDead

(* For any configuration and settings the check in the body of the         *)
(* constructor finds a master account (disable_master_account_check).      *)
THEOREM MasterCheckNeverFires == Spec => []SecondCheckIsDead
<1>1. Init => StartupInv /\ SecondCheckIsDead
  BY StartupInit DEF Init, SecondCheckIsDead
<1>2. StartupInv /\ SecondCheckIsDead /\ [Next]_vars => (StartupInv /\ SecondCheckIsDead)'
  BY StartupStep, SecondCheckStep
<1> QED
  BY <1>1, <1>2, PTL DEF Spec

(* A configuration without a master account is refused, whether or not the *)
(* flag is set: no behaviour brings such a gateway up, so the flag has no  *)
(* use (create_master_account).                                            *)
THEOREM NoGatewayWithoutMaster ==
  Spec => [](Up => \E i \in DOMAIN config : config[i].master)
<1>1. ServesTheConfiguration => (Up => \E i \in DOMAIN config : config[i].master)
  BY DEF ServesTheConfiguration, Acceptable
<1> QED
  BY <1>1, ConfigurationIsServed, PTL

-----------------------------------------------------------------------------
(***************************************************************************)
(* The constructors never wait for one another: whenever the gateway is    *)
(* neither up nor refused, the conditions of one of the actions hold.      *)
(***************************************************************************)
SomethingToDo ==
  \/ step = "config" /\ unread # <<>>
  \/ step = "config" /\ settings.request_template
  \/ step = "config" /\ unread = <<>> /\ ~settings.request_template
  \/ step = "accounts" /\ \E name \in DOMAIN accounts : name \notin created
  \/ step = "accounts" /\ created = DOMAIN accounts
  \/ step = "order entry" /\ \E name \in created : name \notin DOMAIN order_entry
  \/ step = "order entry" /\ DOMAIN order_entry = created
  \/ step \in {"market data", "body"}

(* No gateway stops half-way (the member initializers of Controller).      *)
THEOREM NeverStopsHalfWay == Spec => [](Alive => SomethingToDo \/ Up)
<1>1. StartupInv => (Alive => SomethingToDo \/ Up)
  BY DEF StartupInv, TypeOK, Up, SomethingToDo
<1> QED
  BY <1>1, StartupInvariant, PTL

=============================================================================
