----------------------- MODULE NetworkJournal_proofs -----------------------
(***************************************************************************)
(* Proofs about NetworkJournal for every number of addresses, with and     *)
(* without arping and ethtool, and for any number of failing commands and  *)
(* crashes, as long as an operation ends within its lease (~Expiry): the   *)
(* journal covers what was changed, no interface is lost, the order of the *)
(* rollback never makes one of its own commands impossible, and what is    *)
(* committed is in place.                                                  *)
(*                                                                         *)
(* The invariant says what the commands up to the one at hand have done    *)
(* (Done) or undone (Undone), whatever state the rollback started from.    *)
(***************************************************************************)
EXTENDS NetworkJournal, TLAPS

AtWork == {"apply", "commit", "restore", "delete", "remove"}

(* Who works on an operation has its journal in memory.                        *)
TypeInv ==
  /\ TypeOK
  /\ \A t \in Task : task[t].pc \in AtWork => task[t].j \in Journal

(* The command loop is alone: a lease task waits and finds nothing to do.      *)
OthersWait == \A t \in Lease : task[t].pc \in {"idle", "armed"} /\ ~task[t].failed

(* What the command loop works on is what the journal says.                    *)
HasJournal ==
  /\ task[Loop].pc \in AtWork =>
       journal # None /\ task[Loop].j = journal
  /\ task[Loop].pc = "commit" => journal.phase = "staged"
  /\ task[Loop].pc = "apply" => journal.phase = "applying"
  /\ task[Loop].pc = "down" => crashes > 0
  /\ journal # None => stages > 0

(* The kernel, whatever was done to it.                                        *)
Sane ==
  \A e \in Endpoint :
    /\ where[e] # "gone"
    /\ where[e] = "netns" => e \in netns
    /\ where[e] = "host" => addrs[e] = {}
    /\ link[e].tso => link[e].tx
    /\ journal # None => /\ journal.saved[e].tso => journal.saved[e].tx
                         /\ link[e].tso => journal.saved[e].tso

(* What a command of the plan leaves behind, and what its restoration does.    *)
Done(c) ==
  /\ c.do = "netns_add" => c.e \in netns
  /\ c.do = "to_netns" => where[c.e] = "netns"
  /\ c.do = "mtu_up" => link[c.e].up /\ link[c.e].mtu = "test"
  /\ c.do = "address_add" => c.n \in addrs[c.e]

Undone(c) ==
  LET l == link[c.e] saved == journal.saved[c.e] IN
  /\ c.do = "to_host" => where[c.e] = "host"
  /\ c.do = "tx" => l.tx = saved.tx
  /\ c.do = "tso" => l.tso = saved.tso
  /\ c.do = "mtu" => l.mtu = saved.mtu
  /\ c.do = "link_state" => l.up = saved.up
  /\ c.do = "netns_del" => c.e \notin netns

Progress ==
  LET s == task[Loop] IN
  /\ s.pc = "apply" =>
       \A k \in 1 .. Len(Commands) : k < s.i => Done(Commands[k])
  /\ s.pc = "restore" /\ ~s.failed =>
       \A k \in 1 .. Len(Restores) : k < s.i => Undone(Restores[k])
  /\ s.pc \in {"delete", "remove"} =>
       \A k \in 1 .. Len(Restores) : Undone(Restores[k])
  /\ s.pc = "delete" /\ ~s.failed =>
       \A k \in 1 .. Len(Deletes) : k < s.i => Undone(Deletes[k])
  /\ s.pc = "remove" =>
       \A k \in 1 .. Len(Deletes) : Undone(Deletes[k])

(* A command is given up after three failures.                                 *)
GivesUpForCause ==
  /\ task[Loop].failed => failures >= Attempts
  /\ task[Loop].tries <= failures

(* A staged operation nobody works on stands, unless an undo was given up.     *)
Standing ==
  /\ task[Loop].pc \in {"idle", "commit"}
  /\ journal # None
  /\ journal.phase = "staged"
  /\ ~abandoned
  => \A e \in Endpoint : InPlace(e)

(* An interface on the host is as the journal has it, also under a journal that *)
(* an apply or a removal left behind: a Stage over it saves the same again.    *)
Unmoved ==
  /\ task[Loop].pc \in {"idle", "commit", "apply"}
  /\ journal # None
  /\ failures < Attempts
  /\ crashes = 0
  => \A e \in Endpoint : where[e] = "host" => link[e] = journal.saved[e]

(* The operator's interfaces can be had back: with the first operation         *)
(* whatever fails or crashes, with later ones as long as every rollback so far  *)
(* came to its end.                                                            *)
Recoverable == stages <= 1 \/ (failures < Attempts /\ crashes = 0)

SavedOffloads(e) == ~Ethtool => link[e].tx = own[e].tx /\ link[e].tso = own[e].tso

Covered ==
  /\ JournalCoversChanges
  /\ journal # None => \A e \in Endpoint : journal.saved[e] = own[e] /\ SavedOffloads(e)

IInv ==
  /\ TypeInv
  /\ OthersWait
  /\ HasJournal
  /\ Sane
  /\ Progress
  /\ GivesUpForCause
  /\ Standing
  /\ Unmoved
  /\ Recoverable => Covered

-----------------------------------------------------------------------------
(* The lists of commands                                                      *)

Verb == {"arping", "netns_add", "to_netns", "lo_up", "mtu_up", "address_add",
         "tso_off", "tx_off", "address_del", "to_host", "tx", "tso", "mtu",
         "link_state", "netns_del"}
Command == {c \in [do : Verb, e : Endpoint, n : 0 .. Count] :
              c.do = "address_add" => c.n # 0}

Setting == {"arping", "netns_add", "to_netns", "lo_up", "mtu_up", "address_add"}
Restoring == {"address_del", "to_host", "mtu", "link_state"}

(* A list of commands of given verbs ...                                       *)
Lists(l, verbs) == l \in Seq(Command) /\ \A k \in 1 .. Len(l) : l[k].do \in verbs

(* ... with a command of this verb for an endpoint, ...                        *)
Has(l, do, e) == \E k \in 1 .. Len(l) : l[k].do = do /\ l[k].e = e

(* ... in which some verbs come only once another one has come.                *)
After(l, later, do) ==
  \A k \in 1 .. Len(l) : l[k].do \in later =>
    \E h \in 1 .. Len(l) : h < k /\ l[h].do = do /\ l[h].e = l[k].e

AddsAll(l, e) ==
  \A n \in 1 .. Count :
    \E k \in 1 .. Len(l) : l[k] = [do |-> "address_add", e |-> e, n |-> n]

(* One list after another: its length and what is at each place.               *)
LEMMA Joined ==
  ASSUME NEW S, NEW a \in Seq(S), NEW b \in Seq(S)
  PROVE  /\ a \o b \in Seq(S)
         /\ Len(a) \in Nat /\ Len(b) \in Nat
         /\ Len(a \o b) = Len(a) + Len(b)
         /\ \A k \in 1 .. Len(a) : k \in 1 .. Len(a \o b) /\ (a \o b)[k] = a[k]
         /\ \A k \in 1 .. Len(b) : /\ Len(a) + k \in 1 .. Len(a \o b)
                                   /\ (a \o b)[Len(a) + k] = b[k]
         /\ \A k \in 1 .. Len(a \o b) :
              k \in 1 .. Len(a) \/ k - Len(a) \in 1 .. Len(b)
  <1>1. /\ a \o b \in Seq(S)
        /\ Len(a) \in Nat /\ Len(b) \in Nat
        /\ Len(a \o b) = Len(a) + Len(b)
    OBVIOUS
  <1>2. \A k \in 1 .. Len(a) : (a \o b)[k] = a[k]
    OBVIOUS
  <1>3. \A k \in 1 .. Len(b) : (a \o b)[Len(a) + k] = b[k]
    OBVIOUS
  <1> QED  BY <1>1, <1>2, <1>3

(* ... so it lists the verbs of both, has what either has, and keeps an order  *)
(* both keep, or one whose first verb the first list already has.              *)
LEMMA JoinedLists ==
  ASSUME NEW a, NEW b, NEW verbs, Lists(a, verbs), Lists(b, verbs)
  PROVE  Lists(a \o b, verbs)
  BY Joined DEF Lists

LEMMA JoinedHas ==
  ASSUME NEW verbs, NEW a, NEW b, Lists(a, verbs), Lists(b, verbs),
         NEW do, NEW e, Has(a, do, e) \/ Has(b, do, e)
  PROVE  Has(a \o b, do, e)
  <1>1. CASE Has(a, do, e)
    BY <1>1, Joined DEF Lists, Has
  <1>2. CASE Has(b, do, e)
    <2>1. PICK k \in 1 .. Len(b) : b[k].do = do /\ b[k].e = e
      BY <1>2 DEF Has
    <2>2. Len(a) + k \in 1 .. Len(a \o b) /\ (a \o b)[Len(a) + k] = b[k]
      BY Joined DEF Lists
    <2> QED  BY <2>1, <2>2 DEF Has
  <1> QED  BY <1>1, <1>2

LEMMA JoinedAdds ==
  ASSUME NEW verbs, NEW a, NEW b, Lists(a, verbs), Lists(b, verbs),
         NEW e, AddsAll(a, e) \/ AddsAll(b, e)
  PROVE  AddsAll(a \o b, e)
  <1>1. CASE AddsAll(a, e)
    BY <1>1, Joined DEF Lists, AddsAll
  <1>2. CASE AddsAll(b, e)
    BY <1>2, Joined DEF Lists, AddsAll
  <1> QED  BY <1>1, <1>2

LEMMA JoinedAfter ==
  ASSUME NEW verbs, NEW a, NEW b, Lists(a, verbs), Lists(b, verbs),
         NEW later, NEW do, After(a, later, do),
         \/ After(b, later, do)
         \/ \A k \in 1 .. Len(b) : b[k].do \in later => Has(a, do, b[k].e)
  PROVE  After(a \o b, later, do)
  <1> DEFINE l == a \o b
  <1>1. /\ a \in Seq(Command) /\ b \in Seq(Command)
        /\ Len(a) \in Nat /\ Len(b) \in Nat /\ Len(l) = Len(a) + Len(b)
        /\ \A k \in 1 .. Len(a) : k \in 1 .. Len(l) /\ l[k] = a[k]
        /\ \A k \in 1 .. Len(b) : Len(a) + k \in 1 .. Len(l) /\ l[Len(a) + k] = b[k]
    BY Joined DEF Lists
  <1> HIDE DEF l
  <1> SUFFICES ASSUME NEW k \in 1 .. Len(l), l[k].do \in later
               PROVE  \E h \in 1 .. Len(l) : h < k /\ l[h].do = do /\ l[h].e = l[k].e
    BY DEF After, l
  <1>2. CASE k \in 1 .. Len(a)
    <2>1. PICK h \in 1 .. Len(a) : h < k /\ a[h].do = do /\ a[h].e = a[k].e
      BY <1>1, <1>2 DEF After
    <2>2. h \in 1 .. Len(l) /\ l[h] = a[h] /\ l[k] = a[k]
      BY <1>1, <1>2
    <2> QED  BY <2>1, <2>2
  <1>3. CASE k \notin 1 .. Len(a)
    <2>0. k - Len(a) \in 1 .. Len(b) /\ k = Len(a) + (k - Len(a))
      BY <1>1, <1>3
    <2>1. PICK m \in 1 .. Len(b) : k = Len(a) + m
      BY <2>0
    <2>2. b[m].do \in later /\ l[k] = b[m]
      BY <1>1, <2>1
    <2>3. CASE After(b, later, do)
      <3>1. PICK h \in 1 .. Len(b) : h < m /\ b[h].do = do /\ b[h].e = b[m].e
        BY <2>2, <2>3 DEF After
      <3>2. Len(a) + h \in 1 .. Len(l) /\ Len(a) + h < k /\ l[Len(a) + h] = b[h]
        BY <1>1, <2>1, <3>1
      <3> QED  BY <2>2, <3>1, <3>2
    <2>4. CASE \A i \in 1 .. Len(b) : b[i].do \in later => Has(a, do, b[i].e)
      <3>1. PICK h \in 1 .. Len(a) : a[h].do = do /\ a[h].e = b[m].e
        BY <2>2, <2>4 DEF Has
      <3>2. h \in 1 .. Len(l) /\ h < k /\ l[h] = a[h]
        BY <1>1, <2>1, <3>1
      <3> QED  BY <2>2, <3>1, <3>2
    <2> QED  BY <2>2, <2>3, <2>4
  <1> QED  BY <1>2, <1>3

LEMMA SingleLists ==
  ASSUME NEW do \in Verb, do # "address_add", NEW e \in Endpoint,
         NEW verbs, do \in verbs
  PROVE  /\ Lists(Cmd(do, e), verbs)
         /\ Has(Cmd(do, e), do, e)
         /\ \A k \in 1 .. Len(Cmd(do, e)) : Cmd(do, e)[k].do = do /\ Cmd(do, e)[k].e = e
  <1> DEFINE c == [do |-> do, e |-> e, n |-> 0]
  <1>1. c \in Command /\ c.do = do /\ c.e = e
    BY EndpointsAssumption DEF Command
  <1>2. Cmd(do, e) = <<c>>
    BY DEF Cmd
  <1> HIDE DEF c
  <1>3. <<c>> \in Seq(Command) /\ Len(<<c>>) = 1 /\ <<c>>[1] = c
    BY <1>1
  <1>4. Lists(<<c>>, verbs)
    BY <1>1, <1>3 DEF Lists
  <1>5. Has(<<c>>, do, e)
    BY <1>1, <1>3 DEF Has
  <1>6. \A k \in 1 .. Len(<<c>>) : <<c>>[k].do = do /\ <<c>>[k].e = e
    BY <1>1, <1>3
  <1> QED  BY <1>2, <1>4, <1>5, <1>6

LEMMA AddressLists ==
  ASSUME NEW do \in Verb, NEW e \in Endpoint, NEW verbs, do \in verbs
  PROVE  LET l == PerAddress(do, e) IN
         /\ Lists(l, verbs)
         /\ \A k \in 1 .. Len(l) : l[k].do = do /\ l[k].e = e
         /\ do = "address_add" => AddsAll(l, e)
  <1> DEFINE l == PerAddress(do, e)
  <1>1. l = [n \in 1 .. Count |-> [do |-> do, e |-> e, n |-> n]]
    BY DEF PerAddress
  <1>2. \A n \in 1 .. Count : l[n] = [do |-> do, e |-> e, n |-> n] /\ l[n] \in Command
    BY <1>1, EndpointsAssumption DEF Command
  <1>3. l \in Seq(Command) /\ Len(l) = Count
    BY <1>1, <1>2, EndpointsAssumption
  <1> HIDE DEF l
  <1>4. \A k \in 1 .. Len(l) : l[k].do = do /\ l[k].e = e
    BY <1>2, <1>3
  <1>5. Lists(l, verbs)
    BY <1>3, <1>4 DEF Lists
  <1>6. do = "address_add" => AddsAll(l, e)
    BY <1>2, <1>3 DEF AddsAll
  <1> QED  BY <1>4, <1>5, <1>6 DEF l

LEMMA EmptyLists ==
  ASSUME NEW verbs
  PROVE  Lists(<< >>, verbs) /\ Len(<< >>) = 0
  BY DEF Lists

Applying == Setting \cup (IF Ethtool THEN {"tso_off", "tx_off"} ELSE {})
Undoing == Restoring \cup (IF Ethtool THEN {"tx", "tso"} ELSE {})

(* What plan() lists for an endpoint: the interface moves before it is set up. *)
LEMMA CommandsOfLists ==
  ASSUME NEW e \in Endpoint
  PROVE  LET l == CommandsOf(e) IN
         /\ Lists(l, Applying)
         /\ Has(l, "to_netns", e) /\ Has(l, "mtu_up", e) /\ AddsAll(l, e)
         /\ After(l, {"mtu_up", "address_add"}, "to_netns")
  <1> DEFINE later == {"mtu_up", "address_add"}
             x0 == IF Arping THEN PerAddress("arping", e) ELSE << >>
             x1 == x0 \o Cmd("netns_add", e)
             x2 == x1 \o Cmd("to_netns", e)
             x3 == x2 \o Cmd("lo_up", e)
             x4 == x3 \o Cmd("mtu_up", e)
             x5 == x4 \o PerAddress("address_add", e)
             y == IF Ethtool THEN Cmd("tso_off", e) \o Cmd("tx_off", e) ELSE << >>
  <1>0. CommandsOf(e) = x5 \o y
    BY DEF CommandsOf
  <1>1. /\ "arping" \in Verb /\ "netns_add" \in Verb /\ "to_netns" \in Verb
        /\ "lo_up" \in Verb /\ "mtu_up" \in Verb /\ "address_add" \in Verb
        /\ "tso_off" \in Verb /\ "tx_off" \in Verb
        /\ Setting \subseteq Applying
        /\ Ethtool => "tso_off" \in Applying /\ "tx_off" \in Applying
    BY DEF Verb, Applying
  <1>2. /\ "arping" \in Setting /\ "netns_add" \in Setting /\ "to_netns" \in Setting
        /\ "lo_up" \in Setting /\ "mtu_up" \in Setting /\ "address_add" \in Setting
    BY DEF Setting
  <1>3. /\ "arping" \in Applying /\ "netns_add" \in Applying /\ "to_netns" \in Applying
        /\ "lo_up" \in Applying /\ "mtu_up" \in Applying /\ "address_add" \in Applying
    BY <1>1, <1>2
  <1> DEFINE Plain(l) == /\ Lists(l, Applying)
                         /\ \A k \in 1 .. Len(l) : l[k].do \notin later
             One(do) == Cmd(do, e)
  <1>4. Plain(x0) /\ After(x0, later, "to_netns")
    <2>1. CASE Arping
      BY <2>1, <1>1, <1>3, AddressLists DEF After
    <2>2. CASE ~Arping
      BY <2>2, EmptyLists DEF After
    <2> QED  BY <2>1, <2>2
  <1>5. Plain(One("netns_add")) /\ Plain(One("to_netns")) /\ Plain(One("lo_up"))
    <2>1. ASSUME NEW do \in Verb, do \in Applying, do \notin later
          PROVE  Plain(One(do))
      BY <2>1, SingleLists
    <2> QED  BY <2>1, <1>1, <1>3
  <1>6. /\ Lists(One("mtu_up"), Applying) /\ Has(One("mtu_up"), "mtu_up", e)
        /\ Has(One("to_netns"), "to_netns", e)
        /\ \A k \in 1 .. Len(One("mtu_up")) : One("mtu_up")[k].e = e
    BY <1>1, <1>3, SingleLists
  <1>7. Plain(y)
    <2>1. CASE ~Ethtool
      BY <2>1, EmptyLists
    <2>2. CASE Ethtool
      <3> DEFINE u == Cmd("tso_off", e)
                 v == Cmd("tx_off", e)
      <3>1. /\ Lists(u, Applying) /\ Lists(v, Applying)
            /\ Lists(u, {"tso_off", "tx_off"}) /\ Lists(v, {"tso_off", "tx_off"})
        BY <2>2, <1>1, SingleLists
      <3> HIDE DEF u, v
      <3>2. Lists(u \o v, Applying) /\ Lists(u \o v, {"tso_off", "tx_off"})
        BY <3>1, JoinedLists
      <3>3. \A k \in 1 .. Len(u \o v) : (u \o v)[k].do \notin later
        BY <3>2 DEF Lists
      <3>4. y = u \o v
        BY <2>2 DEF u, v
      <3> QED  BY <3>2, <3>3, <3>4
    <2> QED  BY <2>1, <2>2
  <1>8. /\ Lists(PerAddress("address_add", e), Applying)
        /\ AddsAll(PerAddress("address_add", e), e)
        /\ \A k \in 1 .. Len(PerAddress("address_add", e)) :
             PerAddress("address_add", e)[k].e = e
    BY <1>1, <1>3, AddressLists
  <1> HIDE DEF x0, y, One, later
  <1>11. Lists(x1, Applying) /\ After(x1, later, "to_netns")
    BY <1>4, <1>5, JoinedLists, JoinedAfter DEF One
  <1>12. Lists(x2, Applying) /\ After(x2, later, "to_netns") /\ Has(x2, "to_netns", e)
    <2>1. After(x2, later, "to_netns")
      BY <1>11, <1>5, JoinedAfter DEF One
    <2>2. Lists(x2, Applying) /\ Has(x2, "to_netns", e)
      BY <1>11, <1>5, <1>6, JoinedLists, JoinedHas DEF One
    <2> QED  BY <2>1, <2>2
  <1> HIDE DEF x2
  <1>13. Lists(x3, Applying) /\ After(x3, later, "to_netns") /\ Has(x3, "to_netns", e)
    <2>1. After(x3, later, "to_netns")
      BY <1>12, <1>5, JoinedAfter DEF One
    <2>2. Lists(x3, Applying) /\ Has(x3, "to_netns", e)
      BY <1>12, <1>5, JoinedLists, JoinedHas DEF One
    <2> QED  BY <2>1, <2>2
  <1> HIDE DEF x3
  <1>14. /\ Lists(x4, Applying) /\ After(x4, later, "to_netns")
         /\ Has(x4, "to_netns", e) /\ Has(x4, "mtu_up", e)
    <2>1. After(x4, later, "to_netns")
      BY <1>13, <1>6, JoinedAfter DEF One
    <2>2. Lists(x4, Applying)
      BY <1>13, <1>6, JoinedLists DEF One
    <2>3. Has(x4, "to_netns", e) /\ Has(x4, "mtu_up", e)
      BY <1>13, <1>6, JoinedHas DEF One
    <2> QED  BY <2>1, <2>2, <2>3
  <1> HIDE DEF x4
  <1>15. /\ Lists(x5, Applying) /\ After(x5, later, "to_netns")
         /\ Has(x5, "to_netns", e) /\ Has(x5, "mtu_up", e) /\ AddsAll(x5, e)
    <2>1. After(x5, later, "to_netns")
      BY <1>14, <1>8, JoinedAfter
    <2>2. Lists(x5, Applying)
      BY <1>14, <1>8, JoinedLists
    <2>3. Has(x5, "to_netns", e) /\ Has(x5, "mtu_up", e)
      BY <1>14, <1>8, JoinedHas
    <2>4. AddsAll(x5, e)
      BY <1>14, <1>8, JoinedAdds
    <2> QED  BY <2>1, <2>2, <2>3, <2>4
  <1> HIDE DEF x5
  <1>16. After(x5 \o y, later, "to_netns")
    BY <1>15, <1>7, JoinedAfter
  <1>17. Lists(x5 \o y, Applying)
    BY <1>15, <1>7, JoinedLists
  <1>18. Has(x5 \o y, "to_netns", e) /\ Has(x5 \o y, "mtu_up", e)
    BY <1>15, <1>7, JoinedHas
  <1>19. AddsAll(x5 \o y, e)
    BY <1>15, <1>7, JoinedAdds
  <1> QED  BY <1>0, <1>16, <1>17, <1>18, <1>19 DEF later

(* What rollback goes through for an endpoint: the interface comes back before *)
(* its attributes do, and the checksum before segmentation.                    *)
LEMMA RestoresOfLists ==
  ASSUME NEW e \in Endpoint
  PROVE  LET l == RestoresOf(e) IN
         /\ Lists(l, Undoing)
         /\ Has(l, "to_host", e) /\ Has(l, "mtu", e) /\ Has(l, "link_state", e)
         /\ Ethtool => Has(l, "tx", e) /\ Has(l, "tso", e)
         /\ After(l, {"tx", "tso", "mtu", "link_state"}, "to_host")
         /\ After(l, {"tso"}, "tx")
  <1> DEFINE later == {"tx", "tso", "mtu", "link_state"}
             z0 == [k \in 1 .. Count |->
                      [do |-> "address_del", e |-> e, n |-> Count + 1 - k]]
             z1 == z0 \o Cmd("to_host", e)
             u == Cmd("tx", e)
             v == Cmd("tso", e)
             w == IF Ethtool THEN u \o v ELSE << >>
             z2 == z1 \o w
             z3 == z2 \o Cmd("mtu", e)
             Alone(l) == \A k \in 1 .. Len(l) : l[k].e = e
  <1>0. RestoresOf(e) = z3 \o Cmd("link_state", e)
    BY DEF RestoresOf
  <1>1. /\ "address_del" \in Verb /\ "to_host" \in Verb /\ "mtu" \in Verb
        /\ "link_state" \in Verb /\ "tx" \in Verb /\ "tso" \in Verb
    BY DEF Verb
  <1>2. /\ "address_del" \in Undoing /\ "to_host" \in Undoing /\ "mtu" \in Undoing
        /\ "link_state" \in Undoing
        /\ Ethtool => "tx" \in Undoing /\ "tso" \in Undoing
    <2>1. Restoring \subseteq Undoing
      BY DEF Undoing
    <2>2. Ethtool => "tx" \in Undoing /\ "tso" \in Undoing
      BY DEF Undoing
    <2> QED  BY <2>1, <2>2 DEF Restoring
  <1>3. Lists(z0, Undoing) /\ \A k \in 1 .. Len(z0) : z0[k].do = "address_del"
    <2>1. \A k \in 1 .. Count : z0[k].do = "address_del" /\ z0[k] \in Command
      BY <1>1, EndpointsAssumption DEF Command
    <2>2. z0 \in Seq(Command) /\ Len(z0) = Count
      BY <2>1, EndpointsAssumption
    <2> HIDE DEF z0
    <2> QED  BY <1>2, <2>1, <2>2 DEF Lists
  <1> HIDE DEF z0
  <1>4. /\ Lists(Cmd("to_host", e), Undoing) /\ Has(Cmd("to_host", e), "to_host", e)
        /\ \A k \in 1 .. Len(Cmd("to_host", e)) : Cmd("to_host", e)[k].do = "to_host"
    BY <1>1, <1>2, SingleLists
  <1>5. /\ Lists(Cmd("mtu", e), Undoing) /\ Has(Cmd("mtu", e), "mtu", e)
        /\ Alone(Cmd("mtu", e))
        /\ \A k \in 1 .. Len(Cmd("mtu", e)) : Cmd("mtu", e)[k].do = "mtu"
    BY <1>1, <1>2, SingleLists
  <1>6. /\ Lists(Cmd("link_state", e), Undoing)
        /\ Has(Cmd("link_state", e), "link_state", e) /\ Alone(Cmd("link_state", e))
        /\ \A k \in 1 .. Len(Cmd("link_state", e)) :
             Cmd("link_state", e)[k].do = "link_state"
    <2>1. "link_state" \in Verb /\ "link_state" \in Undoing
      BY <1>1, <1>2
    <2> QED  BY <2>1, SingleLists
  <1>7. /\ Lists(w, Undoing) /\ Alone(w) /\ After(w, {"tso"}, "tx")
        /\ Ethtool => Has(w, "tx", e) /\ Has(w, "tso", e)
    <2>1. CASE ~Ethtool
      BY <2>1, EmptyLists DEF After
    <2>2. CASE Ethtool
      <3>1. /\ Lists(u, Undoing) /\ Has(u, "tx", e)
            /\ \A k \in 1 .. Len(u) : u[k].do = "tx" /\ u[k].e = e
            /\ Lists(v, Undoing) /\ Has(v, "tso", e)
            /\ \A k \in 1 .. Len(v) : v[k].do = "tso" /\ v[k].e = e
        <4>1. "tx" \in Verb /\ "tx" \in Undoing /\ "tso" \in Verb /\ "tso" \in Undoing
          BY <2>2, <1>1, <1>2
        <4> QED  BY <4>1, SingleLists
      <3> HIDE DEF u, v
      <3>2. After(u, {"tso"}, "tx")
        BY <3>1 DEF After
      <3>3. After(u \o v, {"tso"}, "tx")
        BY <3>1, <3>2, JoinedAfter
      <3>4. Lists(u \o v, Undoing)
        BY <3>1, JoinedLists
      <3>5. Has(u \o v, "tx", e) /\ Has(u \o v, "tso", e)
        BY <3>1, JoinedHas
      <3>6. \A k \in 1 .. Len(u \o v) : (u \o v)[k].e = e
        BY <3>1, Joined DEF Lists
      <3>7. w = u \o v
        BY <2>2
      <3> QED  BY <3>3, <3>4, <3>5, <3>6, <3>7
    <2> QED  BY <2>1, <2>2
  <1> HIDE DEF w
  <1>11. /\ Lists(z1, Undoing) /\ Has(z1, "to_host", e)
         /\ After(z1, later, "to_host") /\ After(z1, {"tso"}, "tx")
    <2>1. Lists(z1, Undoing)
      BY <1>3, <1>4, JoinedLists
    <2>2. Has(z1, "to_host", e)
      BY <1>3, <1>4, JoinedHas
    <2>3. After(z0, later, "to_host") /\ After(Cmd("to_host", e), later, "to_host")
      BY <1>3, <1>4 DEF After
    <2>4. After(z0, {"tso"}, "tx") /\ After(Cmd("to_host", e), {"tso"}, "tx")
      BY <1>3, <1>4 DEF After
    <2>5. After(z1, later, "to_host")
      BY <1>3, <1>4, <2>3, JoinedAfter
    <2>6. After(z1, {"tso"}, "tx")
      BY <1>3, <1>4, <2>4, JoinedAfter
    <2> QED  BY <2>1, <2>2, <2>5, <2>6
  <1> HIDE DEF z1, later
  <1>12. /\ Lists(z2, Undoing) /\ Has(z2, "to_host", e)
         /\ Ethtool => Has(z2, "tx", e) /\ Has(z2, "tso", e)
         /\ After(z2, later, "to_host") /\ After(z2, {"tso"}, "tx")
    <2>1. Lists(z2, Undoing)
      BY <1>11, <1>7, JoinedLists
    <2>2. /\ Has(z2, "to_host", e)
          /\ Ethtool => Has(z2, "tx", e) /\ Has(z2, "tso", e)
      BY <1>11, <1>7, JoinedHas
    <2>3. \A k \in 1 .. Len(w) : Has(z1, "to_host", w[k].e)
      BY <1>11, <1>7
    <2>4. After(z2, later, "to_host")
      BY <1>11, <1>7, <2>3, JoinedAfter
    <2>5. After(z2, {"tso"}, "tx")
      BY <1>11, <1>7, JoinedAfter
    <2> QED  BY <2>1, <2>2, <2>4, <2>5
  <1> HIDE DEF z2
  <1>13. ASSUME NEW do, NEW z, NEW c,
                Lists(c, Undoing), Has(c, do, e), Alone(c),
                \A k \in 1 .. Len(c) : c[k].do = do,
                do # "tso",
                Lists(z, Undoing), Has(z, "to_host", e),
                Ethtool => Has(z, "tx", e) /\ Has(z, "tso", e),
                After(z, later, "to_host"), After(z, {"tso"}, "tx")
         PROVE  /\ Lists(z \o c, Undoing) /\ Has(z \o c, "to_host", e)
                /\ Has(z \o c, do, e)
                /\ Ethtool => Has(z \o c, "tx", e) /\ Has(z \o c, "tso", e)
                /\ After(z \o c, later, "to_host") /\ After(z \o c, {"tso"}, "tx")
    <2>1. Lists(z \o c, Undoing)
      BY <1>13, JoinedLists
    <2>2. /\ Has(z \o c, "to_host", e) /\ Has(z \o c, do, e)
          /\ Ethtool => Has(z \o c, "tx", e) /\ Has(z \o c, "tso", e)
      BY <1>13, JoinedHas
    <2>3. \A k \in 1 .. Len(c) : Has(z, "to_host", c[k].e)
      BY <1>13
    <2>4. After(z \o c, later, "to_host")
      BY <1>13, <2>3, JoinedAfter
    <2>5. After(c, {"tso"}, "tx")
      BY <1>13 DEF After
    <2>6. After(z \o c, {"tso"}, "tx")
      BY <1>13, <2>5, JoinedAfter
    <2> QED  BY <2>1, <2>2, <2>4, <2>6
  <1>14. /\ Lists(z3, Undoing) /\ Has(z3, "to_host", e) /\ Has(z3, "mtu", e)
         /\ Ethtool => Has(z3, "tx", e) /\ Has(z3, "tso", e)
         /\ After(z3, later, "to_host") /\ After(z3, {"tso"}, "tx")
    BY <1>5, <1>12, <1>13
  <1> HIDE DEF z3
  <1> DEFINE l == z3 \o Cmd("link_state", e)
  <1>15. /\ Lists(l, Undoing) /\ Has(l, "to_host", e) /\ Has(l, "link_state", e)
         /\ Ethtool => Has(l, "tx", e) /\ Has(l, "tso", e)
         /\ After(l, later, "to_host") /\ After(l, {"tso"}, "tx")
    BY <1>6, <1>13, <1>14
  <1>16. Has(l, "mtu", e)
    BY <1>6, <1>14, JoinedHas
  <1> QED  BY <1>0, <1>15, <1>16 DEF later

(* The list of all endpoints is the list of each, the one after the other.     *)
LEMMA AllOf ==
  ASSUME NEW list, NEW verbs, \A e \in Endpoint : Lists(list[e], verbs)
  PROVE  /\ Lists(OfAll(list), verbs)
         /\ \A do : \A e \in Endpoint : Has(list[e], do, e) => Has(OfAll(list), do, e)
         /\ \A e \in Endpoint : AddsAll(list[e], e) => AddsAll(OfAll(list), e)
         /\ \A later, do : (\A e \in Endpoint : After(list[e], later, do))
                             => After(OfAll(list), later, do)
  <1>1. CASE Len(Endpoints) = 1
    <2>1. Endpoint = {Endpoints[1]} /\ OfAll(list) = list[Endpoints[1]]
      BY <1>1 DEF Endpoint, OfAll
    <2> QED  BY <2>1
  <1>2. CASE Len(Endpoints) # 1
    <2>1. Endpoints = <<"client", "server">>
      BY <1>2, EndpointsAssumption
    <2>2. Endpoint = {"client", "server"}
      BY <2>1 DEF Endpoint
    <2>3. OfAll(list) = list["client"] \o list["server"]
      <3>1. Endpoints[1] = "client" /\ Endpoints[2] = "server"
        BY <2>1
      <3> QED  BY <1>2, <3>1, Zenon DEF OfAll
    <2> DEFINE a == list["client"]
               b == list["server"]
    <2>4. Lists(a, verbs) /\ Lists(b, verbs)
      BY <2>2
    <2> HIDE DEF a, b
    <2>5. Lists(a \o b, verbs)
      BY <2>4, JoinedLists
    <2>6. ASSUME NEW do, NEW e, Has(a, do, e) \/ Has(b, do, e)
          PROVE  Has(a \o b, do, e)
      BY <2>4, <2>6, JoinedHas
    <2>7. ASSUME NEW e, AddsAll(a, e) \/ AddsAll(b, e)
          PROVE  AddsAll(a \o b, e)
      BY <2>4, <2>7, JoinedAdds
    <2>8. ASSUME NEW later, NEW do, After(a, later, do), After(b, later, do)
          PROVE  After(a \o b, later, do)
      BY <2>4, <2>8, JoinedAfter
    <2> QED  BY <2>2, <2>3, <2>5, <2>6, <2>7, <2>8 DEF a, b
  <1> QED  BY <1>1, <1>2

LEMMA CommandsLists ==
  /\ Lists(Commands, Applying)
  /\ \A e \in Endpoint : /\ Has(Commands, "to_netns", e) /\ Has(Commands, "mtu_up", e)
                         /\ AddsAll(Commands, e)
  /\ After(Commands, {"mtu_up", "address_add"}, "to_netns")
  <1> DEFINE list == [e \in Endpoint |-> CommandsOf(e)]
  <1>1. \A e \in Endpoint : list[e] = CommandsOf(e)
    OBVIOUS
  <1>2. Commands = OfAll(list)
    BY DEF Commands
  <1> HIDE DEF list
  <1>3. /\ \A e \in Endpoint : Lists(list[e], Applying)
        /\ \A e \in Endpoint : Has(list[e], "to_netns", e) /\ Has(list[e], "mtu_up", e)
        /\ \A e \in Endpoint : AddsAll(list[e], e)
        /\ \A e \in Endpoint : After(list[e], {"mtu_up", "address_add"}, "to_netns")
    BY <1>1, CommandsOfLists
  <1> QED  BY <1>2, <1>3, AllOf

LEMMA RestoresLists ==
  /\ Lists(Restores, Undoing)
  /\ \A e \in Endpoint : /\ Has(Restores, "to_host", e) /\ Has(Restores, "mtu", e)
                         /\ Has(Restores, "link_state", e)
                         /\ Ethtool => Has(Restores, "tx", e) /\ Has(Restores, "tso", e)
  /\ After(Restores, {"tx", "tso", "mtu", "link_state"}, "to_host")
  /\ After(Restores, {"tso"}, "tx")
  <1> DEFINE list == [e \in Endpoint |-> RestoresOf(e)]
  <1>1. \A e \in Endpoint : list[e] = RestoresOf(e)
    OBVIOUS
  <1>2. Restores = OfAll(list)
    BY DEF Restores
  <1> HIDE DEF list
  <1>3. /\ \A e \in Endpoint : Lists(list[e], Undoing)
        /\ \A e \in Endpoint : /\ Has(list[e], "to_host", e) /\ Has(list[e], "mtu", e)
                               /\ Has(list[e], "link_state", e)
                               /\ Ethtool => Has(list[e], "tx", e) /\ Has(list[e], "tso", e)
        /\ \A e \in Endpoint : After(list[e], {"tx", "tso", "mtu", "link_state"}, "to_host")
        /\ \A e \in Endpoint : After(list[e], {"tso"}, "tx")
    BY <1>1, RestoresOfLists
  <1> QED  BY <1>2, <1>3, AllOf

LEMMA DeletesLists ==
  Lists(Deletes, {"netns_del"}) /\ \A e \in Endpoint : Has(Deletes, "netns_del", e)
  <1> DEFINE list == [e \in Endpoint |-> Cmd("netns_del", e)]
  <1>1. \A e \in Endpoint : list[e] = Cmd("netns_del", e)
    OBVIOUS
  <1>2. Deletes = OfAll(list)
    BY DEF Deletes
  <1> HIDE DEF list
  <1>3. "netns_del" \in Verb /\ "netns_del" \in {"netns_del"}
    BY DEF Verb
  <1>4. \A e \in Endpoint : /\ Lists(list[e], {"netns_del"})
                            /\ Has(list[e], "netns_del", e)
    BY <1>1, <1>3, SingleLists
  <1> QED  BY <1>2, <1>4, AllOf

-----------------------------------------------------------------------------
(* What a command does to the kernel                                          *)

KernelTypes ==
  /\ netns \subseteq Endpoint
  /\ where \in [Endpoint -> {"host", "netns", "gone"}]
  /\ link \in [Endpoint -> Link]
  /\ own \in [Endpoint -> Working]
  /\ addrs \in [Endpoint -> SUBSET (1 .. Count)]

LEMMA LinkAfterType ==
  ASSUME KernelTypes, NEW saved \in [Endpoint -> Link], NEW c \in Command
  PROVE  LinkAfter(c, saved) \in Link
  <1> DEFINE l == link[c.e]
             s == saved[c.e]
  <1>1. c.e \in Endpoint
    BY DEF Command
  <1>2. /\ l \in Link /\ l.up \in BOOLEAN /\ l.mtu \in {"own", "other", "test"}
        /\ l.tx \in BOOLEAN /\ l.tso \in BOOLEAN
    BY <1>1 DEF KernelTypes, Link
  <1>3. /\ s.up \in BOOLEAN /\ s.mtu \in {"own", "other", "test"}
        /\ s.tx \in BOOLEAN /\ s.tso \in BOOLEAN
    BY <1>1 DEF Link
  <1> HIDE DEF s
  <1>4. LinkAfter(c, saved) =
          CASE c.do \in {"to_netns", "to_host"} -> [l EXCEPT !.up = FALSE]
            [] c.do = "mtu_up" -> [l EXCEPT !.mtu = "test", !.up = TRUE]
            [] c.do = "tso_off" -> [l EXCEPT !.tso = FALSE]
            [] c.do = "tx_off" -> [l EXCEPT !.tx = FALSE, !.tso = FALSE]
            [] c.do = "tx" -> [l EXCEPT !.tx = s.tx]
            [] c.do = "tso" -> [l EXCEPT !.tso = s.tso]
            [] c.do = "mtu" -> [l EXCEPT !.mtu = s.mtu]
            [] c.do = "link_state" -> [l EXCEPT !.up = s.up]
            [] OTHER -> l
    BY DEF LinkAfter, l, s
  <1> HIDE DEF l
  <1>5. /\ [l EXCEPT !.up = FALSE] \in Link
        /\ [l EXCEPT !.mtu = "test", !.up = TRUE] \in Link
        /\ [l EXCEPT !.tso = FALSE] \in Link
        /\ [l EXCEPT !.tx = FALSE, !.tso = FALSE] \in Link
        /\ [l EXCEPT !.tx = s.tx] \in Link
        /\ [l EXCEPT !.tso = s.tso] \in Link
        /\ [l EXCEPT !.mtu = s.mtu] \in Link
        /\ [l EXCEPT !.up = s.up] \in Link
    BY <1>2, <1>3 DEF Link
  <1> HIDE DEF Link
  <1> QED  BY <1>2, <1>4, <1>5

(* Field by field: what a command leaves of an interface.                      *)
LEMMA LinkAfterFields ==
  ASSUME KernelTypes, NEW saved \in [Endpoint -> Link], NEW c \in Command
  PROVE  LET l == link[c.e]
             m == LinkAfter(c, saved) IN
         /\ m.up = CASE c.do \in {"to_netns", "to_host"} -> FALSE
                     [] c.do = "mtu_up" -> TRUE
                     [] c.do = "link_state" -> saved[c.e].up
                     [] OTHER -> l.up
         /\ m.mtu = CASE c.do = "mtu_up" -> "test"
                      [] c.do = "mtu" -> saved[c.e].mtu
                      [] OTHER -> l.mtu
         /\ m.tx = CASE c.do = "tx_off" -> FALSE
                     [] c.do = "tx" -> saved[c.e].tx
                     [] OTHER -> l.tx
         /\ m.tso = CASE c.do \in {"tso_off", "tx_off"} -> FALSE
                      [] c.do = "tso" -> saved[c.e].tso
                      [] OTHER -> l.tso
  <1> DEFINE l == link[c.e]
             s == saved[c.e]
  <1>1. c.e \in Endpoint /\ c.do \in Verb
    BY DEF Command
  <1>2. l \in [up : BOOLEAN, mtu : {"own", "other", "test"}, tx : BOOLEAN, tso : BOOLEAN]
    BY <1>1 DEF KernelTypes, Link
  <1> DEFINE m == LinkAfter(c, saved)
  <1>3. /\ c.do \in {"to_netns", "to_host"} => m = [l EXCEPT !.up = FALSE]
        /\ c.do = "mtu_up" => m = [l EXCEPT !.mtu = "test", !.up = TRUE]
        /\ c.do = "tso_off" => m = [l EXCEPT !.tso = FALSE]
        /\ c.do = "tx_off" => m = [l EXCEPT !.tx = FALSE, !.tso = FALSE]
        /\ c.do = "tx" => m = [l EXCEPT !.tx = s.tx]
        /\ c.do = "tso" => m = [l EXCEPT !.tso = s.tso]
        /\ c.do = "mtu" => m = [l EXCEPT !.mtu = s.mtu]
        /\ c.do = "link_state" => m = [l EXCEPT !.up = s.up]
        /\ c.do \in {"arping", "netns_add", "lo_up", "address_add", "address_del",
                     "netns_del"} => m = l
    BY DEF LinkAfter
  <1> HIDE DEF m, l, s
  <1>4. c.do \in {"to_netns", "to_host"} =>
          m.up = FALSE /\ m.mtu = l.mtu /\ m.tx = l.tx /\ m.tso = l.tso
    BY <1>2, <1>3
  <1>5. c.do = "mtu_up" => m.up = TRUE /\ m.mtu = "test" /\ m.tx = l.tx /\ m.tso = l.tso
    BY <1>2, <1>3
  <1>6. c.do = "tso_off" => m.up = l.up /\ m.mtu = l.mtu /\ m.tx = l.tx /\ m.tso = FALSE
    BY <1>2, <1>3
  <1>7. c.do = "tx_off" => m.up = l.up /\ m.mtu = l.mtu /\ m.tx = FALSE /\ m.tso = FALSE
    BY <1>2, <1>3
  <1>8. c.do = "tx" => m.up = l.up /\ m.mtu = l.mtu /\ m.tx = s.tx /\ m.tso = l.tso
    BY <1>2, <1>3
  <1>9. c.do = "tso" => m.up = l.up /\ m.mtu = l.mtu /\ m.tx = l.tx /\ m.tso = s.tso
    BY <1>2, <1>3
  <1>10. c.do = "mtu" => m.up = l.up /\ m.mtu = s.mtu /\ m.tx = l.tx /\ m.tso = l.tso
    BY <1>2, <1>3
  <1>11. c.do = "link_state" => m.up = s.up /\ m.mtu = l.mtu /\ m.tx = l.tx /\ m.tso = l.tso
    BY <1>2, <1>3
  <1>12. c.do \in {"arping", "netns_add", "lo_up", "address_add", "address_del",
                   "netns_del"} =>
           m.up = l.up /\ m.mtu = l.mtu /\ m.tx = l.tx /\ m.tso = l.tso
    BY <1>3
  <1>13. \/ c.do \in {"to_netns", "to_host"} \/ c.do = "mtu_up" \/ c.do = "tso_off"
         \/ c.do = "tx_off" \/ c.do = "tx" \/ c.do = "tso" \/ c.do = "mtu"
         \/ c.do = "link_state"
         \/ c.do \in {"arping", "netns_add", "lo_up", "address_add", "address_del",
                      "netns_del"}
    BY <1>1 DEF Verb
  <1>21. m.up = CASE c.do \in {"to_netns", "to_host"} -> FALSE
                  [] c.do = "mtu_up" -> TRUE
                  [] c.do = "link_state" -> s.up
                  [] OTHER -> l.up
    BY <1>4, <1>5, <1>6, <1>7, <1>8, <1>9, <1>10, <1>11, <1>12, <1>13
  <1>22. m.mtu = CASE c.do = "mtu_up" -> "test"
                   [] c.do = "mtu" -> s.mtu
                   [] OTHER -> l.mtu
    BY <1>4, <1>5, <1>6, <1>7, <1>8, <1>9, <1>10, <1>11, <1>12, <1>13
  <1>23. m.tx = CASE c.do = "tx_off" -> FALSE
                  [] c.do = "tx" -> s.tx
                  [] OTHER -> l.tx
    BY <1>4, <1>5, <1>6, <1>7, <1>8, <1>9, <1>10, <1>11, <1>12, <1>13
  <1>24. m.tso = CASE c.do \in {"tso_off", "tx_off"} -> FALSE
                   [] c.do = "tso" -> s.tso
                   [] OTHER -> l.tso
    BY <1>4, <1>5, <1>6, <1>7, <1>8, <1>9, <1>10, <1>11, <1>12, <1>13
  <1> QED  BY <1>21, <1>22, <1>23, <1>24 DEF m, l, s

(* The other interfaces are left alone.                                        *)
LEMMA RunEffect ==
  ASSUME KernelTypes, NEW saved \in [Endpoint -> Link], NEW c \in Command,
         Run(c, saved)
  PROVE  /\ KernelTypes'
         /\ own' = own
         /\ \A f \in Endpoint : f # c.e =>
              /\ where'[f] = where[f] /\ link'[f] = link[f] /\ addrs'[f] = addrs[f]
              /\ f \in netns' <=> f \in netns
         /\ c.e \in Endpoint
         /\ where'[c.e] = CASE c.do = "to_netns" -> "netns"
                            [] c.do = "to_host" -> "host"
                            [] c.do = "netns_del" /\ where[c.e] = "netns" -> "gone"
                            [] OTHER -> where[c.e]
         /\ link'[c.e] = LinkAfter(c, saved)
         /\ addrs'[c.e] = AddressesAfter(c)
         /\ c.e \in netns' <=> c.do = "netns_add" \/ (c.do # "netns_del" /\ c.e \in netns)
  <1>0. c.e \in Endpoint /\ c.n \in 0 .. Count /\ (c.do = "address_add" => c.n # 0)
    BY DEF Command
  <1> DEFINE e == c.e
             at == CASE c.do = "to_netns" -> "netns"
                     [] c.do = "to_host" -> "host"
                     [] c.do = "netns_del" /\ where[c.e] = "netns" -> "gone"
                     [] OTHER -> where[c.e]
  <1>1. /\ netns' = CASE c.do = "netns_add" -> netns \cup {e}
                      [] c.do = "netns_del" -> netns \ {e}
                      [] OTHER -> netns
        /\ where' = [where EXCEPT ![e] = at]
        /\ link' = [link EXCEPT ![e] = LinkAfter(c, saved)]
        /\ addrs' = [addrs EXCEPT ![e] = AddressesAfter(c)]
        /\ own' = own
    BY DEF Run
  <1>2. at \in {"host", "netns", "gone"}
    BY <1>0 DEF KernelTypes
  <1>3. AddressesAfter(c) \in SUBSET (1 .. Count)
    <2>1. addrs[e] \in SUBSET (1 .. Count)
      BY <1>0 DEF KernelTypes
    <2>2. c.do = "address_add" => c.n \in 1 .. Count
      BY <1>0, EndpointsAssumption
    <2>3. \/ AddressesAfter(c) = addrs[e] \cup {c.n} /\ c.do = "address_add"
          \/ AddressesAfter(c) = addrs[e] \ {c.n}
          \/ AddressesAfter(c) = {}
          \/ AddressesAfter(c) = addrs[e]
      BY DEF AddressesAfter
    <2> QED  BY <2>1, <2>2, <2>3
  <1>4. LinkAfter(c, saved) \in Link
    BY LinkAfterType
  <1>5. netns' \subseteq Endpoint /\ own' \in [Endpoint -> Working]
    BY <1>0, <1>1 DEF KernelTypes
  <1> HIDE DEF at, e
  <1>6. where' \in [Endpoint -> {"host", "netns", "gone"}]
    BY <1>1, <1>2 DEF KernelTypes
  <1>7. link' \in [Endpoint -> Link]
    BY <1>1, <1>4 DEF KernelTypes
  <1>8. addrs' \in [Endpoint -> SUBSET (1 .. Count)]
    BY <1>1, <1>3 DEF KernelTypes
  <1>9. /\ e \in Endpoint /\ where'[e] = at /\ link'[e] = LinkAfter(c, saved)
        /\ addrs'[e] = AddressesAfter(c)
    BY <1>0, <1>1 DEF KernelTypes, e
  <1>10. \A f \in Endpoint : f # e =>
           where'[f] = where[f] /\ link'[f] = link[f] /\ addrs'[f] = addrs[f]
    BY <1>1 DEF KernelTypes
  <1>11. /\ \A f \in Endpoint : f # e => (f \in netns' <=> f \in netns)
         /\ e \in netns' <=> c.do = "netns_add" \/ (c.do # "netns_del" /\ e \in netns)
    BY <1>1
  <1> QED
    BY <1>1, <1>5, <1>6, <1>7, <1>8, <1>9, <1>10, <1>11 DEF KernelTypes, e, at

-----------------------------------------------------------------------------
(* Types                                                                      *)

TaskState == [pc : TaskPc, j : Journal \cup {None}, i : Nat \ {0},
              tries : 0 .. Attempts - 1, failed : BOOLEAN]

LEMMA TypesAre ==
  TypeOK <=> /\ KernelTypes
             /\ journal \in Journal \cup {None}
             /\ plan \in [Endpoint -> Link] \cup {None}
             /\ task \in [Task -> TaskState]
             /\ stages \in 0 .. MaxStages
             /\ abandoned \in BOOLEAN
             /\ failures \in 0 .. MaxFailures
             /\ crashes \in 0 .. MaxCrashes
  BY DEF TypeOK, KernelTypes, TaskState

LEMMA IdleIs ==
  /\ Idle \in TaskState
  /\ Idle.pc = "idle" /\ Idle.j = None /\ Idle.i = 1 /\ Idle.tries = 0 /\ ~Idle.failed
  BY DEF Idle, TaskState, TaskPc, Attempts

LEMMA Starts ==
  ASSUME NEW pc \in TaskPc, NEW j \in Journal \cup {None}
  PROVE  LET s == [Idle EXCEPT !.pc = pc, !.j = j] IN
         /\ s \in TaskState
         /\ s.pc = pc /\ s.j = j /\ s.i = 1 /\ s.tries = 0 /\ ~s.failed
  BY IdleIs DEF TaskState

(* A command of the list a rollback is at.                                     *)
LEMMA RollbackCommands ==
  ASSUME NEW pc, pc \in {"restore", "delete"},
         NEW i \in Nat \ {0}, i <= Len(RollbackList(pc))
  PROVE  /\ i \in 1 .. Len(RollbackList(pc))
         /\ RollbackList(pc)[i] \in Command
  <1>1. \E verbs : Lists(RollbackList(pc), verbs)
    BY RestoresLists, DeletesLists DEF RollbackList
  <1>2. RollbackList(pc) \in Seq(Command)
    BY <1>1 DEF Lists
  <1>3. i \in 1 .. Len(RollbackList(pc))
    BY <1>2
  <1> QED  BY <1>2, <1>3

LEMMA NextCommandIs ==
  ASSUME NEW s \in TaskState
  PROVE  LET n == NextCommand(s) IN
         /\ n \in TaskState
         /\ n.pc = s.pc /\ n.j = s.j /\ n.i = s.i + 1 /\ n.tries = 0 /\ n.failed = s.failed
  <1> DEFINE n == [s EXCEPT !.i = s.i + 1]
             m == [n EXCEPT !.tries = 0]
  <1>1. /\ n \in TaskState /\ n.pc = s.pc /\ n.j = s.j /\ n.i = s.i + 1
        /\ n.failed = s.failed
    BY DEF TaskState
  <1>2. NextCommand(s) = m
    BY DEF NextCommand
  <1> HIDE DEF n
  <1>3. /\ m \in TaskState /\ m.pc = n.pc /\ m.j = n.j /\ m.i = n.i /\ m.tries = 0
        /\ m.failed = n.failed
    BY <1>1 DEF TaskState, Attempts
  <1> QED  BY <1>1, <1>2, <1>3

LEMMA MovesOn ==
  ASSUME TypeOK, NEW t \in Task, NEW new \in TaskState, Goto(t, new)
  PROVE  /\ task' \in [Task -> TaskState]
         /\ task'[t] = new
         /\ \A u \in Task : u # t => task'[u] = task[u]
  BY TypesAre DEF Goto

LEMMA JournalOf ==
  ASSUME TypeOK, NEW t \in Task
  PROVE  /\ task[t] \in TaskState
         /\ task[t].pc \in TaskPc /\ task[t].j \in Journal \cup {None}
         /\ task[t].i \in Nat \ {0} /\ task[t].tries \in 0 .. 2
         /\ task[t].failed \in BOOLEAN
  BY TypesAre DEF TaskState, Attempts

LEMMA PhaseOf ==
  ASSUME NEW j \in Journal, NEW phase \in Phase
  PROVE  LET k == [j EXCEPT !.phase = phase] IN
         k \in Journal /\ k.op = j.op /\ k.phase = phase /\ k.saved = j.saved
  BY DEF Journal

LEMMA JournalHas ==
  ASSUME NEW j \in Journal
  PROVE  /\ j.op \in 1 .. MaxStages /\ j.phase \in Phase
         /\ j.saved \in [Endpoint -> Link]
  BY DEF Journal

LEMMA TypeInvInit == Init => TypeInv
  <1> SUFFICES ASSUME Init PROVE TypeInv
    OBVIOUS
  <1>1. own \in [Endpoint -> Working] /\ link \in [Endpoint -> Link]
    BY DEF Init, Working
  <1>2. task \in [Task -> TaskState] /\ \A t \in Task : task[t] = Idle
    BY IdleIs DEF Init
  <1>3. KernelTypes
    BY <1>1 DEF Init, KernelTypes
  <1>4. stages \in 0 .. MaxStages /\ failures \in 0 .. MaxFailures /\ crashes \in 0 .. MaxCrashes
    BY EndpointsAssumption DEF Init
  <1>5. TypeOK
    BY <1>2, <1>3, <1>4, TypesAre DEF Init
  <1> QED  BY <1>2, <1>5, IdleIs DEF TypeInv, AtWork

LEMMA MovesKeepTypes ==
  ASSUME TypeInv, NEW t \in Task, NEW new \in TaskState, Goto(t, new),
         new.pc \in AtWork => new.j \in Journal,
         KernelTypes', journal' \in Journal \cup {None},
         plan' \in [Endpoint -> Link] \cup {None},
         stages' \in 0 .. MaxStages, abandoned' \in BOOLEAN,
         failures' \in 0 .. MaxFailures, crashes' \in 0 .. MaxCrashes
  PROVE  TypeInv'
  <1>1. /\ task' \in [Task -> TaskState] /\ task'[t] = new
        /\ \A u \in Task : u # t => task'[u] = task[u]
    BY MovesOn DEF TypeInv
  <1>2. TypeOK'
    BY <1>1 DEF TypeOK, KernelTypes, TaskState
  <1>3. \A u \in Task : task'[u].pc \in AtWork => task'[u].j \in Journal
    BY <1>1 DEF TypeInv
  <1> QED  BY <1>2, <1>3 DEF TypeInv

LEMMA LoopIsTask == Loop \in Task /\ Lease \subseteq Task /\ Loop \notin Lease
  BY EndpointsAssumption DEF Loop, Lease, Task

LEMMA OperatorKeepsTypes ==
  ASSUME TypeInv, NEW e \in Endpoint, OperatorChanges(e)
  PROVE  TypeInv'
  <1>1. own \in [Endpoint -> Working] /\ link \in [Endpoint -> Link]
    BY DEF TypeInv, TypeOK
  <1>2. own[e] \in Working /\ link[e] \in Link
    BY <1>1
  <1>3. [own[e] EXCEPT !.mtu = "other"] \in Working
    BY <1>2 DEF Working, Link
  <1>4. [link[e] EXCEPT !.mtu = "other"] \in Link
    BY <1>2 DEF Link
  <1>5. /\ own' = [own EXCEPT ![e] = [own[e] EXCEPT !.mtu = "other"]]
        /\ link' = [link EXCEPT ![e] = [link[e] EXCEPT !.mtu = "other"]]
    BY DEF OperatorChanges
  <1>6. own' \in [Endpoint -> Working] /\ link' \in [Endpoint -> Link]
    BY <1>1, <1>3, <1>4, <1>5
  <1> QED  BY <1>6 DEF OperatorChanges, TypeInv, TypeOK, bounds, AtWork

LEMMA KernelStays ==
  ASSUME TypeInv, UNCHANGED kernel
  PROVE  KernelTypes'
  BY DEF TypeInv, TypeOK, KernelTypes, kernel

(* A failure is counted, or there is none.                                     *)
LEMMA FailureCounted ==
  ASSUME TypeInv, UNCHANGED failures \/ Fails
  PROVE  failures' \in 0 .. MaxFailures
  BY EndpointsAssumption DEF TypeInv, TypeOK, Fails

LEMMA LoopKeepsTypes ==
  ASSUME TypeInv, Plan \/ Stage \/ CommitReads \/ CommitWrites \/ Recover \/ Restart
  PROVE  TypeInv'
  <1>0. /\ TypeOK /\ Loop \in Task
        /\ journal \in Journal \cup {None} /\ plan \in [Endpoint -> Link] \cup {None}
        /\ stages \in 0 .. MaxStages /\ failures \in 0 .. MaxFailures
        /\ crashes \in 0 .. MaxCrashes /\ abandoned \in BOOLEAN
    BY LoopIsTask DEF TypeInv, TypeOK
  <1>1. CASE Plan
    <2>1. link \in [Endpoint -> Link]
      BY <1>0 DEF TypeOK
    <2> QED  BY <1>1, <2>1 DEF Plan, TypeInv, TypeOK, kernel, bounds
  <1>2. CASE Stage
    <2> DEFINE j == [op |-> stages + 1, phase |-> "applying", saved |-> plan]
               new == [Idle EXCEPT !.pc = "apply", !.j = j]
    <2>1. /\ Goto(Loop, new) /\ journal' = j /\ stages' = stages + 1 /\ stages < MaxStages
          /\ plan # None /\ abandoned' = FALSE /\ UNCHANGED <<kernel, plan, bounds>>
      BY <1>2 DEF Stage, WriteJournal
    <2>2. stages' \in 0 .. MaxStages /\ stages + 1 \in 1 .. MaxStages
      BY <1>0, <2>1, EndpointsAssumption
    <2>3. j \in Journal
      BY <1>0, <2>1, <2>2 DEF Journal, Phase
    <2> HIDE DEF j
    <2>4. new \in TaskState /\ new.pc = "apply" /\ new.j = j
      <3>1. "apply" \in TaskPc /\ j \in Journal \cup {None}
        BY <2>3 DEF TaskPc
      <3> QED  BY <3>1, Starts, Zenon
    <2> HIDE DEF new
    <2>5. KernelTypes'
      BY <2>1, KernelStays
    <2> QED  BY <1>0, <2>1, <2>2, <2>3, <2>4, <2>5, MovesKeepTypes DEF bounds
  <1>3. CASE CommitReads
    <2> DEFINE new == [Idle EXCEPT !.pc = "commit", !.j = journal]
    <2>1. /\ Goto(Loop, new) /\ journal # None
          /\ UNCHANGED <<kernel, journal, plan, stages, abandoned, bounds>>
      BY <1>3 DEF CommitReads
    <2>2. new \in TaskState /\ new.pc = "commit" /\ new.j = journal
      <3>1. "commit" \in TaskPc
        BY DEF TaskPc
      <3> QED  BY <1>0, <3>1, Starts, ZenonT(90)
    <2> HIDE DEF new
    <2>3. KernelTypes'
      BY <2>1, KernelStays
    <2> QED  BY <1>0, <2>1, <2>2, <2>3, MovesKeepTypes DEF bounds
  <1>4. CASE CommitWrites
    <2> DEFINE j == task[Loop].j
               k == [j EXCEPT !.phase = "prepared"]
    <2>1. /\ task[Loop].pc = "commit" /\ Goto(Loop, Idle)
          /\ \/ journal' = k /\ UNCHANGED failures
             \/ Fails /\ UNCHANGED journal
          /\ UNCHANGED <<kernel, plan, stages, abandoned, crashes>>
      BY <1>4 DEF CommitWrites, WriteJournal
    <2>2. j \in Journal
      BY <1>0, <2>1 DEF TypeInv, AtWork
    <2>3. k \in Journal
      BY <2>2, PhaseOf DEF Phase
    <2> HIDE DEF j, k
    <2>4. KernelTypes' /\ failures' \in 0 .. MaxFailures
      BY <2>1, KernelStays, FailureCounted
    <2>5. journal' \in Journal \cup {None}
      BY <1>0, <2>1, <2>3
    <2> QED  BY <1>0, <2>1, <2>4, <2>5, IdleIs, MovesKeepTypes DEF AtWork
  <1>5. CASE Recover \/ Restart
    <2> DEFINE new == [Idle EXCEPT !.pc = "restore", !.j = journal]
    <2>1. /\ \/ journal # None /\ Goto(Loop, new)
             \/ Goto(Loop, Idle)
          /\ abandoned' \in {abandoned, TRUE}
          /\ UNCHANGED failures \/ Fails
          /\ UNCHANGED <<kernel, journal, plan, stages, crashes>>
      BY <1>5 DEF Recover, Restart, StartRollback, bounds
    <2>2. new \in TaskState /\ new.pc = "restore" /\ new.j = journal
      <3>1. "restore" \in TaskPc
        BY DEF TaskPc
      <3> QED  BY <1>0, <3>1, Starts, ZenonT(90)
    <2> HIDE DEF new
    <2>3. KernelTypes' /\ failures' \in 0 .. MaxFailures /\ abandoned' \in BOOLEAN
      BY <1>0, <2>1, KernelStays, FailureCounted
    <2>4. CASE journal # None /\ Goto(Loop, new)
      BY <1>0, <2>1, <2>2, <2>3, <2>4, MovesKeepTypes
    <2>5. CASE Goto(Loop, Idle)
      BY <1>0, <2>1, <2>3, <2>5, IdleIs, MovesKeepTypes DEF AtWork
    <2> QED  BY <2>1, <2>4, <2>5
  <1> QED  BY <1>1, <1>2, <1>3, <1>4, <1>5

LEMMA ApplyCommands ==
  ASSUME NEW i \in Nat \ {0}, i <= Len(Commands)
  PROVE  i \in 1 .. Len(Commands) /\ Commands[i] \in Command /\ Commands[i].do \in Applying
  <1>1. Commands \in Seq(Command) /\ \A k \in 1 .. Len(Commands) : Commands[k].do \in Applying
    BY CommandsLists DEF Lists
  <1>2. i \in 1 .. Len(Commands)
    BY <1>1
  <1> QED  BY <1>1, <1>2

LEMMA ApplyKeepsTypes == ASSUME TypeInv, Apply PROVE TypeInv'
  <1> DEFINE s == task[Loop]
             stop == [s.j EXCEPT !.phase = "rolling_back"]
             done == [s.j EXCEPT !.phase = "staged"]
  <1>0. /\ TypeOK /\ Loop \in Task
        /\ journal \in Journal \cup {None} /\ plan \in [Endpoint -> Link] \cup {None}
        /\ stages \in 0 .. MaxStages /\ failures \in 0 .. MaxFailures
        /\ crashes \in 0 .. MaxCrashes /\ abandoned \in BOOLEAN
    BY LoopIsTask DEF TypeInv, TypeOK
  <1>1. s.pc = "apply" => s.j \in Journal
    BY <1>0 DEF TypeInv, AtWork
  <1>2. s \in TaskState /\ s.i \in Nat \ {0}
    BY <1>0, JournalOf
  <1>3. CASE ApplyNext
    <2> DEFINE new == [s EXCEPT !.i = s.i + 1]
    <2>1. /\ s.pc = "apply" /\ s.i <= Len(Commands)
          /\ Run(Commands[s.i], s.j.saved) /\ journal' = s.j /\ Goto(Loop, new)
          /\ UNCHANGED <<plan, stages, abandoned, bounds>>
      BY <1>3 DEF ApplyNext, WriteJournal
    <2>2. new \in TaskState /\ new.pc = "apply" /\ new.j = s.j
      BY <1>2, <2>1 DEF TaskState
    <2>3. Commands[s.i] \in Command
      BY <1>2, <2>1, ApplyCommands
    <2>4. s.j.saved \in [Endpoint -> Link]
      BY <1>1, <2>1, JournalHas
    <2> HIDE DEF s, new
    <2>5. KernelTypes
      BY <1>0, TypesAre
    <2>6. KernelTypes'
      BY <2>1, <2>3, <2>4, <2>5, RunEffect
    <2> QED  BY <1>0, <1>1, <2>1, <2>2, <2>6, MovesKeepTypes DEF bounds
  <1>4. CASE ApplyFails
    <2> DEFINE new == [Idle EXCEPT !.pc = "restore", !.j = stop]
    <2>1. /\ s.pc = "apply" /\ journal' = stop /\ Goto(Loop, new)
          /\ UNCHANGED <<kernel, plan, stages, abandoned, crashes>>
          /\ \/ UNCHANGED failures
             \/ failures < MaxFailures /\ failures' = failures + 1
      BY <1>4 DEF ApplyFails, WriteJournal, StartRollback, Fails
    <2>2. stop \in Journal
      BY <1>1, <2>1, PhaseOf DEF Phase
    <2> HIDE DEF stop
    <2>3. new \in TaskState /\ new.pc = "restore" /\ new.j = stop
      <3>1. "restore" \in TaskPc /\ stop \in Journal \cup {None}
        BY <2>2 DEF TaskPc
      <3> QED  BY <3>1, Starts, Zenon
    <2> HIDE DEF new
    <2>4. KernelTypes'
      BY <2>1, KernelStays
    <2>5. failures' \in 0 .. MaxFailures
      BY <1>0, <2>1, EndpointsAssumption
    <2> QED  BY <1>0, <2>1, <2>2, <2>3, <2>4, <2>5, MovesKeepTypes
  <1>6. CASE ApplyStops
    <2>1. /\ s.pc = "apply" /\ Goto(Loop, Idle)
          /\ UNCHANGED <<journal, plan, stages, abandoned, crashes>>
          /\ \/ /\ s.i <= Len(Commands) /\ Run(Commands[s.i], s.j.saved)
                /\ failures < MaxFailures /\ failures' = failures + 1
             \/ /\ failures + 1 < MaxFailures /\ failures' = failures + 2
                /\ UNCHANGED kernel
             \/ /\ failures < MaxFailures /\ failures' = failures + 1
                /\ UNCHANGED kernel
      BY <1>6 DEF ApplyStops, Fails
    <2>2. failures' \in 0 .. MaxFailures
      BY <1>0, <2>1, EndpointsAssumption
    <2>3. s.i <= Len(Commands) => Commands[s.i] \in Command
      BY <1>2, ApplyCommands
    <2>4. s.j.saved \in [Endpoint -> Link]
      BY <1>1, <2>1, JournalHas
    <2> HIDE DEF s
    <2>5. KernelTypes
      BY <1>0, TypesAre
    <2>6. KernelTypes'
      BY <2>1, <2>3, <2>4, <2>5, RunEffect, KernelStays
    <2> QED  BY <1>0, <2>1, <2>2, <2>6, IdleIs, MovesKeepTypes DEF AtWork
  <1>5. CASE ApplyDone
    <2> DEFINE new == [Idle EXCEPT !.pc = "armed", !.j = done]
    <2>1. /\ s.pc = "apply" /\ journal' = done
          /\ task' = [task EXCEPT ![Loop] = Idle, ![done.op] = new]
          /\ UNCHANGED <<kernel, plan, stages, abandoned, bounds>>
      BY <1>5 DEF ApplyDone, WriteJournal
    <2>2. done \in Journal
      BY <1>1, <2>1, PhaseOf DEF Phase
    <2>3. done.op \in Lease
      BY <2>2, JournalHas DEF Lease
    <2> HIDE DEF done
    <2>4. new \in TaskState /\ new.pc = "armed"
      <3>1. "armed" \in TaskPc /\ done \in Journal \cup {None}
        BY <2>2 DEF TaskPc
      <3> QED  BY <3>1, Starts, Zenon
    <2> HIDE DEF new
    <2>5. KernelTypes'
      BY <2>1, KernelStays
    <2>6. task \in [Task -> TaskState]
      BY <1>0, TypesAre
    <2>7. task' \in [Task -> TaskState]
      BY <2>1, <2>4, <2>6, IdleIs
    <2>8. \A t \in Task : task'[t] = Idle \/ task'[t] = new \/ task'[t] = task[t]
      BY <2>1, <2>6
    <2>9. TypeOK'
      BY <1>0, <2>1, <2>2, <2>5, <2>7 DEF TypeOK, KernelTypes, TaskState, bounds
    <2>10. \A t \in Task : task'[t].pc \in AtWork => task'[t].j \in Journal
      BY <2>4, <2>8, IdleIs DEF TypeInv, AtWork
    <2> QED  BY <2>9, <2>10 DEF TypeInv
  <1> QED  BY <1>3, <1>4, <1>5, <1>6 DEF Apply

LEMMA RollbackKeepsTypes ==
  ASSUME TypeInv, NEW t \in Task, Rollback(t) PROVE TypeInv'
  <1> DEFINE s == task[t]
  <1>0. /\ TypeOK
        /\ journal \in Journal \cup {None} /\ plan \in [Endpoint -> Link] \cup {None}
        /\ stages \in 0 .. MaxStages /\ failures \in 0 .. MaxFailures
        /\ crashes \in 0 .. MaxCrashes /\ abandoned \in BOOLEAN
    BY DEF TypeInv, TypeOK
  <1>1. s.pc \in AtWork => s.j \in Journal
    BY DEF TypeInv
  <1>2. /\ s \in TaskState /\ s.i \in Nat \ {0} /\ s.tries \in 0 .. 2
        /\ s.failed \in BOOLEAN
    BY <1>0, JournalOf
  <1>3. {"restore", "delete", "remove"} \subseteq AtWork
    BY DEF AtWork
  <1>4. CASE RollbackRuns(t)
    <2> DEFINE new == NextCommand(s)
               c == RollbackList(s.pc)[s.i]
    <2>1. /\ s.pc \in {"restore", "delete"} /\ s.i <= Len(RollbackList(s.pc))
          /\ Run(c, s.j.saved) \/ UNCHANGED kernel
          /\ Goto(t, new)
          /\ UNCHANGED <<journal, plan, stages, abandoned, bounds>>
      BY <1>4 DEF RollbackRuns
    <2>2. new \in TaskState /\ new.pc = s.pc /\ new.j = s.j
      BY <1>2, NextCommandIs
    <2>3. c \in Command
      BY <1>2, <2>1, RollbackCommands
    <2>4. s.j \in Journal /\ s.j.saved \in [Endpoint -> Link]
      BY <1>1, <1>3, <2>1, JournalHas
    <2> HIDE DEF s, new, c
    <2>5. KernelTypes
      BY <1>0, TypesAre
    <2>6. KernelTypes'
      BY <2>1, <2>3, <2>4, <2>5, RunEffect, KernelStays
    <2> QED  BY <1>0, <2>1, <2>2, <2>4, <2>6, MovesKeepTypes DEF bounds
  <1>5. CASE RollbackFails(t)
    <2> DEFINE new == IF s.tries + 1 < Attempts
                      THEN [s EXCEPT !.tries = s.tries + 1]
                      ELSE [NextCommand(s) EXCEPT !.failed = TRUE]
    <2>1. /\ s.pc \in {"restore", "delete"} /\ Goto(t, new)
          /\ UNCHANGED <<kernel, journal, plan, stages, abandoned, crashes>>
          /\ \/ UNCHANGED failures
             \/ failures < MaxFailures /\ failures' = failures + 1
      BY <1>5 DEF RollbackFails, Fails
    <2>2. new \in TaskState /\ new.pc = s.pc /\ new.j = s.j
      <3>1. CASE s.tries + 1 < Attempts
        BY <1>2, <3>1 DEF TaskState, Attempts
      <3>2. CASE ~(s.tries + 1 < Attempts)
        <4>1. NextCommand(s) \in TaskState /\ NextCommand(s).pc = s.pc /\ NextCommand(s).j = s.j
          BY <1>2, NextCommandIs
        <4> QED  BY <3>2, <4>1 DEF TaskState
      <3> QED  BY <3>1, <3>2
    <2>3. s.j \in Journal
      BY <1>1, <1>3, <2>1
    <2> HIDE DEF s, new
    <2>4. KernelTypes'
      BY <2>1, KernelStays
    <2>5. failures' \in 0 .. MaxFailures
      BY <1>0, <2>1, EndpointsAssumption
    <2> QED  BY <1>0, <2>1, <2>2, <2>3, <2>4, <2>5, MovesKeepTypes
  <1>6. CASE RollbackTurns(t)
    <2> DEFINE pc == IF s.pc = "restore" THEN "delete" ELSE "remove"
               new == [Idle EXCEPT !.pc = pc, !.j = s.j]
    <2>1. /\ s.pc \in {"restore", "delete"}
          /\ Goto(t, Idle) \/ Goto(t, new)
          /\ abandoned' = (abandoned \/ s.failed)
          /\ UNCHANGED <<kernel, journal, plan, stages, bounds>>
      BY <1>6 DEF RollbackTurns
    <2>2. s.j \in Journal
      BY <1>1, <1>3, <2>1
    <2>3. new \in TaskState /\ new.j = s.j
      <3>1. pc \in TaskPc /\ s.j \in Journal \cup {None}
        BY <2>2 DEF TaskPc
      <3> HIDE DEF pc, s
      <3> QED  BY <3>1, Starts, Zenon
    <2> HIDE DEF new, s
    <2>4. KernelTypes' /\ abandoned' \in BOOLEAN
      BY <2>1, KernelStays
    <2>5. CASE Goto(t, new)
      BY <1>0, <2>1, <2>2, <2>3, <2>4, <2>5, MovesKeepTypes DEF bounds
    <2>6. CASE Goto(t, Idle)
      BY <1>0, <2>1, <2>4, <2>6, IdleIs, MovesKeepTypes DEF bounds, AtWork
    <2> QED  BY <2>1, <2>5, <2>6
  <1>7. CASE RollbackEnds(t)
    <2>1. /\ journal' \in {journal, None} /\ Goto(t, Idle)
          /\ abandoned' \in {abandoned, TRUE}
          /\ UNCHANGED failures \/ Fails
          /\ UNCHANGED <<kernel, plan, stages, crashes>>
      BY <1>7 DEF RollbackEnds, WriteJournal
    <2>2. KernelTypes' /\ failures' \in 0 .. MaxFailures
      BY <2>1, KernelStays, FailureCounted
    <2>3. abandoned' \in BOOLEAN /\ journal' \in Journal \cup {None}
      BY <1>0, <2>1
    <2> QED  BY <1>0, <2>1, <2>2, <2>3, IdleIs, MovesKeepTypes DEF AtWork
  <1> QED  BY <1>4, <1>5, <1>6, <1>7 DEF Rollback

LEMMA LeaseKeepsTypes ==
  ASSUME TypeInv, NEW op \in Lease, LeaseExpires(op) PROVE TypeInv'
  <1> DEFINE new == [Idle EXCEPT !.pc = "restore", !.j = journal]
  <1>0. /\ TypeOK /\ op \in Task
        /\ journal \in Journal \cup {None} /\ plan \in [Endpoint -> Link] \cup {None}
        /\ stages \in 0 .. MaxStages /\ failures \in 0 .. MaxFailures
        /\ crashes \in 0 .. MaxCrashes /\ abandoned \in BOOLEAN
    BY LoopIsTask DEF TypeInv, TypeOK
  <1>1. /\ \/ journal # None /\ Goto(op, new)
           \/ Goto(op, Idle)
        /\ UNCHANGED failures \/ Fails
        /\ UNCHANGED <<kernel, journal, plan, stages, abandoned, crashes>>
    BY DEF LeaseExpires, Overdue, StartRollback
  <1>2. new \in TaskState /\ new.j = journal
    <2>1. "restore" \in TaskPc
      BY DEF TaskPc
    <2> QED  BY <1>0, <2>1, Starts, ZenonT(90)
  <1> HIDE DEF new
  <1>3. KernelTypes' /\ failures' \in 0 .. MaxFailures
    BY <1>1, KernelStays, FailureCounted
  <1>4. CASE journal # None /\ Goto(op, new)
    BY <1>0, <1>1, <1>2, <1>3, <1>4, MovesKeepTypes
  <1>5. CASE Goto(op, Idle)
    BY <1>0, <1>1, <1>3, <1>5, IdleIs, MovesKeepTypes DEF AtWork
  <1> QED  BY <1>1, <1>4, <1>5

LEMMA CrashKeepsTypes == ASSUME TypeInv, Crash PROVE TypeInv'
  <1> DEFINE down == [Idle EXCEPT !.pc = "down"]
  <1>1. down \in TaskState /\ down.pc = "down"
    BY IdleIs DEF TaskState, TaskPc
  <1> HIDE DEF down
  <1>2. /\ task' = [t \in Task |-> IF t = Loop THEN down ELSE Idle]
        /\ crashes < MaxCrashes /\ crashes' = crashes + 1
        /\ UNCHANGED <<kernel, journal, plan, stages, abandoned, failures>>
    BY DEF Crash, down
  <1>3. /\ task' \in [Task -> TaskState]
        /\ \A t \in Task : task'[t] = down \/ task'[t] = Idle
    BY <1>1, <1>2, IdleIs
  <1>4. KernelTypes' /\ crashes' \in 0 .. MaxCrashes
    BY <1>2, KernelStays, EndpointsAssumption DEF TypeInv, TypeOK
  <1>5. TypeOK'
    BY <1>2, <1>3, <1>4 DEF TypeInv, TypeOK, KernelTypes, TaskState
  <1>6. \A t \in Task : task'[t].pc \notin AtWork
    BY <1>1, <1>3, IdleIs DEF AtWork
  <1> QED  BY <1>5, <1>6 DEF TypeInv

(* Whatever fails, expires or crashes, the kernel, the journal and the tasks    *)
(* are what they should be (network.rs: the journal and its phases).            *)
THEOREM JournalTypes == Spec => []TypeOK
  <1>1. TypeInv /\ [Next]_vars => TypeInv'
    <2> SUFFICES ASSUME TypeInv, [Next]_vars PROVE TypeInv'
      OBVIOUS
    <2>1. ASSUME NEW e \in Endpoint, OperatorChanges(e) PROVE TypeInv'
      BY <2>1, OperatorKeepsTypes
    <2>2. CASE Plan \/ Stage \/ CommitReads \/ CommitWrites \/ Recover \/ Restart
      BY <2>2, LoopKeepsTypes
    <2>3. CASE Apply
      BY <2>3, ApplyKeepsTypes
    <2>4. ASSUME NEW op \in Lease, LeaseExpires(op) PROVE TypeInv'
      BY <2>4, LeaseKeepsTypes
    <2>5. ASSUME NEW t \in Task, Rollback(t) PROVE TypeInv'
      BY <2>5, RollbackKeepsTypes
    <2>6. CASE Crash
      BY <2>6, CrashKeepsTypes
    <2>7. CASE UNCHANGED vars
      BY <2>7 DEF vars, kernel, bounds, TypeInv, TypeOK, AtWork
    <2> QED  BY <2>1, <2>2, <2>3, <2>4, <2>5, <2>6, <2>7 DEF Next
  <1>2. TypeInv => TypeOK
    BY DEF TypeInv
  <1> QED  BY TypeInvInit, <1>1, <1>2, PTL DEF Spec

-----------------------------------------------------------------------------
(* Commands and the kernel                                                    *)

SaneAt(e) ==
  /\ where[e] # "gone"
  /\ where[e] = "netns" => e \in netns
  /\ where[e] = "host" => addrs[e] = {}
  /\ link[e].tso => link[e].tx
  /\ journal # None => /\ journal.saved[e].tso => journal.saved[e].tx
                       /\ link[e].tso => journal.saved[e].tso

LEMMA SaneIs == Sane <=> \A e \in Endpoint : SaneAt(e)
  BY DEF Sane, SaneAt

LEMMA ApplyingIs ==
  /\ Applying = {"arping", "netns_add", "to_netns", "lo_up", "mtu_up", "address_add"}
                  \cup (IF Ethtool THEN {"tso_off", "tx_off"} ELSE {})
  /\ Undoing = {"address_del", "to_host", "mtu", "link_state"}
                 \cup (IF Ethtool THEN {"tx", "tso"} ELSE {})
  BY DEF Applying, Undoing, Setting, Restoring

LEMMA RunLink ==
  ASSUME KernelTypes, NEW saved \in [Endpoint -> Link], NEW c \in Command,
         Run(c, saved)
  PROVE  /\ link'[c.e].up = CASE c.do \in {"to_netns", "to_host"} -> FALSE
                               [] c.do = "mtu_up" -> TRUE
                               [] c.do = "link_state" -> saved[c.e].up
                               [] OTHER -> link[c.e].up
         /\ link'[c.e].mtu = CASE c.do = "mtu_up" -> "test"
                                [] c.do = "mtu" -> saved[c.e].mtu
                                [] OTHER -> link[c.e].mtu
         /\ link'[c.e].tx = CASE c.do = "tx_off" -> FALSE
                               [] c.do = "tx" -> saved[c.e].tx
                               [] OTHER -> link[c.e].tx
         /\ link'[c.e].tso = CASE c.do \in {"tso_off", "tx_off"} -> FALSE
                                [] c.do = "tso" -> saved[c.e].tso
                                [] OTHER -> link[c.e].tso
  <1>1. link'[c.e] = LinkAfter(c, saved)
    BY RunEffect
  <1>2. PICK m : m = LinkAfter(c, saved)
    OBVIOUS
  <1>3. /\ m.up = CASE c.do \in {"to_netns", "to_host"} -> FALSE
                    [] c.do = "mtu_up" -> TRUE
                    [] c.do = "link_state" -> saved[c.e].up
                    [] OTHER -> link[c.e].up
        /\ m.mtu = CASE c.do = "mtu_up" -> "test"
                     [] c.do = "mtu" -> saved[c.e].mtu
                     [] OTHER -> link[c.e].mtu
        /\ m.tx = CASE c.do = "tx_off" -> FALSE
                    [] c.do = "tx" -> saved[c.e].tx
                    [] OTHER -> link[c.e].tx
        /\ m.tso = CASE c.do \in {"tso_off", "tx_off"} -> FALSE
                     [] c.do = "tso" -> saved[c.e].tso
                     [] OTHER -> link[c.e].tso
    BY <1>2, LinkAfterFields
  <1> QED  BY <1>1, <1>2, <1>3

LEMMA ApplyEffect ==
  ASSUME KernelTypes, Sane, journal # None, journal.saved \in [Endpoint -> Link],
         journal' = journal,
         NEW c \in Command, c.do \in Applying,
         c.do # "arping" => Possible(c), Run(c, journal.saved)
  PROVE  /\ Sane'
         /\ Done(c)'
         /\ \A e \in Endpoint : where[e] = "netns" => where'[e] = "netns"
         /\ \A e \in Endpoint : where'[e] = "host" => where[e] = "host" /\ link'[e] = link[e]
         /\ \A e \in Endpoint : SavedOffloads(e) => SavedOffloads(e)'
         /\ \A d \in Command :
              /\ Done(d)
              /\ d.do \in {"mtu_up", "address_add"} => where[d.e] = "netns"
              => Done(d)'
  <1> DEFINE e == c.e
             l == link[e]
             m == link'[e]
  <1>1. e \in Endpoint /\ own' = own
    BY RunEffect
  <1>2. \A f \in Endpoint : f # e =>
          /\ where'[f] = where[f] /\ link'[f] = link[f] /\ addrs'[f] = addrs[f]
          /\ f \in netns' <=> f \in netns
    BY RunEffect
  <1>3. /\ c.do \in {"arping", "netns_add", "to_netns", "lo_up", "mtu_up", "address_add",
                     "tso_off", "tx_off"}
        /\ ~Ethtool => c.do \notin {"tso_off", "tx_off"}
    BY ApplyingIs
  <1>4. where'[e] = CASE c.do = "to_netns" -> "netns"
                      [] c.do = "to_host" -> "host"
                      [] c.do = "netns_del" /\ where[e] = "netns" -> "gone"
                      [] OTHER -> where[e]
    BY RunEffect
  <1>5. /\ c.do = "to_netns" => where'[e] = "netns"
        /\ c.do # "to_netns" => where'[e] = where[e]
    BY <1>3, <1>4
  <1>6. e \in netns' <=> c.do = "netns_add" \/ e \in netns
    BY <1>3, RunEffect
  <1>7. addrs'[e] = AddressesAfter(c)
    BY RunEffect
  <1>8. /\ c.do = "address_add" => addrs'[e] = addrs[e] \cup {c.n}
        /\ c.do = "to_netns" => addrs'[e] = {}
        /\ c.do \notin {"address_add", "to_netns"} => addrs'[e] = addrs[e]
    BY <1>3, <1>7 DEF AddressesAfter
  <1>9. /\ m.up = CASE c.do \in {"to_netns", "to_host"} -> FALSE
                    [] c.do = "mtu_up" -> TRUE
                    [] c.do = "link_state" -> journal.saved[e].up
                    [] OTHER -> l.up
        /\ m.mtu = CASE c.do = "mtu_up" -> "test"
                     [] c.do = "mtu" -> journal.saved[e].mtu
                     [] OTHER -> l.mtu
        /\ m.tx = CASE c.do = "tx_off" -> FALSE
                    [] c.do = "tx" -> journal.saved[e].tx
                    [] OTHER -> l.tx
        /\ m.tso = CASE c.do \in {"tso_off", "tx_off"} -> FALSE
                     [] c.do = "tso" -> journal.saved[e].tso
                     [] OTHER -> l.tso
    BY RunLink
  <1>10. /\ c.do = "mtu_up" => m.up = TRUE /\ m.mtu = "test"
         /\ c.do \notin {"mtu_up", "to_netns"} => m.up = l.up /\ m.mtu = l.mtu
         /\ c.do \notin {"tso_off", "tx_off"} => m.tx = l.tx /\ m.tso = l.tso
         /\ c.do = "tso_off" => m.tx = l.tx /\ m.tso = FALSE
         /\ c.do = "tx_off" => m.tx = FALSE /\ m.tso = FALSE
    BY <1>3, <1>9
  <1>11. /\ c.do = "to_netns" => e \in netns /\ where[e] = "host"
         /\ c.do = "address_add" => where[e] = "netns"
    BY DEF Possible, InNetns
  <1>20. where'[e] = "host" => where[e] = "host" /\ m = l
    <2> SUFFICES ASSUME where'[e] = "host" PROVE where[e] = "host" /\ m = l
      OBVIOUS
    <2>1. where[e] = "host" /\ c.do # "to_netns"
      BY <1>5
    <2>2. c.do \notin {"mtu_up", "tso_off", "tx_off"}
      BY <2>1 DEF Possible, InNetns
    <2>3. m = LinkAfter(c, journal.saved)
      BY RunEffect
    <2> QED  BY <1>3, <2>1, <2>2, <2>3 DEF LinkAfter
  <1> HIDE DEF m, l, e
  <1>12. \A f \in Endpoint : SaneAt(f)
    BY SaneIs
  <1>13. SaneAt(e)'
    <2>1. where'[e] # "gone" /\ (where'[e] = "netns" => e \in netns')
      BY <1>1, <1>5, <1>6, <1>11, <1>12 DEF SaneAt
    <2>2. where'[e] = "host" => addrs'[e] = {}
      BY <1>1, <1>5, <1>8, <1>11, <1>12 DEF SaneAt
    <2>3. /\ m.tso => m.tx
          /\ m.tso => l.tso
      BY <1>1, <1>10, <1>12 DEF SaneAt, l
    <2> QED  BY <1>1, <1>12, <2>1, <2>2, <2>3 DEF SaneAt, m, l
  <1>14. \A f \in Endpoint : f # e => SaneAt(f)'
    BY <1>2, <1>12 DEF SaneAt
  <1>15. Sane'
    BY <1>13, <1>14 DEF Sane, SaneAt
  <1>16. Done(c)'
    BY <1>5, <1>6, <1>8, <1>10 DEF Done, m, e
  <1>17. \A f \in Endpoint : where[f] = "netns" => where'[f] = "netns"
    BY <1>2, <1>5
  <1>18. ASSUME NEW f \in Endpoint, SavedOffloads(f)
         PROVE  SavedOffloads(f)'
    BY <1>1, <1>2, <1>3, <1>10, <1>18 DEF SavedOffloads, m, l
  <1>19. ASSUME NEW d \in Command, Done(d),
                d.do \in {"mtu_up", "address_add"} => where[d.e] = "netns"
         PROVE  Done(d)'
    <2>1. d.e \in Endpoint
      BY DEF Command
    <2>2. CASE d.e # e
      BY <1>2, <1>19, <2>1, <2>2 DEF Done
    <2>3. CASE d.e = e
      <3>1. d.do \in {"mtu_up", "address_add"} => c.do # "to_netns"
        BY <1>11, <1>19, <2>3
      <3> QED  BY <1>5, <1>6, <1>8, <1>10, <1>19, <2>3, <3>1 DEF Done, m, l
    <2> QED  BY <2>2, <2>3
  <1>21. \A f \in Endpoint : where'[f] = "host" => where[f] = "host" /\ link'[f] = link[f]
    BY <1>2, <1>20 DEF m, l
  <1> QED  BY <1>15, <1>16, <1>17, <1>18, <1>19, <1>21

LEMMA UndoEffect ==
  ASSUME KernelTypes, Sane, journal # None, journal.saved \in [Endpoint -> Link],
         journal' = journal,
         NEW c \in Command, c.do \in Undoing,
         Possible(c), ~Refused(c, journal.saved), Run(c, journal.saved)
  PROVE  /\ Sane'
         /\ Undone(c)'
         /\ \A e \in Endpoint : where[e] = "host" => where'[e] = "host"
         /\ \A e \in Endpoint : SavedOffloads(e) => SavedOffloads(e)'
         /\ \A d \in Command :
              Undone(d) /\ (d.do = "link_state" => where[d.e] = "host") => Undone(d)'
  <1> DEFINE e == c.e
             l == link[e]
             m == link'[e]
             v == journal.saved[e]
  <1>1. e \in Endpoint /\ own' = own
    BY RunEffect
  <1>2. \A f \in Endpoint : f # e =>
          /\ where'[f] = where[f] /\ link'[f] = link[f] /\ addrs'[f] = addrs[f]
          /\ f \in netns' <=> f \in netns
    BY RunEffect
  <1>3. /\ c.do \in {"address_del", "to_host", "mtu", "link_state", "tx", "tso"}
        /\ ~Ethtool => c.do \notin {"tx", "tso"}
    BY ApplyingIs
  <1>4. where'[e] = CASE c.do = "to_netns" -> "netns"
                      [] c.do = "to_host" -> "host"
                      [] c.do = "netns_del" /\ where[e] = "netns" -> "gone"
                      [] OTHER -> where[e]
    BY RunEffect
  <1>5. /\ c.do = "to_host" => where'[e] = "host"
        /\ c.do # "to_host" => where'[e] = where[e]
    BY <1>3, <1>4
  <1>6. e \in netns' <=> e \in netns
    BY <1>3, RunEffect
  <1>7. addrs'[e] = AddressesAfter(c)
    BY RunEffect
  <1>8. /\ c.do = "to_host" => addrs'[e] = {}
        /\ c.do \notin {"address_del", "to_host"} => addrs'[e] = addrs[e]
    BY <1>3, <1>7 DEF AddressesAfter
  <1>9. /\ m.up = CASE c.do \in {"to_netns", "to_host"} -> FALSE
                    [] c.do = "mtu_up" -> TRUE
                    [] c.do = "link_state" -> v.up
                    [] OTHER -> l.up
        /\ m.mtu = CASE c.do = "mtu_up" -> "test"
                     [] c.do = "mtu" -> v.mtu
                     [] OTHER -> l.mtu
        /\ m.tx = CASE c.do = "tx_off" -> FALSE
                    [] c.do = "tx" -> v.tx
                    [] OTHER -> l.tx
        /\ m.tso = CASE c.do \in {"tso_off", "tx_off"} -> FALSE
                     [] c.do = "tso" -> v.tso
                     [] OTHER -> l.tso
    BY RunLink
  <1>10. /\ c.do = "link_state" => m.up = v.up
         /\ c.do \notin {"link_state", "to_host"} => m.up = l.up
         /\ c.do = "mtu" => m.mtu = v.mtu
         /\ c.do # "mtu" => m.mtu = l.mtu
         /\ c.do = "tx" => m.tx = v.tx
         /\ c.do # "tx" => m.tx = l.tx
         /\ c.do = "tso" => m.tso = v.tso
         /\ c.do # "tso" => m.tso = l.tso
    BY <1>3, <1>9
  <1>11. /\ c.do \in {"to_host", "address_del"} => where[e] = "netns"
         /\ c.do = "tso" => (v.tso => l.tx)
    BY DEF Possible, InNetns, Refused
  <1> HIDE DEF m, l, e, v
  <1>12. \A f \in Endpoint : SaneAt(f)
    BY SaneIs
  <1>13. SaneAt(e)'
    <2>1. where'[e] # "gone" /\ (where'[e] = "netns" => e \in netns')
      BY <1>1, <1>5, <1>6, <1>11, <1>12 DEF SaneAt
    <2>2. where'[e] = "host" => addrs'[e] = {}
      BY <1>1, <1>5, <1>8, <1>11, <1>12 DEF SaneAt
    <2>3. (l.tso => l.tx) /\ (v.tso => v.tx) /\ (l.tso => v.tso)
      BY <1>1, <1>12 DEF SaneAt, l, v
    <2>4. (m.tso => m.tx) /\ (m.tso => v.tso)
      BY <1>10, <1>11, <2>3
    <2> QED  BY <1>1, <2>1, <2>2, <2>3, <2>4 DEF SaneAt, m, v
  <1>14. \A f \in Endpoint : f # e => SaneAt(f)'
    BY <1>2, <1>12 DEF SaneAt
  <1>15. Sane'
    BY <1>13, <1>14 DEF Sane, SaneAt
  <1>16. Undone(c)'
    BY <1>3, <1>5, <1>10 DEF Undone, m, e, v
  <1>17. \A f \in Endpoint : where[f] = "host" => where'[f] = "host"
    BY <1>2, <1>5
  <1>18. ASSUME NEW f \in Endpoint, SavedOffloads(f)
         PROVE  SavedOffloads(f)'
    BY <1>1, <1>2, <1>3, <1>10, <1>18 DEF SavedOffloads, m, l
  <1>19. ASSUME NEW d \in Command, Undone(d), d.do = "link_state" => where[d.e] = "host"
         PROVE  Undone(d)'
    <2>1. d.e \in Endpoint
      BY DEF Command
    <2>2. CASE d.e # e
      BY <1>2, <1>19, <2>1, <2>2 DEF Undone
    <2>3. CASE d.e = e
      <3>1. d.do = "link_state" => c.do # "to_host"
        BY <1>11, <1>19, <2>3
      <3> QED  BY <1>5, <1>6, <1>10, <1>19, <2>3, <3>1 DEF Undone, m, l, v
    <2> QED  BY <2>2, <2>3
  <1> QED  BY <1>15, <1>16, <1>17, <1>18, <1>19

LEMMA DeleteEffect ==
  ASSUME KernelTypes, Sane, journal # None, journal.saved \in [Endpoint -> Link],
         journal' = journal, \A e \in Endpoint : where[e] = "host",
         NEW c \in Command, c.do = "netns_del", Run(c, journal.saved)
  PROVE  /\ Sane'
         /\ Undone(c)'
         /\ link' = link
         /\ \A e \in Endpoint : where'[e] = "host"
         /\ \A e \in Endpoint : SavedOffloads(e) => SavedOffloads(e)'
         /\ \A d \in Command : Undone(d) => Undone(d)'
  <1> DEFINE e == c.e
  <1>1. e \in Endpoint /\ own' = own
    BY RunEffect
  <1>2. \A f \in Endpoint : f # e =>
          /\ where'[f] = where[f] /\ link'[f] = link[f] /\ addrs'[f] = addrs[f]
          /\ f \in netns' <=> f \in netns
    BY RunEffect
  <1>3. where'[e] = where[e] /\ e \notin netns'
    BY <1>1, RunEffect
  <1>4. addrs'[e] = addrs[e]
    <2>1. addrs'[e] = AddressesAfter(c)
      BY RunEffect
    <2> QED  BY <2>1 DEF AddressesAfter
  <1>5. link'[e] = link[e]
    <2>1. link'[e] = LinkAfter(c, journal.saved)
      BY RunEffect
    <2> QED  BY <2>1 DEF LinkAfter
  <1> HIDE DEF e
  <1>6. link' = link
    <2>1. link \in [Endpoint -> Link] /\ link' \in [Endpoint -> Link]
      BY RunEffect DEF KernelTypes
    <2> QED  BY <1>2, <1>5, <2>1
  <1>7. \A f \in Endpoint : where'[f] = "host" /\ addrs'[f] = addrs[f]
    BY <1>1, <1>2, <1>3, <1>4
  <1>8. Sane'
    BY <1>6, <1>7 DEF Sane
  <1>9. Undone(c)'
    BY <1>3 DEF Undone, e
  <1>10. \A f \in Endpoint : f \in netns' => f \in netns
    BY <1>2, <1>3
  <1>11. ASSUME NEW d \in Command, Undone(d) PROVE Undone(d)'
    <2>1. d.e \in Endpoint
      BY DEF Command
    <2> QED  BY <1>6, <1>7, <1>10, <1>11, <2>1 DEF Undone
  <1> QED  BY <1>1, <1>6, <1>7, <1>8, <1>9, <1>11 DEF SavedOffloads

-----------------------------------------------------------------------------
(* The invariant                                                              *)

LEMMA LoopMoves ==
  ASSUME TypeInv, OthersWait, NEW new \in TaskState, Goto(Loop, new)
  PROVE  task'[Loop] = new /\ OthersWait'
  <1>1. Loop \in Task /\ Lease \subseteq Task /\ Loop \notin Lease /\ TypeOK
    BY LoopIsTask DEF TypeInv
  <1>2. task'[Loop] = new /\ \A u \in Task : u # Loop => task'[u] = task[u]
    BY <1>1, MovesOn
  <1>3. \A t \in Lease : task'[t] = task[t]
    BY <1>1, <1>2
  <1> QED  BY <1>2, <1>3 DEF OthersWait

LEMMA KeptSane ==
  ASSUME Sane, UNCHANGED kernel,
         journal' = None \/ (journal # None /\ journal'.saved = journal.saved)
  PROVE  Sane'
  <1>1. where' = where /\ netns' = netns /\ addrs' = addrs /\ link' = link
    BY DEF kernel
  <1>2. SUFFICES ASSUME NEW e \in Endpoint PROVE SaneAt(e)'
    BY DEF Sane, SaneAt
  <1>3. SaneAt(e)
    BY SaneIs
  <1> QED  BY <1>1, <1>3 DEF SaneAt

LEMMA KeptCovered ==
  ASSUME Covered, UNCHANGED kernel,
         journal' # None, journal # None, journal'.saved = journal.saved
  PROVE  Covered'
  BY DEF Covered, JournalCoversChanges, SavedOffloads, kernel

LEMMA SameCovered ==
  ASSUME Covered, UNCHANGED kernel, journal' = journal
  PROVE  Covered'
  BY DEF Covered, JournalCoversChanges, SavedOffloads, Untouched, kernel

LEMMA KeptUnmoved ==
  ASSUME Unmoved, UNCHANGED <<kernel, crashes>>, failures' < Attempts => failures < Attempts,
         journal # None => journal'.saved = journal.saved,
         journal' # None => journal # None,
         task[Loop].pc \in {"idle", "commit", "apply"}
  PROVE  Unmoved'
  BY DEF Unmoved, kernel

LEMMA OperatorKeeps ==
  ASSUME IInv, NEW e \in Endpoint, OperatorChanges(e)
  PROVE  IInv'
  <1>0. /\ TypeInv /\ OthersWait /\ HasJournal /\ Sane /\ GivesUpForCause
        /\ Recoverable => Covered
    BY DEF IInv
  <1>1. TypeInv'
    BY <1>0, OperatorKeepsTypes
  <1>2. /\ journal = None /\ journal' = None /\ task' = task /\ stages' = stages
        /\ failures' = failures /\ crashes' = crashes
        /\ netns' = netns /\ where' = where /\ addrs' = addrs
        /\ own' = [own EXCEPT ![e].mtu = "other"]
        /\ link' = [link EXCEPT ![e].mtu = "other"]
    BY DEF OperatorChanges, bounds
  <1>3. /\ own \in [Endpoint -> Link] /\ link \in [Endpoint -> Link]
    BY <1>0 DEF TypeInv, TypeOK, Working
  <1>4. OthersWait' /\ GivesUpForCause'
    BY <1>0, <1>2 DEF OthersWait, GivesUpForCause
  <1>5. HasJournal' /\ task[Loop].pc \notin AtWork
    BY <1>0, <1>2 DEF HasJournal
  <1>6. \A f \in Endpoint : link'[f].tso = link[f].tso /\ link'[f].tx = link[f].tx
    BY <1>2, <1>3 DEF Link
  <1>7. Sane'
    <2> SUFFICES ASSUME NEW f \in Endpoint PROVE SaneAt(f)'
      BY DEF Sane, SaneAt
    <2>1. SaneAt(f)
      BY <1>0, SaneIs
    <2> QED  BY <1>2, <1>6, <2>1 DEF SaneAt
  <1>8. Progress' /\ Standing' /\ Unmoved'
    BY <1>2, <1>5 DEF Progress, Standing, Unmoved, AtWork
  <1>9. ASSUME Recoverable' PROVE Covered'
    <2>1. \A f \in Endpoint : Untouched(f)
      BY <1>0, <1>2, <1>9 DEF Recoverable, Covered, JournalCoversChanges
    <2>2. link[e] = own[e]
      BY <2>1 DEF Untouched
    <2>3. \A f \in Endpoint : link'[f] = own'[f]
      BY <1>2, <1>3, <2>1, <2>2 DEF Untouched
    <2> QED  BY <1>2, <2>1, <2>3 DEF Covered, JournalCoversChanges, Untouched
  <1> QED  BY <1>1, <1>4, <1>5, <1>7, <1>8, <1>9 DEF IInv

LEMMA PlanKeeps == ASSUME IInv, Plan PROVE IInv'
  <1>1. TypeInv'
    BY LoopKeepsTypes DEF IInv
  <1>2. UNCHANGED <<kernel, journal, task, stages, abandoned, bounds>>
    BY DEF Plan
  <1>3. OthersWait' /\ HasJournal' /\ GivesUpForCause'
    BY <1>2 DEF IInv, OthersWait, HasJournal, GivesUpForCause, bounds
  <1>4. Sane'
    BY <1>2 DEF IInv, Sane, kernel
  <1>5. Progress'
    BY <1>2, SMTT(90) DEF IInv, Progress, Done, Undone, kernel
  <1>6. Standing' /\ Unmoved'
    BY <1>2 DEF IInv, Standing, Unmoved, InPlace, InNetns, kernel, bounds
  <1>7. Recoverable' => Covered'
    BY <1>2, SameCovered DEF IInv, Recoverable, bounds
  <1> QED  BY <1>1, <1>3, <1>4, <1>5, <1>6, <1>7 DEF IInv

LEMMA StageKeeps == ASSUME IInv, Stage PROVE IInv'
  <1>0. /\ TypeInv /\ OthersWait /\ HasJournal /\ Sane /\ Unmoved
        /\ Recoverable => Covered
        /\ stages \in 0 .. MaxStages
    BY DEF IInv, TypeInv, TypeOK
  <1>1. TypeInv'
    BY <1>0, LoopKeepsTypes
  <1> DEFINE j == [op |-> stages + 1, phase |-> "applying", saved |-> plan]
             new == [Idle EXCEPT !.pc = "apply", !.j = j]
  <1>2. /\ Goto(Loop, new) /\ journal' = j /\ stages' = stages + 1 /\ stages < MaxStages
        /\ plan # None /\ task[Loop].pc = "idle"
        /\ \A e \in Endpoint : where[e] = "host" /\ addrs[e] = {} /\ link[e] = plan[e]
        /\ UNCHANGED <<kernel, plan, bounds>>
    BY DEF Stage, WriteJournal
  <1>3. stages + 1 \in 1 .. MaxStages
    BY <1>0, <1>2, EndpointsAssumption
  <1>4. /\ j \in Journal /\ j.saved = plan /\ j.op = stages + 1 /\ j.phase = "applying"
        /\ plan \in [Endpoint -> Link]
    BY <1>0, <1>2, <1>3 DEF Journal, Phase, TypeInv, TypeOK
  <1> HIDE DEF j
  <1>5. /\ new \in TaskState /\ new.pc = "apply" /\ new.j = j /\ new.i = 1
        /\ new.tries = 0 /\ ~new.failed
    <2>1. "apply" \in TaskPc /\ j \in Journal \cup {None}
      BY <1>4 DEF TaskPc
    <2> QED  BY <2>1, Starts, ZenonT(90)
  <1> HIDE DEF new
  <1>6. task'[Loop] = new /\ OthersWait'
    BY <1>0, <1>2, <1>5, LoopMoves
  <1>7. journal' # None
    <2>1. journal' \in Journal \cup {None} /\ TypeOK'
      BY <1>1 DEF TypeInv, TypeOK
    <2>2. task'[Loop].j \in Journal
      BY <1>1, <1>5, <1>6, LoopIsTask DEF TypeInv, AtWork
    <2> QED  BY <1>2, <1>5, <1>6, <2>2, NoneAssumption
  <1>8. HasJournal'
    BY <1>0, <1>2, <1>3, <1>4, <1>5, <1>6, <1>7 DEF HasJournal, AtWork
  <1>9. Sane'
    <2> SUFFICES ASSUME NEW e \in Endpoint PROVE SaneAt(e)'
      BY DEF Sane, SaneAt
    <2>1. SaneAt(e)
      BY <1>0, SaneIs
    <2>2. journal'.saved[e] = link[e]
      BY <1>2, <1>4
    <2> QED  BY <1>2, <2>1, <2>2 DEF SaneAt, kernel
  <1>10. Progress'
    <2>1. \A k \in 1 .. Len(Commands) : ~(k < 1)
      OBVIOUS
    <2> QED  BY <1>5, <1>6, <2>1 DEF Progress
  <1>11. GivesUpForCause' /\ Standing' /\ Unmoved'
    <2>1. GivesUpForCause' /\ Standing'
      BY <1>1, <1>5, <1>6 DEF GivesUpForCause, Standing, TypeInv, TypeOK
    <2>2. Unmoved'
      BY <1>2, <1>4 DEF Unmoved, kernel
    <2> QED  BY <2>1, <2>2
  <1>12. ASSUME Recoverable' PROVE Covered'
    <2>1. Recoverable
      BY <1>0, <1>2, <1>12 DEF Recoverable, bounds
    <2>2. \A e \in Endpoint : link[e] = own[e]
      <3>1. CASE journal = None
        BY <1>0, <2>1, <3>1 DEF Covered, JournalCoversChanges, Untouched
      <3>2. CASE journal # None
        <4>1. stages > 0
          BY <1>0, <3>2 DEF HasJournal
        <4>2. failures < Attempts /\ crashes = 0
          BY <1>0, <1>2, <1>12, <4>1 DEF Recoverable, bounds
        <4>3. \A e \in Endpoint : link[e] = journal.saved[e]
          BY <1>0, <1>2, <3>2, <4>2 DEF Unmoved
        <4> QED  BY <1>0, <2>1, <3>2, <4>3 DEF Covered
      <3> QED  BY <3>1, <3>2
    <2>3. \A e \in Endpoint : journal'.saved[e] = own'[e] /\ SavedOffloads(e)'
      BY <1>2, <1>4, <2>2 DEF SavedOffloads, kernel
    <2> QED  BY <1>7, <2>3 DEF Covered, JournalCoversChanges
  <1> QED  BY <1>1, <1>6, <1>8, <1>9, <1>10, <1>11, <1>12 DEF IInv

(* What a command of the list does not undo of the ones before it.             *)
LEMMA ApplyNextKeeps == ASSUME IInv, ApplyNext PROVE IInv'
  <1> DEFINE s == task[Loop]
             new == [s EXCEPT !.i = s.i + 1]
  <1>0. /\ TypeInv /\ TypeOK /\ OthersWait /\ HasJournal /\ Sane /\ Progress
        /\ GivesUpForCause /\ Unmoved /\ Loop \in Task
        /\ Recoverable => Covered
    BY LoopIsTask DEF IInv, TypeInv
  <1>1. TypeInv'
    BY <1>0, ApplyKeepsTypes DEF Apply
  <1> PICK c : c = Commands[s.i]
    OBVIOUS
  <1>2. /\ s.pc = "apply" /\ s.i <= Len(Commands)
        /\ c.do # "arping" => Possible(c)
        /\ Run(c, s.j.saved) /\ journal' = s.j /\ Goto(Loop, new)
        /\ UNCHANGED <<plan, stages, abandoned, bounds>>
    BY DEF ApplyNext, WriteJournal
  <1>3. journal # None /\ s.j = journal /\ journal' = journal /\ journal \in Journal
    BY <1>0, <1>2 DEF HasJournal, AtWork, TypeInv, TypeOK
  <1>4. /\ s \in TaskState /\ s.i \in Nat \ {0}
        /\ new \in TaskState /\ new.pc = "apply" /\ new.j = s.j /\ new.i = s.i + 1
        /\ new.tries = s.tries /\ new.failed = s.failed
    BY <1>0, <1>2, JournalOf DEF TaskState
  <1>5. /\ s.i \in 1 .. Len(Commands) /\ c \in Command /\ c.do \in Applying
    BY <1>2, <1>4, ApplyCommands
  <1>6. KernelTypes /\ journal.saved \in [Endpoint -> Link]
    BY <1>0, <1>3, TypesAre, JournalHas
  <1>7. Run(c, journal.saved)
    BY <1>2, <1>3
  <1> HIDE DEF new
  <1>8. /\ Sane' /\ Done(c)'
        /\ \A e \in Endpoint : where'[e] = "host" => where[e] = "host" /\ link'[e] = link[e]
        /\ \A e \in Endpoint : SavedOffloads(e) => SavedOffloads(e)'
        /\ \A d \in Command :
             /\ Done(d)
             /\ d.do \in {"mtu_up", "address_add"} => where[d.e] = "netns"
             => Done(d)'
    BY <1>0, <1>2, <1>3, <1>5, <1>6, <1>7, ApplyEffect
  <1>9. task'[Loop] = new /\ OthersWait'
    BY <1>0, <1>2, <1>4, LoopMoves
  <1>10. HasJournal' /\ GivesUpForCause' /\ Standing'
    BY <1>0, <1>2, <1>3, <1>4, <1>9
    DEF HasJournal, GivesUpForCause, Standing, AtWork, bounds
  <1>11. Progress'
    <2>1. ASSUME NEW k \in 1 .. Len(Commands), k < s.i + 1
          PROVE  Done(Commands[k])'
      <3>1. CASE k = s.i
        BY <1>8, <3>1
      <3>2. CASE k # s.i
        <4>1. k < s.i
          BY <1>4, <2>1, <3>2
        <4>2. Done(Commands[k])
          BY <1>0, <1>2, <4>1 DEF Progress
        <4>3. Commands[k] \in Command
          BY CommandsLists DEF Lists
        <4>4. Commands[k].do \in {"mtu_up", "address_add"} => where[Commands[k].e] = "netns"
          <5> SUFFICES ASSUME Commands[k].do \in {"mtu_up", "address_add"}
                       PROVE  where[Commands[k].e] = "netns"
            OBVIOUS
          <5>1. PICK h \in 1 .. Len(Commands) :
                  h < k /\ Commands[h].do = "to_netns" /\ Commands[h].e = Commands[k].e
            BY CommandsLists DEF After
          <5>2. h < s.i
            BY <1>4, <4>1, <5>1
          <5> QED  BY <1>0, <1>2, <5>1, <5>2 DEF Progress, Done
        <4> QED  BY <1>8, <4>2, <4>3, <4>4
      <3> QED  BY <3>1, <3>2
    <2> HIDE DEF s
    <2> QED  BY <1>4, <1>9, <2>1 DEF Progress
  <1>12. ASSUME Recoverable' PROVE Covered'
    <2>1. own' = own
      BY <1>7 DEF Run
    <2>2. Covered
      BY <1>0, <1>2, <1>12 DEF Recoverable, bounds
    <2> QED  BY <1>3, <1>8, <2>1, <2>2 DEF Covered, JournalCoversChanges
  <1>13. Unmoved'
    BY <1>0, <1>2, <1>3, <1>8 DEF Unmoved, bounds
  <1> QED  BY <1>1, <1>8, <1>9, <1>10, <1>11, <1>12, <1>13 DEF IInv

(* A command was run or not, and the Stage stops where it is.                  *)
LEMMA ApplyStopsKeeps == ASSUME IInv, ApplyStops PROVE IInv'
  <1> DEFINE s == task[Loop]
  <1>0. /\ TypeInv /\ TypeOK /\ OthersWait /\ HasJournal /\ Sane
        /\ Unmoved /\ Loop \in Task
        /\ Recoverable => Covered
        /\ failures \in 0 .. MaxFailures
    BY LoopIsTask DEF IInv, TypeInv, TypeOK
  <1>1. TypeInv'
    BY <1>0, ApplyKeepsTypes DEF Apply
  <1>2. /\ s.pc = "apply" /\ Goto(Loop, Idle)
        /\ UNCHANGED <<journal, plan, stages, abandoned, crashes>>
        /\ failures' \in {failures + 1, failures + 2}
        /\ \/ UNCHANGED kernel
           \/ /\ s.i <= Len(Commands)
              /\ Commands[s.i].do # "arping" => Possible(Commands[s.i])
              /\ Run(Commands[s.i], s.j.saved)
    BY DEF ApplyStops, Fails
  <1>3. /\ journal # None /\ s.j = journal /\ journal' = journal /\ journal \in Journal
        /\ journal.phase = "applying"
    BY <1>0, <1>2 DEF HasJournal, AtWork, TypeOK
  <1>4. failures' < Attempts => failures < Attempts
    BY <1>0, <1>2, EndpointsAssumption DEF Attempts
  <1>5. task'[Loop] = Idle /\ OthersWait'
    BY <1>0, <1>2, IdleIs, LoopMoves
  <1>6. HasJournal' /\ GivesUpForCause' /\ Standing' /\ Progress'
    <2>1. HasJournal' /\ Standing' /\ Progress'
      BY <1>0, <1>2, <1>3, <1>5, IdleIs DEF HasJournal, Standing, Progress, AtWork
    <2>2. GivesUpForCause'
      BY <1>0, <1>2, <1>5, IdleIs, EndpointsAssumption DEF GivesUpForCause
    <2> QED  BY <2>1, <2>2
  <1>7. /\ Sane' /\ own' = own
        /\ \A e \in Endpoint : where'[e] = "host" => where[e] = "host" /\ link'[e] = link[e]
        /\ \A e \in Endpoint : SavedOffloads(e) => SavedOffloads(e)'
    <2>1. CASE UNCHANGED kernel
      <3>1. Sane'
        BY <1>0, <1>3, <2>1, KeptSane
      <3> QED  BY <2>1, <3>1 DEF SavedOffloads, kernel
    <2>2. CASE ~UNCHANGED kernel
      <3> PICK c : c = Commands[s.i]
        OBVIOUS
      <3>1. /\ s.i <= Len(Commands)
            /\ c.do # "arping" => Possible(c)
            /\ Run(c, journal.saved)
        BY <1>2, <1>3, <2>2
      <3>2. s.i \in Nat \ {0}
        BY <1>0, JournalOf
      <3>3. c \in Command /\ c.do \in Applying
        BY <3>1, <3>2, ApplyCommands
      <3>4. KernelTypes /\ journal.saved \in [Endpoint -> Link]
        BY <1>0, <1>3, TypesAre, JournalHas
      <3>5. own' = own
        BY <3>1 DEF Run
      <3> QED  BY <1>0, <1>3, <3>1, <3>3, <3>4, <3>5, ApplyEffect
    <2> QED  BY <2>1, <2>2
  <1>8. Unmoved'
    BY <1>0, <1>2, <1>3, <1>4, <1>7 DEF Unmoved
  <1>9. ASSUME Recoverable' PROVE Covered'
    <2>1. Covered
      BY <1>0, <1>2, <1>4, <1>9 DEF Recoverable
    <2> QED  BY <1>3, <1>7, <2>1 DEF Covered, JournalCoversChanges
  <1> QED  BY <1>1, <1>5, <1>6, <1>7, <1>8, <1>9 DEF IInv

LEMMA ApplyFailsKeeps == ASSUME IInv, ApplyFails PROVE IInv'
  <1> DEFINE s == task[Loop]
             stop == [s.j EXCEPT !.phase = "rolling_back"]
             new == [Idle EXCEPT !.pc = "restore", !.j = stop]
  <1>0. /\ TypeInv /\ TypeOK /\ OthersWait /\ HasJournal /\ Sane /\ Loop \in Task
        /\ Recoverable => Covered
        /\ failures \in 0 .. MaxFailures
    BY LoopIsTask DEF IInv, TypeInv, TypeOK
  <1>1. TypeInv'
    BY <1>0, ApplyKeepsTypes DEF Apply
  <1>2. /\ s.pc = "apply" /\ journal' = stop /\ Goto(Loop, new)
        /\ UNCHANGED <<kernel, plan, stages, abandoned, crashes>>
        /\ failures' = failures \/ failures' = failures + 1
    BY DEF ApplyFails, WriteJournal, StartRollback, Fails
  <1>3. journal # None /\ s.j = journal /\ journal \in Journal
    BY <1>0, <1>2 DEF HasJournal, AtWork, TypeInv, TypeOK
  <1>4. stop \in Journal /\ stop.saved = journal.saved
    <2>1. "rolling_back" \in Phase /\ stop = [journal EXCEPT !.phase = "rolling_back"]
      BY <1>3 DEF Phase
    <2> QED  BY <1>3, <2>1, PhaseOf
  <1> HIDE DEF stop
  <1>5. /\ new \in TaskState /\ new.pc = "restore" /\ new.j = stop /\ new.i = 1
        /\ new.tries = 0 /\ ~new.failed
    <2>1. "restore" \in TaskPc /\ stop \in Journal \cup {None}
      BY <1>4 DEF TaskPc
    <2> QED  BY <2>1, Starts, ZenonT(90)
  <1> HIDE DEF new
  <1>6. task'[Loop] = new /\ OthersWait'
    BY <1>0, <1>2, <1>5, LoopMoves
  <1>7. journal' # None /\ failures' \in Nat
    BY <1>0, <1>2, <1>4, NoneAssumption, EndpointsAssumption
  <1>8. HasJournal' /\ GivesUpForCause' /\ Standing' /\ Unmoved'
    BY <1>0, <1>2, <1>3, <1>5, <1>6, <1>7
    DEF HasJournal, GivesUpForCause, Standing, Unmoved, AtWork
  <1>9. Progress'
    <2>1. \A k \in 1 .. Len(Restores) : ~(k < 1)
      OBVIOUS
    <2> QED  BY <1>5, <1>6, <2>1 DEF Progress
  <1>10. Sane'
    BY <1>0, <1>2, <1>3, <1>4, KeptSane
  <1>11. ASSUME Recoverable' PROVE Covered'
    <2>1. Recoverable
      BY <1>0, <1>2, <1>11, EndpointsAssumption DEF Recoverable, Attempts
    <2> QED  BY <1>0, <1>2, <1>3, <1>4, <1>7, <2>1, KeptCovered
  <1> QED  BY <1>1, <1>6, <1>8, <1>9, <1>10, <1>11 DEF IInv

LEMMA ApplyDoneKeeps == ASSUME IInv, ApplyDone PROVE IInv'
  <1> DEFINE s == task[Loop]
             done == [s.j EXCEPT !.phase = "staged"]
             new == [Idle EXCEPT !.pc = "armed", !.j = done]
  <1>0. /\ TypeInv /\ TypeOK /\ OthersWait /\ HasJournal /\ Sane /\ Progress /\ Unmoved
        /\ Loop \in Task /\ Lease \subseteq Task /\ Loop \notin Lease
        /\ Recoverable => Covered
        /\ task \in [Task -> TaskState] /\ addrs \in [Endpoint -> SUBSET (1 .. Count)]
        /\ failures \in 0 .. MaxFailures
    BY LoopIsTask, TypesAre DEF IInv, TypeInv, TypeOK
  <1>1. TypeInv'
    BY <1>0, ApplyKeepsTypes DEF Apply
  <1>2. /\ s.pc = "apply" /\ s.i = Len(Commands) + 1 /\ journal' = done
        /\ task' = [task EXCEPT ![Loop] = Idle, ![done.op] = new]
        /\ UNCHANGED <<kernel, plan, stages, bounds>>
    BY DEF ApplyDone, WriteJournal
  <1>3. journal # None /\ s.j = journal /\ journal \in Journal
    BY <1>0, <1>2 DEF HasJournal, AtWork, TypeInv, TypeOK
  <1>4. /\ done \in Journal /\ done.saved = journal.saved /\ done.op \in Lease
        /\ done.phase = "staged"
    <2>1. done \in Journal /\ done.op = journal.op /\ done.saved = journal.saved
          /\ done.phase = "staged"
      <3>1. "staged" \in Phase /\ done = [journal EXCEPT !.phase = "staged"]
        BY <1>3 DEF Phase
      <3> QED  BY <1>3, <3>1, PhaseOf
    <2> QED  BY <2>1, JournalHas DEF Lease
  <1> HIDE DEF done
  <1>5. new.pc = "armed" /\ ~new.failed
    <2>1. "armed" \in TaskPc /\ done \in Journal \cup {None}
      BY <1>4 DEF TaskPc
    <2> QED  BY <2>1, Starts, Zenon
  <1> HIDE DEF new
  <1>6. task'[Loop] = Idle /\ \A t \in Lease : task'[t] = new \/ task'[t] = task[t]
    <2>1. Loop # done.op
      BY <1>0, <1>4
    <2> HIDE DEF s
    <2> QED  BY <1>0, <1>2, <1>4, <2>1
  <1>7. OthersWait'
    BY <1>0, <1>5, <1>6 DEF OthersWait
  <1>8. journal' # None
    BY <1>2, <1>4, NoneAssumption
  <1>9. HasJournal' /\ GivesUpForCause' /\ Progress'
    BY <1>0, <1>2, <1>3, <1>6, <1>8, IdleIs, EndpointsAssumption
    DEF HasJournal, GivesUpForCause, Progress, AtWork, bounds
  <1>10. \A e \in Endpoint : InPlace(e)
    <2>1. \A k \in 1 .. Len(Commands) : Done(Commands[k])
      <3>1. Len(Commands) \in Nat
        BY CommandsLists DEF Lists
      <3> QED  BY <1>0, <1>2, <3>1 DEF Progress
    <2> SUFFICES ASSUME NEW e \in Endpoint PROVE InPlace(e)
      OBVIOUS
    <2>2. where[e] = "netns"
      BY <2>1, CommandsLists DEF Has, Done
    <2>3. link[e].up /\ link[e].mtu = "test"
      BY <2>1, CommandsLists DEF Has, Done
    <2>4. e \in netns
      BY <1>0, <2>2 DEF Sane
    <2>5. \A n \in 1 .. Count : n \in addrs[e]
      <3> SUFFICES ASSUME NEW n \in 1 .. Count PROVE n \in addrs[e]
        OBVIOUS
      <3>1. PICK k \in 1 .. Len(Commands) :
              Commands[k] = [do |-> "address_add", e |-> e, n |-> n]
        BY CommandsLists DEF AddsAll
      <3>2. Done([do |-> "address_add", e |-> e, n |-> n])
        BY <2>1, <3>1
      <3> QED  BY <3>2 DEF Done
    <2>6. addrs[e] = 1 .. Count
      BY <1>0, <2>5
    <2> QED  BY <2>2, <2>3, <2>4, <2>6 DEF InPlace, InNetns
  <1>11. Standing'
    BY <1>2, <1>10 DEF Standing, InPlace, InNetns, kernel
  <1>14. Unmoved'
    BY <1>0, <1>2, <1>3, <1>4, KeptUnmoved DEF bounds
  <1>12. Sane'
    BY <1>0, <1>2, <1>3, <1>4, KeptSane
  <1>13. ASSUME Recoverable' PROVE Covered'
    BY <1>0, <1>2, <1>3, <1>4, <1>8, <1>13, KeptCovered DEF Recoverable, bounds
  <1> QED  BY <1>1, <1>7, <1>9, <1>11, <1>12, <1>13, <1>14 DEF IInv

LEMMA CommitKeeps == ASSUME IInv, CommitReads \/ CommitWrites PROVE IInv'
  <1> DEFINE s == task[Loop]
  <1>0. /\ TypeInv /\ TypeOK /\ OthersWait /\ HasJournal /\ Sane /\ Standing
        /\ Unmoved /\ Loop \in Task
        /\ Recoverable => Covered
        /\ failures \in 0 .. MaxFailures
    BY LoopIsTask DEF IInv, TypeInv, TypeOK
  <1>1. TypeInv'
    BY <1>0, LoopKeepsTypes
  <1>2. CASE CommitReads
    <2> DEFINE new == [Idle EXCEPT !.pc = "commit", !.j = journal]
    <2>1. /\ s.pc = "idle" /\ journal # None /\ journal.phase = "staged"
          /\ Goto(Loop, new) /\ journal' = journal
          /\ UNCHANGED <<kernel, plan, stages, abandoned, bounds>>
      BY <1>2 DEF CommitReads
    <2>2. journal \in Journal
      BY <1>0, <2>1 DEF TypeOK
    <2>3. /\ new \in TaskState /\ new.pc = "commit" /\ new.j = journal
          /\ new.tries = 0 /\ ~new.failed
      <3>1. "commit" \in TaskPc /\ journal \in Journal \cup {None}
        BY <2>2 DEF TaskPc
      <3> QED  BY <3>1, Starts, ZenonT(90)
    <2> HIDE DEF new
    <2>4. task'[Loop] = new /\ OthersWait'
      BY <1>0, <2>1, <2>3, LoopMoves
    <2>5. HasJournal' /\ GivesUpForCause' /\ Progress'
      BY <1>0, <2>1, <2>3, <2>4, EndpointsAssumption
      DEF HasJournal, GivesUpForCause, Progress, AtWork, bounds
    <2>6. Standing' /\ Unmoved'
      <3>1. Standing'
        BY <1>0, <2>1, <2>3, <2>4 DEF Standing, InPlace, InNetns, kernel, bounds
      <3>2. Unmoved'
        BY <1>0, <2>1, KeptUnmoved DEF bounds
      <3> QED  BY <3>1, <3>2
    <2>7. Sane'
      BY <1>0, <2>1, KeptSane
    <2>8. ASSUME Recoverable' PROVE Covered'
      <3>1. Covered
        BY <1>0, <2>1, <2>8 DEF Recoverable, bounds
      <3> QED  BY <2>1, <3>1, SameCovered
    <2> QED  BY <1>1, <2>4, <2>5, <2>6, <2>7, <2>8 DEF IInv
  <1>3. CASE CommitWrites
    <2> DEFINE j == [s.j EXCEPT !.phase = "prepared"]
    <2>1. /\ s.pc = "commit" /\ Goto(Loop, Idle)
          /\ \/ journal' = j /\ failures' = failures
             \/ journal' = journal /\ failures' = failures + 1
          /\ UNCHANGED <<kernel, plan, stages, abandoned, crashes>>
      BY <1>3 DEF CommitWrites, WriteJournal, Fails
    <2>2. journal # None /\ s.j = journal /\ journal \in Journal /\ journal.phase = "staged"
      BY <1>0, <2>1 DEF HasJournal, TypeOK, AtWork
    <2>3. j \in Journal /\ j.saved = journal.saved /\ j.phase = "prepared"
      <3>1. "prepared" \in Phase /\ j = [journal EXCEPT !.phase = "prepared"]
        BY <2>2 DEF Phase
      <3> QED  BY <2>2, <3>1, PhaseOf
    <2> HIDE DEF j
    <2>4. task'[Loop] = Idle /\ OthersWait'
      BY <1>0, <2>1, IdleIs, LoopMoves
    <2>5. journal' # None /\ journal'.saved = journal.saved
      BY <2>1, <2>2, <2>3, NoneAssumption
    <2>10. failures' >= 0 /\ (failures' < Attempts => failures < Attempts)
      BY <1>0, <2>1, EndpointsAssumption DEF Attempts
    <2>6. HasJournal' /\ GivesUpForCause' /\ Progress'
      BY <1>0, <2>1, <2>2, <2>4, <2>5, <2>10, IdleIs
      DEF HasJournal, GivesUpForCause, Progress, AtWork
    <2>7. Standing' /\ Unmoved'
      <3>1. ASSUME journal' = j PROVE Standing'
        BY <2>3, <3>1 DEF Standing
      <3>2. ASSUME journal' = journal PROVE Standing'
        BY <1>0, <2>1, <2>2, <3>2 DEF Standing, InPlace, InNetns, kernel
      <3>3. Unmoved'
        BY <1>0, <2>1, <2>2, <2>5, <2>10, KeptUnmoved
      <3> QED  BY <2>1, <3>1, <3>2, <3>3
    <2>8. Sane'
      BY <1>0, <2>1, <2>2, <2>5, KeptSane
    <2>9. ASSUME Recoverable' PROVE Covered'
      <3>1. Covered
        BY <1>0, <2>1, <2>9, <2>10 DEF Recoverable
      <3> QED  BY <2>1, <2>2, <2>5, <3>1, KeptCovered
    <2> QED  BY <1>1, <2>4, <2>6, <2>7, <2>8, <2>9 DEF IInv
  <1> QED  BY <1>2, <1>3

LEMMA RecoverKeeps == ASSUME IInv, Recover \/ Restart PROVE IInv'
  <1> DEFINE s == task[Loop]
             new == [Idle EXCEPT !.pc = "restore", !.j = journal]
  <1>0. /\ TypeInv /\ TypeOK /\ OthersWait /\ HasJournal /\ Sane
        /\ Loop \in Task
        /\ Recoverable => Covered
        /\ failures \in 0 .. MaxFailures
    BY LoopIsTask DEF IInv, TypeInv, TypeOK
  <1>1. TypeInv'
    BY <1>0, LoopKeepsTypes
  <1>2. /\ \/ /\ journal # None /\ Goto(Loop, new)
              /\ UNCHANGED <<abandoned, failures>>
           \/ /\ s.pc = "down" /\ Goto(Loop, Idle)
              /\ journal = None \/ journal.phase = "prepared"
              /\ UNCHANGED <<abandoned, failures>>
           \/ /\ s.pc = "down" /\ Goto(Loop, Idle)
              /\ abandoned' /\ failures' = failures + 1
        /\ journal' = journal
        /\ UNCHANGED <<kernel, plan, stages, crashes>>
    BY DEF Recover, Restart, StartRollback, Fails, bounds
  <1>8. failures' >= 0 /\ (failures' < Attempts => failures < Attempts)
    BY <1>0, <1>2, EndpointsAssumption DEF Attempts
  <1>3. journal # None =>
          /\ new \in TaskState /\ new.pc = "restore" /\ new.j = journal /\ new.i = 1
          /\ new.tries = 0 /\ ~new.failed
    <2>1. "restore" \in TaskPc /\ journal \in Journal \cup {None}
      BY <1>0 DEF TaskPc, TypeOK
    <2> QED  BY <2>1, Starts, ZenonT(90)
  <1> HIDE DEF new
  <1>4. Sane'
    BY <1>0, <1>2, KeptSane
  <1>5. ASSUME Recoverable' PROVE Covered'
    <2>1. Covered
      BY <1>0, <1>2, <1>5, <1>8 DEF Recoverable
    <2> QED  BY <1>2, <2>1, SameCovered
  <1>6. CASE journal # None /\ Goto(Loop, new)
    <2>1. task'[Loop] = new /\ OthersWait'
      BY <1>0, <1>3, <1>6, LoopMoves
    <2>2. HasJournal' /\ GivesUpForCause' /\ Standing' /\ Unmoved'
      BY <1>0, <1>2, <1>3, <1>6, <1>8, <2>1
      DEF HasJournal, GivesUpForCause, Standing, Unmoved, AtWork
    <2>3. Progress'
      <3>1. \A k \in 1 .. Len(Restores) : ~(k < 1)
        OBVIOUS
      <3> QED  BY <1>3, <1>6, <2>1, <3>1 DEF Progress
    <2> QED  BY <1>1, <1>4, <1>5, <2>1, <2>2, <2>3 DEF IInv
  <1>7. CASE /\ s.pc = "down" /\ Goto(Loop, Idle)
             /\ journal = None \/ journal.phase = "prepared" \/ abandoned'
    <2>1. task'[Loop] = Idle /\ OthersWait'
      BY <1>0, <1>7, IdleIs, LoopMoves
    <2>2. HasJournal' /\ GivesUpForCause' /\ Progress'
      BY <1>0, <1>2, <1>8, <2>1, IdleIs
      DEF HasJournal, GivesUpForCause, Progress, AtWork
    <2>3. crashes > 0 /\ crashes' = crashes /\ crashes # 0
      BY <1>0, <1>2, <1>7, EndpointsAssumption DEF HasJournal, TypeOK
    <2>4. Standing' /\ Unmoved'
      BY <1>2, <1>7, <2>3 DEF Standing, Unmoved
    <2> QED  BY <1>1, <1>4, <1>5, <2>1, <2>2, <2>4 DEF IInv
  <1> QED  BY <1>2, <1>6, <1>7

LEMMA CrashKeeps == ASSUME IInv, Crash PROVE IInv'
  <1> DEFINE down == [Idle EXCEPT !.pc = "down"]
  <1>0. /\ TypeInv /\ TypeOK /\ OthersWait /\ HasJournal /\ Sane
        /\ Loop \in Task /\ Lease \subseteq Task /\ Loop \notin Lease
        /\ Recoverable => Covered
        /\ failures \in 0 .. MaxFailures /\ crashes \in 0 .. MaxCrashes
    BY LoopIsTask DEF IInv, TypeInv, TypeOK
  <1>1. TypeInv'
    BY <1>0, CrashKeepsTypes
  <1>2. down.pc = "down" /\ down.tries = 0 /\ ~down.failed
    BY IdleIs DEF TaskState
  <1> HIDE DEF down
  <1>3. /\ task' = [t \in Task |-> IF t = Loop THEN down ELSE Idle]
        /\ crashes' = crashes + 1 /\ journal' = journal /\ failures' = failures
        /\ stages' = stages
        /\ UNCHANGED kernel
    BY DEF Crash, down
  <1>4. task'[Loop] = down /\ \A t \in Lease : task'[t] = Idle
    BY <1>0, <1>3
  <1>5. crashes' > 0 /\ failures' >= 0
    BY <1>0, <1>3, EndpointsAssumption
  <1>6. /\ OthersWait' /\ HasJournal' /\ GivesUpForCause' /\ Progress' /\ Standing'
        /\ Unmoved'
    BY <1>0, <1>2, <1>3, <1>4, <1>5, IdleIs
    DEF OthersWait, HasJournal, GivesUpForCause, Progress, Standing, Unmoved, AtWork
  <1>7. Sane'
    BY <1>0, <1>3, KeptSane
  <1>8. Recoverable' => Covered'
    BY <1>0, <1>3, <1>5, EndpointsAssumption, SameCovered DEF Recoverable
  <1> QED  BY <1>1, <1>6, <1>7, <1>8 DEF IInv

(* A lease that wakes to nothing that is overdue only ends its task.           *)
LEMMA LeaseKeeps ==
  ASSUME ~Expiry, IInv, NEW op \in Lease, LeaseExpires(op)
  PROVE  IInv'
  <1>0. /\ TypeInv /\ TypeOK /\ OthersWait /\ HasJournal /\ Sane /\ Progress
        /\ GivesUpForCause /\ Standing /\ Unmoved
        /\ Recoverable => Covered
        /\ failures \in 0 .. MaxFailures /\ op \in Task
    BY DEF IInv, TypeInv, TypeOK, Task
  <1>1. TypeInv'
    BY <1>0, LeaseKeepsTypes
  <1>2. /\ Goto(op, Idle)
        /\ failures' = failures \/ failures' = failures + 1
        /\ journal' = journal
        /\ UNCHANGED <<kernel, plan, stages, abandoned, crashes>>
    BY DEF LeaseExpires, Fails
  <1>3. failures' >= failures /\ (failures' < Attempts => failures < Attempts)
    BY <1>0, <1>2, EndpointsAssumption DEF Attempts
  <1>4. task'[Loop] = task[Loop] /\ OthersWait'
    <2>1. task' = [task EXCEPT ![op] = Idle] /\ op # Loop
      BY <1>2 DEF Goto, Lease, Loop
    <2>2. \A t \in Task : task'[t] = IF t = op THEN Idle ELSE task[t]
      BY <1>0, <2>1 DEF TypeOK
    <2> QED  BY <1>0, <2>1, <2>2, IdleIs, LoopIsTask DEF OthersWait, Task
  <1>5. HasJournal' /\ GivesUpForCause'
    <2>1. task[Loop].tries \in 0 .. Attempts - 1
      BY <1>0, LoopIsTask DEF TypeOK
    <2> QED  BY <1>0, <1>2, <1>3, <1>4, <2>1, EndpointsAssumption
             DEF HasJournal, GivesUpForCause, Attempts
  <1>6. Sane'
    BY <1>0, <1>2, KeptSane
  <1>7. Progress'
    BY <1>0, <1>2, <1>4, SMTT(90) DEF Progress, Done, Undone, kernel
  <1>8. Standing' /\ Unmoved'
    BY <1>0, <1>2, <1>3, <1>4 DEF Standing, Unmoved, InPlace, InNetns, kernel
  <1>9. ASSUME Recoverable' PROVE Covered'
    <2>1. Covered
      BY <1>0, <1>2, <1>3, <1>9 DEF Recoverable
    <2> QED  BY <1>2, <2>1, SameCovered
  <1> QED  BY <1>1, <1>4, <1>5, <1>6, <1>7, <1>8, <1>9 DEF IInv

LEMMA StutterKeeps == ASSUME IInv, UNCHANGED vars PROVE IInv'
  <1>1. UNCHANGED <<kernel, journal, plan, task, stages, abandoned, bounds>>
    BY DEF vars
  <1>2. TypeInv'
    BY <1>1 DEF IInv, TypeInv, TypeOK, kernel, bounds, AtWork
  <1>3. OthersWait' /\ HasJournal' /\ GivesUpForCause'
    BY <1>1 DEF IInv, OthersWait, HasJournal, GivesUpForCause, bounds
  <1>4. Sane'
    BY <1>1 DEF IInv, Sane, kernel
  <1>5. Progress'
    BY <1>1, SMTT(90) DEF IInv, Progress, Done, Undone, kernel
  <1>6. Standing' /\ Unmoved'
    BY <1>1 DEF IInv, Standing, Unmoved, InPlace, InNetns, kernel, bounds
  <1>7. Recoverable' => Covered'
    BY <1>1, SameCovered DEF IInv, Recoverable, bounds
  <1> QED  BY <1>2, <1>3, <1>4, <1>5, <1>6, <1>7 DEF IInv

LEMMA Begins == Init => IInv
  <1> SUFFICES ASSUME Init PROVE IInv
    OBVIOUS
  <1>1. TypeInv
    BY TypeInvInit
  <1>2. \A t \in Task : task[t].pc = "idle" /\ ~task[t].failed /\ task[t].tries = 0
    BY IdleIs DEF Init
  <1>3. /\ OthersWait /\ HasJournal /\ GivesUpForCause /\ Progress /\ Standing
        /\ Unmoved
    BY <1>2, LoopIsTask
    DEF Init, OthersWait, HasJournal, GivesUpForCause, Progress, Standing, Unmoved, AtWork
  <1>4. \A e \in Endpoint : link[e] = own[e] /\ (own[e].tso => own[e].tx)
    BY DEF Init, Working
  <1>5. Sane
    BY <1>4 DEF Init, Sane
  <1>6. Covered
    BY <1>4 DEF Init, Covered, JournalCoversChanges, Untouched
  <1> QED  BY <1>1, <1>3, <1>5, <1>6 DEF IInv

(* What a rollback has done when it comes to a command.                        *)
LEMMA RestoredSoFar ==
  ASSUME Progress, task[Loop].pc = "restore", ~task[Loop].failed,
         task[Loop].i \in Nat,
         NEW k \in 1 .. Len(Restores), k <= task[Loop].i,
         Restores[k].do \in {"tx", "tso", "mtu", "link_state"}
  PROVE  /\ where[Restores[k].e] = "host"
         /\ Restores[k].do = "tso" =>
              link[Restores[k].e].tx = journal.saved[Restores[k].e].tx
  <1>1. \A h \in 1 .. Len(Restores) : h < k => Undone(Restores[h])
    BY DEF Progress
  <1>2. PICK h \in 1 .. Len(Restores) :
          h < k /\ Restores[h].do = "to_host" /\ Restores[h].e = Restores[k].e
    BY RestoresLists DEF After
  <1>3. where[Restores[k].e] = "host"
    BY <1>1, <1>2 DEF Undone
  <1>4. ASSUME Restores[k].do = "tso"
        PROVE  link[Restores[k].e].tx = journal.saved[Restores[k].e].tx
    <2>1. PICK g \in 1 .. Len(Restores) :
            g < k /\ Restores[g].do = "tx" /\ Restores[g].e = Restores[k].e
      BY <1>4, RestoresLists DEF After
    <2> QED  BY <1>1, <2>1 DEF Undone
  <1> QED  BY <1>3, <1>4

LEMMA RestoredIsBack ==
  ASSUME Progress, task[Loop].pc \in {"delete", "remove"}, NEW e \in Endpoint
  PROVE  where[e] = "host"
  BY RestoresLists DEF Progress, Has, Undone

LEMMA RestoreRunsKeeps ==
  ASSUME IInv, RollbackRuns(Loop), task[Loop].pc = "restore"
  PROVE  IInv'
  <1> DEFINE s == task[Loop]
             new == NextCommand(s)
  <1>0. /\ TypeInv /\ TypeOK /\ OthersWait /\ HasJournal /\ Sane /\ Progress
        /\ GivesUpForCause /\ Loop \in Task
        /\ failures \in 0 .. MaxFailures
    BY LoopIsTask DEF IInv, TypeInv, TypeOK
  <1>1. Rollback(Loop)
    BY DEF Rollback
  <1>2. TypeInv'
    BY <1>0, <1>1, RollbackKeepsTypes
  <1> PICK c : c = Restores[s.i]
    OBVIOUS
  <1>3. /\ s.pc = "restore" /\ s.i <= Len(Restores)
        /\ ~Refused(c, s.j.saved)
        /\ c.do \in {"tx", "tso"} => Possible(c)
        /\ IF Possible(c) THEN Run(c, s.j.saved) ELSE UNCHANGED kernel
        /\ Goto(Loop, new)
        /\ UNCHANGED <<journal, plan, stages, bounds>>
    BY DEF RollbackRuns, RollbackList
  <1>4. journal # None /\ s.j = journal /\ journal' = journal /\ journal \in Journal
    BY <1>0, <1>3 DEF HasJournal, AtWork, TypeOK
  <1>5. /\ s \in TaskState /\ s.i \in Nat \ {0}
        /\ new \in TaskState /\ new.pc = s.pc /\ new.j = s.j /\ new.i = s.i + 1
        /\ new.tries = 0 /\ new.failed = s.failed
    BY <1>0, JournalOf, NextCommandIs
  <1>6. s.i \in 1 .. Len(Restores) /\ c \in Command /\ c.do \in Undoing
    BY <1>3, <1>5, RestoresLists DEF Lists
  <1>7. KernelTypes /\ journal.saved \in [Endpoint -> Link]
    BY <1>0, <1>4, TypesAre, JournalHas
  <1> HIDE DEF new
  <1>8. task'[Loop] = new /\ OthersWait'
    BY <1>0, <1>3, <1>5, LoopMoves
  <1>9. HasJournal' /\ GivesUpForCause' /\ Standing' /\ Unmoved'
    BY <1>0, <1>3, <1>4, <1>5, <1>8, EndpointsAssumption
    DEF HasJournal, GivesUpForCause, Standing, Unmoved, AtWork, bounds
  <1>10. /\ Sane'
         /\ ~s.failed => Undone(c)'
         /\ \A e \in Endpoint : SavedOffloads(e) => SavedOffloads(e)'
         /\ own' = own
         /\ \A d \in Command :
              Undone(d) /\ (d.do = "link_state" => where[d.e] = "host") => Undone(d)'
    <2>1. CASE Possible(c)
      <3>1. Run(c, journal.saved) /\ ~Refused(c, journal.saved)
        BY <1>3, <1>4, <2>1
      <3>2. own' = own
        BY <3>1 DEF Run
      <3> QED  BY <1>0, <1>4, <1>6, <1>7, <2>1, <3>1, <3>2, UndoEffect
    <2>2. CASE ~Possible(c)
      <3>1. UNCHANGED kernel /\ c.do \notin {"tx", "tso"}
        BY <1>3, <2>2
      <3>2. Sane'
        BY <1>0, <1>4, <3>1, KeptSane
      <3>3. ASSUME ~s.failed PROVE Undone(c)
        <4>1. c.do \in {"address_del", "to_host", "mtu", "link_state"}
          BY <1>6, <3>1, ApplyingIs
        <4>2. CASE c.do = "to_host"
          <5>1. c.e \in Endpoint
            BY <1>6 DEF Command
          <5>2. where[c.e] # "netns"
            BY <1>0, <2>2, <4>2, <5>1 DEF Possible, InNetns, Sane
          <5> QED  BY <1>0, <4>2, <5>1, <5>2 DEF Undone, Sane, TypeOK
        <4>3. CASE c.do \in {"mtu", "link_state"}
          <5>1. where[c.e] = "host"
            <6>1. s.i <= s.i /\ s.i \in Nat
              BY <1>5
            <6>2. Restores[s.i].do \in {"tx", "tso", "mtu", "link_state"}
              BY <4>3
            <6> QED  BY <1>0, <1>3, <1>6, <3>3, <6>1, <6>2, RestoredSoFar
          <5> QED  BY <2>2, <4>3, <5>1 DEF Possible
        <4> QED  BY <4>1, <4>2, <4>3 DEF Undone
      <3>4. \A d : Undone(d) => Undone(d)'
        BY <1>4, <3>1 DEF Undone, kernel
      <3>5. own' = own /\ \A e \in Endpoint : SavedOffloads(e) => SavedOffloads(e)'
        BY <3>1 DEF SavedOffloads, kernel
      <3> QED  BY <3>2, <3>3, <3>4, <3>5
    <2> QED  BY <2>1, <2>2
  <1>11. Progress'
    <2>1. ASSUME ~s.failed, NEW k \in 1 .. Len(Restores), k < s.i + 1
          PROVE  Undone(Restores[k])'
      <3>1. CASE k = s.i
        BY <1>10, <2>1, <3>1
      <3>2. CASE k # s.i
        <4>1. k < s.i /\ k <= s.i /\ s.i \in Nat
          BY <1>5, <2>1, <3>2
        <4>2. Undone(Restores[k]) /\ Restores[k] \in Command
          BY <1>0, <1>3, <2>1, <4>1, RestoresLists DEF Progress, Lists
        <4>3. Restores[k].do = "link_state" => where[Restores[k].e] = "host"
          BY <1>0, <1>3, <2>1, <4>1, RestoredSoFar
        <4> QED  BY <1>10, <4>2, <4>3
      <3> QED  BY <3>1, <3>2
    <2> HIDE DEF s
    <2> QED  BY <1>3, <1>5, <1>8, <2>1 DEF Progress
  <1>12. ASSUME Recoverable' PROVE Covered'
    <2>1. Covered
      BY <1>3, <1>12 DEF IInv, Recoverable, bounds
    <2> QED  BY <1>4, <1>10, <2>1 DEF Covered, JournalCoversChanges
  <1> QED  BY <1>2, <1>8, <1>9, <1>10, <1>11, <1>12 DEF IInv

LEMMA DeleteRunsKeeps ==
  ASSUME IInv, RollbackRuns(Loop), task[Loop].pc = "delete"
  PROVE  IInv'
  <1> DEFINE s == task[Loop]
             new == NextCommand(s)
  <1>0. /\ TypeInv /\ TypeOK /\ OthersWait /\ HasJournal /\ Sane /\ Progress
        /\ GivesUpForCause /\ Loop \in Task
        /\ failures \in 0 .. MaxFailures
    BY LoopIsTask DEF IInv, TypeInv, TypeOK
  <1>1. Rollback(Loop)
    BY DEF Rollback
  <1>2. TypeInv'
    BY <1>0, <1>1, RollbackKeepsTypes
  <1> PICK c : c = Deletes[s.i]
    OBVIOUS
  <1>3. /\ s.pc = "delete" /\ s.i <= Len(Deletes)
        /\ IF Possible(c) THEN Run(c, s.j.saved) ELSE UNCHANGED kernel
        /\ Goto(Loop, new)
        /\ UNCHANGED <<journal, plan, stages, bounds>>
    BY DEF RollbackRuns, RollbackList
  <1>4. journal # None /\ s.j = journal /\ journal' = journal /\ journal \in Journal
    BY <1>0, <1>3 DEF HasJournal, AtWork, TypeOK
  <1>5. /\ s \in TaskState /\ s.i \in Nat \ {0}
        /\ new \in TaskState /\ new.pc = s.pc /\ new.j = s.j /\ new.i = s.i + 1
        /\ new.tries = 0 /\ new.failed = s.failed
    BY <1>0, JournalOf, NextCommandIs
  <1>6. s.i \in 1 .. Len(Deletes) /\ c \in Command /\ c.do = "netns_del"
    BY <1>3, <1>5, DeletesLists DEF Lists
  <1>7. KernelTypes /\ journal.saved \in [Endpoint -> Link]
    BY <1>0, <1>4, TypesAre, JournalHas
  <1> HIDE DEF new
  <1>8. task'[Loop] = new /\ OthersWait'
    BY <1>0, <1>3, <1>5, LoopMoves
  <1>9. HasJournal' /\ GivesUpForCause' /\ Standing' /\ Unmoved'
    BY <1>0, <1>3, <1>4, <1>5, <1>8, EndpointsAssumption
    DEF HasJournal, GivesUpForCause, Standing, Unmoved, AtWork, bounds
  <1>10. /\ Sane' /\ Undone(c)' /\ own' = own
         /\ \A e \in Endpoint : SavedOffloads(e) => SavedOffloads(e)'
         /\ \A d \in Command : Undone(d) => Undone(d)'
    <2>1. \A e \in Endpoint : where[e] = "host"
      BY <1>0, <1>3, RestoredIsBack
    <2>2. CASE Possible(c)
      <3>1. Run(c, journal.saved)
        BY <1>3, <1>4, <2>2
      <3>2. own' = own
        BY <3>1 DEF Run
      <3> QED  BY <1>0, <1>4, <1>6, <1>7, <2>1, <3>1, <3>2, DeleteEffect
    <2>3. CASE ~Possible(c)
      <3>1. UNCHANGED kernel
        BY <1>3, <2>3
      <3>2. Sane'
        BY <1>0, <1>4, <3>1, KeptSane
      <3>3. Undone(c)
        BY <1>6, <2>3 DEF Possible, Undone
      <3>4. \A d : Undone(d) => Undone(d)'
        BY <1>4, <3>1 DEF Undone, kernel
      <3>5. own' = own /\ \A e \in Endpoint : SavedOffloads(e) => SavedOffloads(e)'
        BY <3>1 DEF SavedOffloads, kernel
      <3> QED  BY <3>2, <3>3, <3>4, <3>5
    <2> QED  BY <2>2, <2>3
  <1>11. Progress'
    <2>1. ASSUME ~s.failed, NEW k \in 1 .. Len(Deletes), k < s.i + 1
          PROVE  Undone(Deletes[k])'
      <3>1. CASE k = s.i
        BY <1>10, <3>1
      <3>2. CASE k # s.i
        <4>1. k < s.i
          BY <1>5, <2>1, <3>2
        <4>2. Undone(Deletes[k]) /\ Deletes[k] \in Command
          BY <1>0, <1>3, <2>1, <4>1, DeletesLists DEF Progress, Lists
        <4> QED  BY <1>10, <4>2
      <3> QED  BY <3>1, <3>2
    <2>2. ASSUME NEW k \in 1 .. Len(Restores) PROVE Undone(Restores[k])'
      <3>1. Undone(Restores[k]) /\ Restores[k] \in Command
        BY <1>0, <1>3, RestoresLists DEF Progress, Lists
      <3> QED  BY <1>10, <3>1
    <2> HIDE DEF s
    <2> QED  BY <1>3, <1>5, <1>8, <2>1, <2>2 DEF Progress
  <1>12. ASSUME Recoverable' PROVE Covered'
    <2>1. Covered
      BY <1>3, <1>12 DEF IInv, Recoverable, bounds
    <2> QED  BY <1>4, <1>10, <2>1 DEF Covered, JournalCoversChanges
  <1> QED  BY <1>2, <1>8, <1>9, <1>10, <1>11, <1>12 DEF IInv

(* A rollback's command fails only when something else made it fail.           *)
LEMMA RollbackFailsKeeps ==
  ASSUME IInv, RollbackFails(Loop)
  PROVE  IInv'
  <1> DEFINE s == task[Loop]
             new == IF s.tries + 1 < Attempts
                    THEN [s EXCEPT !.tries = s.tries + 1]
                    ELSE [NextCommand(s) EXCEPT !.failed = TRUE]
  <1>0. /\ TypeInv /\ TypeOK /\ OthersWait /\ HasJournal /\ Sane /\ Progress
        /\ GivesUpForCause /\ Loop \in Task
        /\ failures \in 0 .. MaxFailures
    BY LoopIsTask DEF IInv, TypeInv, TypeOK
  <1>1. Rollback(Loop)
    BY DEF Rollback
  <1>2. TypeInv'
    BY <1>0, <1>1, RollbackKeepsTypes
  <1> PICK c : c = RollbackList(s.pc)[s.i]
    OBVIOUS
  <1>3. /\ s.pc \in {"restore", "delete"} /\ s.i <= Len(RollbackList(s.pc))
        /\ \/ Refused(c, s.j.saved) /\ UNCHANGED failures
           \/ c.do \in {"tx", "tso"} /\ ~Possible(c) /\ UNCHANGED failures
           \/ Possible(c) /\ failures' = failures + 1
        /\ Goto(Loop, new)
        /\ UNCHANGED <<kernel, journal, plan, stages, crashes>>
    BY DEF RollbackFails, Fails
  <1>4. journal # None /\ s.j = journal /\ journal' = journal /\ journal \in Journal
    BY <1>0, <1>3 DEF HasJournal, AtWork, TypeOK
  <1>5. /\ s \in TaskState /\ s.i \in Nat \ {0} /\ s.tries \in 0 .. 2
        /\ s.failed \in BOOLEAN
    BY <1>0, JournalOf
  <1>6. /\ new \in TaskState /\ new.pc = s.pc /\ new.j = s.j
        /\ \/ /\ s.tries + 1 < 3 /\ new.tries = s.tries + 1
              /\ new.i = s.i /\ new.failed = s.failed
           \/ s.tries = 2 /\ new.tries = 0 /\ new.failed
    <2>1. CASE s.tries + 1 < Attempts
      BY <1>5, <2>1 DEF TaskState, Attempts
    <2>2. CASE ~(s.tries + 1 < Attempts)
      <3>1. /\ NextCommand(s) \in TaskState /\ NextCommand(s).pc = s.pc
            /\ NextCommand(s).j = s.j /\ NextCommand(s).tries = 0
        BY <1>5, NextCommandIs
      <3>2. s.tries = 2
        BY <1>5, <2>2 DEF Attempts
      <3> QED  BY <2>2, <3>1, <3>2 DEF TaskState
    <2> QED  BY <2>1, <2>2
  <1>7. c \in Command
    BY <1>3, <1>5, RollbackCommands
  <1>8. s.failed \/ failures' = failures + 1
    <2> SUFFICES ASSUME ~s.failed
                 PROVE  ~Refused(c, s.j.saved) /\ ~(c.do \in {"tx", "tso"} /\ ~Possible(c))
      BY <1>3
    <2>1. CASE s.pc = "delete"
      <3>1. c.do = "netns_del"
        <4>1. s.i \in 1 .. Len(Deletes) /\ c = Deletes[s.i]
          BY <1>3, <1>5, <2>1, DeletesLists DEF RollbackList, Lists
        <4> QED  BY <4>1, DeletesLists DEF Lists
      <3> QED  BY <3>1 DEF Refused
    <2>2. CASE s.pc = "restore"
      <3>1. s.i \in 1 .. Len(Restores) /\ c = Restores[s.i]
        BY <1>3, <1>5, <2>2, RestoresLists DEF RollbackList, Lists
      <3>2. c.do \in {"tx", "tso"} =>
              /\ where[c.e] = "host"
              /\ c.do = "tso" => link[c.e].tx = journal.saved[c.e].tx
        <4>1. s.i <= s.i /\ s.i \in Nat
          BY <1>5
        <4> QED  BY <1>0, <2>2, <3>1, <4>1, RestoredSoFar
      <3>3. c.do = "tso" => ~Refused(c, s.j.saved)
        <4>1. c.e \in Endpoint
          BY <1>7 DEF Command
        <4>2. journal.saved[c.e].tso => journal.saved[c.e].tx
          BY <1>0, <1>4, <4>1 DEF Sane
        <4> QED  BY <1>4, <3>2, <4>2 DEF Refused
      <3>4. c.do \in {"tx", "tso"} => Possible(c)
        BY <3>2 DEF Possible
      <3> QED  BY <3>3, <3>4 DEF Refused
    <2> QED  BY <1>3, <2>1, <2>2
  <1> HIDE DEF new
  <1>9. task'[Loop] = new /\ OthersWait'
    BY <1>0, <1>3, <1>6, LoopMoves
  <1>10. GivesUpForCause'
    <2>1. /\ failures \in Nat
          /\ failures' = failures \/ failures' = failures + 1
          /\ s.failed => failures >= 3
          /\ s.tries <= failures
      BY <1>0, <1>3, EndpointsAssumption DEF GivesUpForCause, Attempts
    <2>2. ASSUME new.failed PROVE failures' >= 3
      <3>1. CASE s.failed
        BY <2>1, <3>1
      <3>2. CASE ~s.failed
        <4>1. s.tries = 2
          BY <1>6, <2>2, <3>2
        <4> QED  BY <1>8, <2>1, <3>2, <4>1
      <3> QED  BY <3>1, <3>2
    <2>3. new.tries <= failures'
      BY <1>5, <1>6, <1>8, <2>1
    <2> QED  BY <1>9, <2>2, <2>3 DEF GivesUpForCause, Attempts
  <1>11. HasJournal' /\ Standing' /\ Unmoved'
    BY <1>0, <1>3, <1>4, <1>6, <1>9 DEF HasJournal, Standing, Unmoved, AtWork
  <1>12. Sane'
    BY <1>0, <1>3, <1>4, KeptSane
  <1>13. Progress'
    <2>1. \A d : Undone(d) => Undone(d)'
      BY <1>3, <1>4 DEF Undone, kernel
    <2>2. ASSUME ~new.failed
          PROVE  new.i = s.i /\ ~s.failed
      BY <1>6, <2>2
    <2>3. new.pc = s.pc
      BY <1>6
    <2> HIDE DEF s
    <2>4. /\ new.pc = "restore" /\ ~new.failed =>
               \A k \in 1 .. Len(Restores) : k < new.i => Undone(Restores[k])'
          /\ new.pc = "delete" => \A k \in 1 .. Len(Restores) : Undone(Restores[k])'
          /\ new.pc = "delete" /\ ~new.failed =>
               \A k \in 1 .. Len(Deletes) : k < new.i => Undone(Deletes[k])'
      BY <1>0, <1>3, <2>1, <2>2, <2>3 DEF Progress, s
    <2> QED  BY <1>3, <1>9, <2>3, <2>4 DEF Progress
  <1>14. ASSUME Recoverable' PROVE Covered'
    <2>1. Covered
      BY <1>0, <1>3, <1>14, EndpointsAssumption DEF IInv, Recoverable, Attempts
    <2> QED  BY <1>3, <1>4, <2>1, SameCovered
  <1> QED  BY <1>2, <1>9, <1>10, <1>11, <1>12, <1>13, <1>14 DEF IInv

LEMMA RollbackTurnsKeeps ==
  ASSUME IInv, RollbackTurns(Loop)
  PROVE  IInv'
  <1> DEFINE s == task[Loop]
             pc == IF s.pc = "restore" THEN "delete" ELSE "remove"
             new == [Idle EXCEPT !.pc = pc, !.j = s.j]
  <1>0. /\ TypeInv /\ TypeOK /\ OthersWait /\ HasJournal /\ Sane /\ Progress
        /\ GivesUpForCause /\ Loop \in Task
        /\ failures \in 0 .. MaxFailures
    BY LoopIsTask DEF IInv, TypeInv, TypeOK
  <1>1. Rollback(Loop)
    BY DEF Rollback
  <1>2. TypeInv'
    BY <1>0, <1>1, RollbackKeepsTypes
  <1>3. /\ s.pc \in {"restore", "delete"} /\ s.i = Len(RollbackList(s.pc)) + 1
        /\ Goto(Loop, IF s.failed THEN Idle ELSE new)
        /\ s.failed => abandoned'
        /\ UNCHANGED <<kernel, journal, plan, stages, bounds>>
    BY DEF RollbackTurns
  <1>4. journal # None /\ s.j = journal /\ journal' = journal /\ journal \in Journal
    BY <1>0, <1>3 DEF HasJournal, AtWork, TypeOK
  <1>5. pc \in {"delete", "remove"} /\ pc \in TaskPc
    BY DEF TaskPc
  <1>6. /\ new \in TaskState /\ new.pc = pc /\ new.j = s.j /\ new.i = 1
        /\ new.tries = 0 /\ ~new.failed
    <2>1. s.j \in Journal \cup {None}
      BY <1>4
    <2> HIDE DEF s, pc
    <2> QED  BY <1>5, <2>1, Starts, ZenonT(90)
  <1> HIDE DEF new
  <1>7. Sane'
    BY <1>0, <1>3, <1>4, KeptSane
  <1>8. ASSUME Recoverable' PROVE Covered'
    <2>1. Covered
      BY <1>3, <1>8 DEF IInv, Recoverable, bounds
    <2> QED  BY <1>3, <1>4, <2>1, SameCovered
  <1>9. \A d : Undone(d) => Undone(d)'
    BY <1>3, <1>4 DEF Undone, kernel
  <1>10. CASE s.failed
    <2>1. task'[Loop] = Idle /\ OthersWait'
      BY <1>0, <1>3, <1>10, IdleIs, LoopMoves
    <2>2. failures' >= Attempts /\ failures' = failures /\ failures \in Nat
      BY <1>0, <1>3, <1>10, EndpointsAssumption DEF GivesUpForCause, bounds
    <2>3. HasJournal' /\ GivesUpForCause' /\ Progress' /\ Standing' /\ Unmoved'
      BY <1>0, <1>3, <1>4, <1>10, <2>1, <2>2, IdleIs
      DEF HasJournal, GivesUpForCause, Progress, Standing, Unmoved, AtWork, Attempts, bounds
    <2> QED  BY <1>2, <1>7, <1>8, <2>1, <2>3 DEF IInv
  <1>11. CASE ~s.failed
    <2>1. task'[Loop] = new /\ OthersWait'
      BY <1>0, <1>3, <1>6, <1>11, LoopMoves
    <2>2. HasJournal' /\ GivesUpForCause' /\ Standing' /\ Unmoved'
      BY <1>0, <1>3, <1>4, <1>5, <1>6, <2>1, EndpointsAssumption
      DEF HasJournal, GivesUpForCause, Standing, Unmoved, AtWork, bounds
    <2>3. \A k \in 1 .. Len(Restores) : Undone(Restores[k])
      <3>1. CASE s.pc = "delete"
        BY <1>0, <3>1 DEF Progress
      <3>2. CASE s.pc = "restore"
        <4>1. s.i = Len(Restores) + 1 /\ Len(Restores) \in Nat
          BY <1>3, <3>2, RestoresLists DEF RollbackList, Lists
        <4> QED  BY <1>0, <1>11, <3>2, <4>1 DEF Progress
      <3> QED  BY <1>3, <3>1, <3>2
    <2>4. ASSUME s.pc = "delete"
          PROVE  \A k \in 1 .. Len(Deletes) : Undone(Deletes[k])
      <3>1. s.i = Len(Deletes) + 1 /\ Len(Deletes) \in Nat
        BY <1>3, <2>4, DeletesLists DEF RollbackList, Lists
      <3> QED  BY <1>0, <1>11, <2>4, <3>1 DEF Progress
    <2>5. pc = "remove" => s.pc = "delete"
      BY <1>3
    <2>6. \A k \in 1 .. Len(Restores) : Undone(Restores[k])'
      BY <1>9, <2>3
    <2>7. pc = "remove" => \A k \in 1 .. Len(Deletes) : Undone(Deletes[k])'
      BY <1>9, <2>4, <2>5
    <2>8. \A k \in 1 .. Len(Deletes) : ~(k < 1)
      OBVIOUS
    <2> HIDE DEF s, pc
    <2>9. Progress'
      BY <1>5, <1>6, <2>1, <2>6, <2>7, <2>8 DEF Progress
    <2> QED  BY <1>2, <1>7, <1>8, <2>1, <2>2, <2>9 DEF IInv
  <1> QED  BY <1>10, <1>11

LEMMA RollbackEndsKeeps ==
  ASSUME IInv, RollbackEnds(Loop)
  PROVE  IInv'
  <1>0. /\ TypeInv /\ TypeOK /\ OthersWait /\ HasJournal /\ Sane /\ Progress
        /\ Loop \in Task
        /\ failures \in 0 .. MaxFailures
    BY LoopIsTask DEF IInv, TypeInv, TypeOK
  <1>1. Rollback(Loop)
    BY DEF Rollback
  <1>2. TypeInv'
    BY <1>0, <1>1, RollbackKeepsTypes
  <1>3. /\ task[Loop].pc = "remove" /\ Goto(Loop, Idle)
        /\ \/ journal' = None /\ UNCHANGED <<abandoned, failures>>
           \/ journal' = journal /\ abandoned' /\ failures' = failures + 1
        /\ UNCHANGED <<kernel, plan, stages, crashes>>
    BY DEF RollbackEnds, WriteJournal, Fails
  <1>4. journal # None /\ journal \in Journal
    BY <1>0, <1>3 DEF HasJournal, AtWork, TypeOK
  <1>5. task'[Loop] = Idle /\ OthersWait'
    BY <1>0, <1>3, IdleIs, LoopMoves
  <1>6. failures' >= 0 /\ (failures' < Attempts => failures < Attempts)
    BY <1>0, <1>3, EndpointsAssumption DEF Attempts
  <1>7. HasJournal' /\ GivesUpForCause' /\ Progress' /\ Standing'
    BY <1>0, <1>3, <1>5, <1>6, IdleIs
    DEF HasJournal, GivesUpForCause, Progress, Standing, AtWork
  <1>8. Sane'
    BY <1>0, <1>3, <1>4, KeptSane
  <1>9. /\ \A k \in 1 .. Len(Restores) : Undone(Restores[k])
        /\ \A k \in 1 .. Len(Deletes) : Undone(Deletes[k])
    BY <1>0, <1>3 DEF Progress
  <1>10. ASSUME Recoverable, NEW e \in Endpoint
         PROVE  link[e] = journal.saved[e] /\ journal.saved[e] = own[e]
    <2>1. link[e].up = journal.saved[e].up /\ link[e].mtu = journal.saved[e].mtu
      BY <1>9, RestoresLists DEF Has, Undone
    <2>2. journal.saved[e] = own[e] /\ SavedOffloads(e)
      BY <1>4, <1>10 DEF IInv, Covered
    <2>3. link[e].tx = own[e].tx /\ link[e].tso = own[e].tso
      <3>1. CASE Ethtool
        <4>1. link[e].tx = journal.saved[e].tx
          BY <1>9, <3>1, RestoresLists DEF Has, Undone
        <4>2. link[e].tso = journal.saved[e].tso
          BY <1>9, <3>1, RestoresLists DEF Has, Undone
        <4> QED  BY <2>2, <4>1, <4>2
      <3>2. CASE ~Ethtool
        BY <2>2, <3>2 DEF SavedOffloads
      <3> QED  BY <3>1, <3>2
    <2>4. link[e] \in Link /\ own[e] \in Link
      BY <1>0 DEF TypeOK, Working
    <2> QED  BY <2>1, <2>2, <2>3, <2>4 DEF Link
  <1>11. Unmoved'
    <2> SUFFICES ASSUME journal' # None, failures' < Attempts, crashes' = 0
                 PROVE  \A e \in Endpoint : link'[e] = journal'.saved[e]
      BY DEF Unmoved
    <2>1. Recoverable
      BY <1>3, <1>6 DEF Recoverable
    <2> QED  BY <1>3, <1>10, <2>1 DEF kernel
  <1>12. ASSUME Recoverable' PROVE Covered'
    <2>1. Recoverable /\ Covered
      BY <1>3, <1>6, <1>12 DEF IInv, Recoverable
    <2>2. CASE journal' = journal
      BY <1>3, <2>1, <2>2, SameCovered
    <2>3. CASE journal' = None
      <3> SUFFICES ASSUME NEW e \in Endpoint PROVE Untouched(e)
        BY <1>3, <2>3 DEF Covered, JournalCoversChanges, Untouched, kernel
      <3>1. where[e] = "host"
        BY <1>0, <1>3, RestoredIsBack
      <3>2. addrs[e] = {}
        BY <1>0, <3>1 DEF Sane
      <3>3. e \notin netns
        BY <1>9, DeletesLists DEF Has, Undone
      <3>4. link[e] = own[e]
        BY <1>10, <2>1
      <3> QED  BY <3>1, <3>2, <3>3, <3>4 DEF Untouched
    <2> QED  BY <1>3, <2>2, <2>3
  <1> QED  BY <1>2, <1>5, <1>7, <1>8, <1>11, <1>12 DEF IInv

LEMMA OnlyTheLoopRollsBack ==
  ASSUME OthersWait, NEW t \in Task, Rollback(t)
  PROVE  t = Loop
  <1>1. task[t].pc \in {"restore", "delete", "remove"}
    BY DEF Rollback, RollbackRuns, RollbackFails, RollbackTurns, RollbackEnds
  <1>2. t \in Lease => task[t].pc \in {"idle", "armed"}
    BY DEF OthersWait
  <1> QED  BY <1>1, <1>2 DEF Task

LEMMA StepKeeps == ~Expiry => (IInv /\ [Next]_vars => IInv')
  <1> SUFFICES ASSUME ~Expiry, IInv, [Next]_vars PROVE IInv'
    OBVIOUS
  <1>1. ASSUME NEW e \in Endpoint, OperatorChanges(e) PROVE IInv'
    BY <1>1, OperatorKeeps
  <1>2. CASE Plan
    BY <1>2, PlanKeeps
  <1>3. CASE Stage
    BY <1>3, StageKeeps
  <1>4. CASE Apply
    BY <1>4, ApplyNextKeeps, ApplyFailsKeeps, ApplyStopsKeeps, ApplyDoneKeeps DEF Apply
  <1>5. CASE CommitReads \/ CommitWrites
    BY <1>5, CommitKeeps
  <1>6. CASE Recover \/ Restart
    BY <1>6, RecoverKeeps
  <1>7. ASSUME NEW op \in Lease, LeaseExpires(op) PROVE IInv'
    BY <1>7, LeaseKeeps
  <1>8. ASSUME NEW t \in Task, Rollback(t) PROVE IInv'
    <2>1. t = Loop
      BY <1>8, OnlyTheLoopRollsBack DEF IInv
    <2>2. CASE RollbackRuns(Loop)
      <3>1. task[Loop].pc \in {"restore", "delete"}
        BY <2>2 DEF RollbackRuns
      <3> QED  BY <2>2, <3>1, RestoreRunsKeeps, DeleteRunsKeeps
    <2>3. CASE RollbackFails(Loop) \/ RollbackTurns(Loop) \/ RollbackEnds(Loop)
      BY <2>3, RollbackFailsKeeps, RollbackTurnsKeeps, RollbackEndsKeeps
    <2> QED  BY <1>8, <2>1, <2>2, <2>3 DEF Rollback
  <1>9. CASE Crash
    BY <1>9, CrashKeeps
  <1>10. CASE UNCHANGED vars
    BY <1>10, StutterKeeps
  <1> QED  BY <1>1, <1>2, <1>3, <1>4, <1>5, <1>6, <1>7, <1>8, <1>9, <1>10 DEF Next

(* As long as an operation ends within its lease, nothing the Agent does or    *)
(* fails to do, and no crash, ever destroys an interface (network.rs, rollback: *)
(* namespaces go last, and only when everything was restored).                 *)
THEOREM InterfacesSurvive ==
  ASSUME ~Expiry
  PROVE  Spec => []NoInterfaceIsLost
  <1>0. IInv /\ [Next]_vars => IInv'
    BY StepKeeps
  <1>1. IInv => NoInterfaceIsLost
    BY DEF IInv, Sane, NoInterfaceIsLost
  <1> QED  BY Begins, <1>0, <1>1, PTL DEF Spec

(* A rollback's order never makes a command of its own impossible: whenever one *)
(* was given up, three attempts failed that could have worked (rollback).       *)
THEOREM RollbackIsFeasible ==
  ASSUME ~Expiry
  PROVE  Spec => []RollbackFailsOnlyForCause
  <1>0. IInv /\ [Next]_vars => IInv'
    BY StepKeeps
  <1>1. IInv => RollbackFailsOnlyForCause
    <2> SUFFICES ASSUME IInv, NEW t \in Task, task[t].failed PROVE failures >= Attempts
      BY DEF RollbackFailsOnlyForCause
    <2>1. t \notin Lease
      BY DEF IInv, OthersWait
    <2>2. t = Loop
      BY <2>1 DEF Task
    <2> QED  BY <2>2 DEF IInv, GivesUpForCause
  <1> QED  BY Begins, <1>0, <1>1, PTL DEF Spec

(* What was changed can be undone: without a journal every interface is as its  *)
(* operator left it.  For any number of operations as long as every rollback    *)
(* came to its end, and whatever fails and crashes within the first one.        *)
THEOREM ChangesAreCovered ==
  ASSUME ~Expiry
  PROVE  Spec => [](Recoverable => JournalCoversChanges)
  <1>0. IInv /\ [Next]_vars => IInv'
    BY StepKeeps
  <1>1. IInv => (Recoverable => JournalCoversChanges)
    BY DEF IInv, Covered
  <1> QED  BY Begins, <1>0, <1>1, PTL DEF Spec

(* With one operation that is the property the model checker checks.            *)
COROLLARY FirstOperationIsCovered ==
  ASSUME ~Expiry, MaxStages = 1
  PROVE  Spec => []JournalCoversChanges
  <1>1. TypeOK => Recoverable
    BY DEF TypeOK, Recoverable
  <1>2. Spec => [](Recoverable => JournalCoversChanges)
    BY ChangesAreCovered
  <1> QED  BY JournalTypes, <1>1, <1>2, PTL

(* The journal becomes prepared only when every interface is in its namespace,  *)
(* up and with all its addresses (commit), as long as no undo was given up.     *)
THEOREM CommitsAreComplete ==
  ASSUME ~Expiry
  PROVE  Spec => CommitsWhatIsInPlace
  <1>0. IInv /\ [Next]_vars => IInv'
    BY StepKeeps
  <1> DEFINE A == journal' # None /\ journal'.phase = "prepared"
                    /\ journal # journal' /\ ~abandoned
                    => \A e \in Endpoint : InPlace(e)
  <1>1. IInv /\ [Next]_vars => [A]_vars
    <2> SUFFICES ASSUME IInv, Next,
                        journal' # None, journal'.phase = "prepared",
                        journal # journal', ~abandoned
                 PROVE  \A e \in Endpoint : InPlace(e)
      OBVIOUS
    <2>1. TypeInv /\ OthersWait /\ HasJournal /\ Standing /\ journal \in Journal \cup {None}
      BY DEF IInv, TypeInv, TypeOK
    <2>2. CASE CommitWrites
      <3>1. task[Loop].pc = "commit"
        BY <2>2 DEF CommitWrites
      <3> QED  BY <2>1, <3>1 DEF HasJournal, Standing, AtWork
    <2>3. ~Stage
      <3> SUFFICES ASSUME Stage PROVE FALSE
        OBVIOUS
      <3>1. journal'.phase = "applying"
        BY DEF Stage, WriteJournal
      <3> QED  BY <3>1
    <2>4. ~Apply
      <3> DEFINE s == task[Loop]
      <3> SUFFICES ASSUME Apply PROVE FALSE
        OBVIOUS
      <3>1. s.pc = "apply"
        BY DEF Apply, ApplyNext, ApplyFails, ApplyStops, ApplyDone
      <3>2. s.j = journal /\ journal \in Journal
        BY <2>1, <3>1 DEF HasJournal, AtWork
      <3>3. ~ApplyNext /\ ~ApplyStops
        BY <3>2 DEF ApplyNext, ApplyStops, WriteJournal
      <3>4. \/ journal' = [journal EXCEPT !.phase = "rolling_back"]
            \/ journal' = [journal EXCEPT !.phase = "staged"]
        BY <3>2, <3>3 DEF Apply, ApplyFails, ApplyDone, WriteJournal
      <3>5. journal'.phase \in {"rolling_back", "staged"}
        <4>1. "rolling_back" \in Phase /\ "staged" \in Phase
          BY DEF Phase
        <4> QED  BY <3>2, <3>4, <4>1, PhaseOf
      <3> QED  BY <3>5
    <2>5. ASSUME NEW t \in Task PROVE ~Rollback(t)
      BY DEF Rollback, RollbackRuns, RollbackFails, RollbackTurns, RollbackEnds, WriteJournal
    <2>6. /\ \A e \in Endpoint : ~OperatorChanges(e)
          /\ ~Plan /\ ~CommitReads /\ ~Recover /\ ~Crash /\ ~Restart
          /\ \A op \in Lease : ~LeaseExpires(op)
      BY DEF OperatorChanges, Plan, CommitReads, Recover, Crash, Restart, LeaseExpires
    <2> QED  BY <2>2, <2>3, <2>4, <2>5, <2>6 DEF Next
  <1> QED  BY Begins, <1>0, <1>1, PTL DEF Spec, CommitsWhatIsInPlace

=============================================================================
