------------------------- MODULE UploadProxy_proofs -------------------------
(***************************************************************************)
(* Proofs about UploadProxy for every set of addresses and connections and *)
(* every number of reloads.                                                *)
(***************************************************************************)
EXTENDS UploadProxy, TLAPS

Slots == Sinks \cup {NoSink}

\* Where the sinks of the list are: runTimeout has compacted the first and not
\* yet looked at the last; append has counted a sink it has not stored yet.
positions ==
    IF lock = "timeout" THEN (1..kept) \cup (index..length)
    ELSE IF adding.stage = "element" THEN 1..(length - 1) ELSE 1..length

\* What the holder of sinkMutex has done so far.
LockInv ==
    /\ Len(arrays) >= 1
    /\ lock # "update" => newConfigs = {} /\ adding = none
    /\ lock = "timeout" => kept < index /\ index <= length + 1
    /\ adding.stage = "none" => adding = none
    /\ adding.stage # "none" =>
          /\ adding.sink \in Sinks \ stopped
          /\ adding.sink.n = created[adding.sink.address]
          /\ adding.sink.address \in (config \ newConfigs) \ Invalid
          /\ grace[adding.sink.address] = "none"
          /\ \A i \in positions : array[i].address # adding.sink.address
    /\ adding.stage = "length" => length < Len(array)
    /\ adding.stage = "element" => length >= 1

\* The list holds running sinks, the last created for each address.
PositionsInv ==
    /\ \A i \in positions : /\ array[i] \in Sinks \ stopped
                            /\ array[i].n = created[array[i].address]
                            /\ array[i].address \notin newConfigs \cup Invalid
    /\ \A i, j \in positions : array[i].address = array[j].address => i = j

\* The sinks that will stay are those of the configuration created so far.
SinksInv ==
    /\ \A i \in positions :
          grace[array[i].address] = "none" => array[i].address \in config
    /\ \A a \in (config \ newConfigs) \ Invalid :
          \/ \E i \in positions : array[i].address = a /\ grace[a] = "none"
          \/ adding.stage # "none" /\ a = adding.sink.address
    /\ \A s \in stopped : s.n <= created[s.address]

\* What compactions leave behind in the array is stopped or still listed.
SlotsInv ==
    /\ \A i \in DOMAIN array \ positions :
          \/ array[i] \in stopped \cup {NoSink}
          \/ \E j \in positions : array[j] = array[i]
    /\ \A i \in 1..length : array[i] = NoSink => adding.stage = "element" /\ i = length

ListInv == TypeOK /\ LockInv /\ PositionsInv /\ SinksInv /\ SlotsInv

\* HandleUpload walks once it has read array and length.
ReadInv(r) ==
    /\ request[r].length >= -1
    /\ request[r].next >= 1
    /\ request[r].pc = "read" => request[r].next = 1 /\ got[r] = <<>>
    /\ request[r].pc = "read" => request[r].array = 0 \/ request[r].length = -1
    /\ request[r].pc = "walk" => request[r].array > 0 /\ request[r].length >= 0

\* p.sinks always points to an array.
LEMMA CurrentArray ==
    ASSUME ListInv
    PROVE  /\ arrays \in Seq(Seq(Slots)) /\ Len(arrays) \in Nat /\ Len(arrays) >= 1
           /\ array \in Seq(Slots) /\ Len(array) \in Nat /\ DOMAIN array = 1..Len(array)
           /\ length \in 0..Len(array)
           /\ positions \subseteq 1..length
<1>1. arrays \in Seq(Seq(Slots)) /\ Len(arrays) >= 1 /\ length \in 0..Len(array)
  BY DEF ListInv, TypeOK, LockInv, Slots
<1>2. Len(arrays) \in Nat /\ array \in Seq(Slots)
  BY <1>1 DEF array
<1>3. Len(array) \in Nat /\ DOMAIN array = 1..Len(array)
  BY <1>2
<1>4. index \in Nat /\ index >= 1 /\ kept \in Nat
  BY <1>3 DEF ListInv, TypeOK
<1>5. lock = "timeout" => kept < index /\ index <= length + 1
  BY DEF ListInv, LockInv
<1>6. positions \subseteq 1..length
  BY <1>1, <1>3, <1>4, <1>5 DEF positions
<1> QED BY <1>1, <1>2, <1>3, <1>6

\* A store into the array p.sinks points to.
LEMMA Overwrite ==
    ASSUME ListInv, NEW k \in 1..Len(array), NEW s \in Slots,
           arrays' = [arrays EXCEPT ![Len(arrays)][k] = s]
    PROVE  /\ arrays' \in Seq(Seq(Slots)) /\ Len(arrays') = Len(arrays)
           /\ array' = [array EXCEPT ![k] = s] /\ Len(array') = Len(array)
           /\ array'[k] = s /\ DOMAIN array' = DOMAIN array
           /\ \A i \in 1..Len(array) : i # k => array'[i] = array[i]
           /\ \A m \in 1..Len(arrays) : m # Len(arrays) => arrays'[m] = arrays[m]
<1>1. /\ arrays \in Seq(Seq(Slots)) /\ Len(arrays) \in Nat /\ Len(arrays) >= 1
      /\ array \in Seq(Slots) /\ Len(array) \in Nat /\ DOMAIN array = 1..Len(array)
  BY CurrentArray
<1> DEFINE stored == [array EXCEPT ![k] = s]
<1>2. stored \in Seq(Slots) /\ Len(stored) = Len(array) /\ DOMAIN stored = 1..Len(array)
  BY <1>1
<1>3. stored[k] = s /\ \A i \in 1..Len(array) : i # k => stored[i] = array[i]
  BY <1>1
<1>4. arrays' = [arrays EXCEPT ![Len(arrays)] = stored]
  BY DEF array
<1> HIDE DEF stored
<1>5. arrays' \in Seq(Seq(Slots)) /\ Len(arrays') = Len(arrays) /\ arrays'[Len(arrays)] = stored
  BY <1>1, <1>2, <1>4
<1>6. \A m \in 1..Len(arrays) : m # Len(arrays) => arrays'[m] = arrays[m]
  BY <1>1, <1>4
<1>7. array' = stored
  BY <1>5 DEF array
<1> QED BY <1>1, <1>2, <1>3, <1>5, <1>6, <1>7 DEF stored

\* append moves the list to a longer array when the old one is full.
LEMMA Grown ==
    ASSUME ListInv, length = Len(array), arrays' = Append(arrays, grown(array))
    PROVE  /\ arrays' \in Seq(Seq(Slots)) /\ Len(arrays') = Len(arrays) + 1
           /\ array' \in Seq(Slots) /\ Len(array') > Len(array)
           /\ DOMAIN array' = 1..Len(array')
           /\ \A i \in 1..Len(array) : array'[i] = array[i]
           /\ \A i \in 1..Len(array') : i > Len(array) => array'[i] = NoSink
           /\ \A m \in 1..Len(arrays) : arrays'[m] = arrays[m]
<1>1. /\ arrays \in Seq(Seq(Slots)) /\ Len(arrays) \in Nat /\ Len(arrays) >= 1
      /\ array \in Seq(Slots) /\ Len(array) \in Nat /\ DOMAIN array = 1..Len(array)
  BY CurrentArray
<1> DEFINE capacity == IF array = <<>> THEN 1 ELSE 2 * Len(array)
<1>2. capacity \in Nat /\ capacity > Len(array)
  BY <1>1
<1> DEFINE new == [i \in 1..capacity |-> IF i <= Len(array) THEN array[i] ELSE NoSink]
<1>3. grown(array) = new
  BY DEF grown
<1> HIDE DEF capacity
<1>4. \A i \in 1..capacity : new[i] \in Slots
  BY <1>1, <1>2 DEF Slots
<1>5. new \in Seq(Slots) /\ Len(new) = capacity /\ DOMAIN new = 1..capacity
  BY <1>2, <1>4
<1>6. /\ \A i \in 1..Len(array) : new[i] = array[i]
      /\ \A i \in 1..capacity : i > Len(array) => new[i] = NoSink
  BY <1>1, <1>2
<1> HIDE DEF new
<1>7. /\ arrays' \in Seq(Seq(Slots)) /\ Len(arrays') = Len(arrays) + 1
      /\ arrays'[Len(arrays) + 1] = new
      /\ \A m \in 1..Len(arrays) : arrays'[m] = arrays[m]
  BY <1>1, <1>3, <1>5
<1>8. array' = new
  BY <1>7 DEF array
<1> QED BY <1>2, <1>5, <1>6, <1>7, <1>8

\* What the proofs below use of the list and of the sink being appended.
LEMMA ListFacts ==
    ASSUME ListInv
    PROVE  /\ config \subseteq Addresses /\ newConfigs \subseteq config
           /\ created \in [Addresses -> Nat]
           /\ grace \in [Addresses -> {"none", "running", "over"}]
           /\ stopped \subseteq Sinks
           /\ index \in Nat /\ index >= 1 /\ kept \in Nat /\ length \in Nat
           /\ index <= Len(array) + 1 /\ kept < index
           /\ \A s \in Sinks : s.address \in Addresses /\ s.n \in Nat
           /\ \A i \in positions : array[i] \in Sinks /\ array[i] # NoSink
           /\ lock = "timeout" => positions = (1..kept) \cup (index..length)
           /\ lock = "free" => positions = 1..length
           /\ adding = none /\ lock # "timeout" => positions = 1..length
           /\ adding.stage = "length" => lock = "update" /\ positions = 1..length
           /\ adding.stage = "element" => lock = "update" /\ positions = 1..(length - 1)
<1>1. array \in Seq(Slots) /\ Len(array) \in Nat /\ length \in 0..Len(array)
  BY CurrentArray
<1>2. index \in Nat /\ index >= 1 /\ kept \in Nat /\ index <= Len(array) + 1 /\ kept < index
  BY <1>1 DEF ListInv, TypeOK
<1>3. \A i \in positions : array[i] \in Sinks /\ array[i] # NoSink
  BY NoSinkAssumption DEF ListInv, PositionsInv
<1>4. lock # "update" => adding = none
  BY DEF ListInv, LockInv
<1>5. none.stage = "none"
  BY DEF none
<1>6. lock = "timeout" => positions = (1..kept) \cup (index..length)
  BY DEF positions
<1>7. adding = none /\ lock # "timeout" => positions = 1..length
  BY <1>5 DEF positions
<1>8. adding.stage = "length" => lock = "update" /\ positions = 1..length
  BY <1>4, <1>5 DEF positions, ListInv, TypeOK
<1>9. adding.stage = "element" => lock = "update" /\ positions = 1..(length - 1)
  BY <1>4, <1>5 DEF positions, ListInv, TypeOK
<1>10. lock = "free" => positions = 1..length
  BY <1>4, <1>7
<1>11. \A s \in Sinks : s.address \in Addresses /\ s.n \in Nat
  BY DEF Sinks
<1> QED
  BY <1>1, <1>2, <1>3, <1>6, <1>7, <1>8, <1>9, <1>10, <1>11 DEF ListInv, TypeOK

\* A new configuration changes the grace periods, not the list.
LEMMA UpdateConfigList ==
    ASSUME ListInv, NEW conf \in SUBSET Addresses, UpdateConfig(conf)
    PROVE  ListInv'
<1>1. /\ lock = "free" /\ lock' = "update" /\ adding' = adding /\ adding = none
      /\ config' = conf /\ grace' = graceAfter(conf) /\ newConfigs' = conf \ addresses
      /\ arrays' = arrays /\ array' = array /\ length' = length /\ created' = created
      /\ stopped' = stopped /\ newConfigs = {}
  BY DEF UpdateConfig, timeoutVars, ListInv, LockInv, array
<1>2. positions = 1..length /\ positions' = 1..length
  <2>1. none.stage = "none"
    BY DEF none
  <2> QED BY <1>1, <2>1, ListFacts DEF positions
<1>3. addresses = {array[i].address : i \in 1..length}
  BY <1>2, ListFacts DEF addresses, listed
<1>4. \A i \in 1..length : array[i].address \in addresses /\ array[i].address \in Addresses
  BY <1>2, <1>3, ListFacts
<1>5. TypeOK'
  <2>1. graceAfter(conf) \in [Addresses -> {"none", "running", "over"}]
    BY ListFacts DEF graceAfter
  <2>2. reloads' \in 0..MaxReloads
    BY MaxReloadsAssumption DEF UpdateConfig, ListInv, TypeOK
  <2> QED BY <1>1, <2>1, <2>2 DEF ListInv, TypeOK, UpdateConfig, timeoutVars, historyVars
<1>6. LockInv'
  <2>1. none.stage = "none"
    BY DEF none
  <2> QED BY <1>1, <2>1 DEF ListInv, LockInv
<1>7. PositionsInv'
  <2>1. \A i \in positions' : array[i].address \notin newConfigs' \cup Invalid
    BY <1>1, <1>2, <1>4 DEF ListInv, PositionsInv
  <2> QED BY <1>1, <1>2, <2>1 DEF ListInv, PositionsInv
<1>8. SinksInv'
  <2>1. \A i \in 1..length : grace'[array[i].address] = "none" <=> array[i].address \in conf
    BY <1>1, <1>4, ListFacts DEF graceAfter
  <2>2. \A a \in (conf \ newConfigs') \ Invalid : \E i \in 1..length : array[i].address = a
    BY <1>1, <1>3
  <2> QED BY <1>1, <1>2, <2>1, <2>2 DEF ListInv, SinksInv
<1>9. SlotsInv'
  BY <1>1, <1>2 DEF ListInv, SlotsInv
<1> QED BY <1>5, <1>6, <1>7, <1>8, <1>9 DEF ListInv

\* A sink url.Parse refuses is skipped.
LEMMA NewSinkFailsList ==
    ASSUME ListInv, NEW a \in Addresses, NewSinkFails(a)
    PROVE  ListInv'
<1>1. /\ lock = "update" /\ lock' = lock /\ adding' = adding /\ adding = none
      /\ config' = config /\ grace' = grace /\ newConfigs' = newConfigs \ {a} /\ a \in Invalid
      /\ arrays' = arrays /\ array' = array /\ length' = length /\ created' = created
      /\ stopped' = stopped
  BY DEF NewSinkFails, sinkVars, array
<1>2. none.stage = "none"
  BY DEF none
<1>3. positions = 1..length /\ positions' = 1..length
  BY <1>1, <1>2 DEF positions
<1>4. TypeOK'
  BY <1>1 DEF ListInv, TypeOK, NewSinkFails, timeoutVars, historyVars
<1>5. LockInv'
  BY <1>1, <1>2 DEF ListInv, LockInv
<1>6. PositionsInv' /\ SinksInv' /\ SlotsInv'
  BY <1>1, <1>3 DEF ListInv, PositionsInv, SinksInv, SlotsInv
<1> QED BY <1>4, <1>5, <1>6 DEF ListInv

\* A sink that is created has an address no listed sink has.
LEMMA NewSinkList ==
    ASSUME ListInv, NEW a \in Addresses, NewSink(a)
    PROVE  ListInv'
<1> DEFINE sink == [address |-> a, n |-> created[a] + 1]
<1>1. /\ lock = "update" /\ lock' = lock /\ adding = none
      /\ a \in newConfigs \ Invalid /\ newConfigs' = newConfigs \ {a} /\ config' = config
      /\ created' = [created EXCEPT ![a] = @ + 1] /\ grace' = [grace EXCEPT ![a] = "none"]
      /\ length' = length /\ stopped' = stopped
  BY DEF NewSink
<1>2. adding' = [sink |-> sink, stage |-> "length"]
  BY DEF NewSink
<1>3. sink \in Sinks /\ sink.address = a /\ sink.n = created[a] + 1
  BY ListFacts DEF Sinks
<1> HIDE DEF sink
<1>4. adding'.sink = sink /\ adding'.stage = "length"
  BY <1>2
<1>5. positions = 1..length /\ positions' = 1..length
  BY <1>1, <1>4, ListFacts DEF positions
<1>6. /\ arrays' \in Seq(Seq(Slots)) /\ Len(arrays') >= Len(arrays)
      /\ Len(array') \in Nat /\ Len(array') >= Len(array) /\ length < Len(array')
      /\ DOMAIN array' = 1..Len(array')
      /\ \A i \in 1..Len(array) : array'[i] = array[i]
      /\ \A i \in 1..Len(array') : i > Len(array) => array'[i] = NoSink
  <2>1. CASE length < Len(array)
    <3>1. arrays' = arrays /\ array' = array
      BY <2>1 DEF NewSink, array
    <3> QED BY <2>1, <3>1, CurrentArray
  <2>2. CASE ~(length < Len(array))
    <3>1. arrays' = Append(arrays, grown(array)) /\ length = Len(array)
      BY <2>2, CurrentArray DEF NewSink
    <3>2. array' \in Seq(Slots)
      BY <3>1, Grown
    <3> QED BY <3>1, <3>2, Grown, CurrentArray
  <2> QED BY <2>1, <2>2
<1>7. \A i \in 1..length : i \in 1..Len(array) /\ array'[i] = array[i]
  BY <1>6, CurrentArray
<1>8. \A i \in 1..length : array[i].address # a /\ array[i].address \in Addresses
  BY <1>1, <1>5, ListFacts DEF ListInv, PositionsInv
<1>9. /\ created' \in [Addresses -> Nat] /\ created'[a] = created[a] + 1
      /\ \A b \in Addresses : b # a => created'[b] = created[b] /\ grace'[b] = grace[b]
      /\ \A b \in Addresses : created'[b] >= created[b]
      /\ grace'[a] = "none" /\ grace' \in [Addresses -> {"none", "running", "over"}]
  BY <1>1, ListFacts
<1>10. sink \notin stopped
  <2>1. \A s \in stopped : s.n <= created[s.address]
    BY DEF ListInv, SinksInv
  <2>2. created[a] \in Nat
    BY ListFacts
  <2> QED BY <1>3, <2>1, <2>2
<1>11. TypeOK'
  <2>1. arrays \in Seq(Seq(Slots)) /\ Len(arrays) \in Nat /\ Len(array) \in Nat
    BY CurrentArray
  <2>2. Len(arrays') \in Nat
    BY <1>6
  <2>3. /\ config' \subseteq Addresses /\ newConfigs' \subseteq config'
        /\ arrays' \in Seq(Seq(Sinks \cup {NoSink})) /\ length' \in 0..Len(array')
        /\ created' \in [Addresses -> Nat]
        /\ grace' \in [Addresses -> {"none", "running", "over"}]
        /\ stopped' \subseteq Sinks /\ lock' \in {"free", "update", "timeout"}
    BY <1>1, <1>6, <1>9, ListFacts DEF Slots
  <2>4. adding' \in [sink: Sinks \cup {NoSink}, stage: {"none", "length", "element"}]
    BY <1>2, <1>3
  <2>5. index' \in 1..(Len(array') + 1) /\ kept' \in 0..(index' - 1)
    <3>1. index' = index /\ kept' = kept
      BY DEF NewSink, timeoutVars
    <3> QED BY <1>6, <2>1, <3>1, ListFacts
  <2>6. request' \in [Requests -> [pc: {"idle", "read", "walk", "panic", "answered"},
                                   array: 0..Len(arrays'), length: Int, next: Nat]]
    <3>1. 0..Len(arrays) \subseteq 0..Len(arrays')
      BY <1>6, <2>1, <2>2
    <3> QED BY <3>1 DEF NewSink, ListInv, TypeOK
  <2>7. /\ got' \in [Requests -> Seq(Sinks)] /\ expected' \in [Requests -> SUBSET Sinks]
        /\ disturbed' \in [Requests -> SUBSET {"add", "remove"}] /\ reloads' \in 0..MaxReloads
    BY DEF NewSink, disturb, ListInv, TypeOK
  <2> QED BY <2>3, <2>4, <2>5, <2>6, <2>7 DEF TypeOK
<1>12. LockInv'
  <2>1. Len(arrays') >= 1
    BY <1>6, CurrentArray
  <2>2. /\ sink \in Sinks \ stopped' /\ sink.n = created'[sink.address]
        /\ sink.address \in (config' \ newConfigs') \ Invalid /\ grace'[sink.address] = "none"
    BY <1>1, <1>3, <1>9, <1>10, ListFacts
  <2>3. \A i \in positions' : array'[i].address # sink.address
    BY <1>3, <1>5, <1>7, <1>8
  <2> QED BY <1>1, <1>4, <1>6, <2>1, <2>2, <2>3 DEF LockInv
<1>13. PositionsInv'
  BY <1>1, <1>5, <1>7, <1>8, <1>9 DEF ListInv, PositionsInv
<1>14. SinksInv'
  <2>1. \A i \in positions' : grace'[array'[i].address] = "none" => array'[i].address \in config'
    BY <1>1, <1>5, <1>7, <1>8, <1>9 DEF ListInv, SinksInv
  <2>2. ASSUME NEW b \in (config' \ newConfigs') \ Invalid
        PROVE  \/ \E i \in positions' : array'[i].address = b /\ grace'[b] = "none"
               \/ adding'.stage # "none" /\ b = adding'.sink.address
    <3>1. CASE b = a
      BY <1>3, <1>4, <3>1
    <3>2. CASE b # a
      <4>1. b \in (config \ newConfigs) \ Invalid /\ b \in Addresses
        BY <1>1, <3>2, ListFacts
      <4>2. adding.stage = "none"
        BY <1>1 DEF none
      <4>3. PICK i \in positions : array[i].address = b /\ grace[b] = "none"
        BY <4>1, <4>2 DEF ListInv, SinksInv
      <4> QED BY <1>5, <1>7, <1>9, <3>2, <4>1, <4>3
    <3> QED BY <3>1, <3>2
  <2>3. \A s \in stopped' : s.n <= created'[s.address]
    <3>1. ASSUME NEW s \in stopped PROVE s.n <= created'[s.address]
      <4>1. s.n \in Nat /\ s.address \in Addresses
        BY ListFacts
      <4>2. s.n <= created[s.address]
        BY DEF ListInv, SinksInv
      <4>3. created[s.address] \in Nat /\ created'[s.address] \in Nat
        BY <1>9, <4>1, ListFacts
      <4> QED BY <1>9, <4>1, <4>2, <4>3
    <3> QED BY <1>1, <3>1
  <2> QED BY <2>1, <2>2, <2>3 DEF SinksInv
<1>15. SlotsInv'
  <2>1. ASSUME NEW i \in DOMAIN array' \ positions'
        PROVE  \/ array'[i] \in stopped' \cup {NoSink}
               \/ \E j \in positions' : array'[j] = array'[i]
    <3>1. CASE i <= Len(array)
      <4>1. i \in DOMAIN array \ positions /\ array'[i] = array[i]
        BY <1>5, <1>6, <2>1, <3>1, CurrentArray
      <4> QED BY <1>1, <1>5, <1>7, <4>1 DEF ListInv, SlotsInv
    <3>2. CASE ~(i <= Len(array))
      BY <1>6, <2>1, <3>2, CurrentArray
    <3> QED BY <3>1, <3>2
  <2>2. adding.stage = "none"
    BY <1>1 DEF none
  <2>3. \A i \in 1..length' : array'[i] # NoSink
    BY <1>1, <1>7, <2>2 DEF ListInv, SlotsInv
  <2> QED BY <2>1, <2>3 DEF SlotsInv
<1> QED BY <1>11, <1>12, <1>13, <1>14, <1>15 DEF ListInv

\* append counts the sink first: the list itself is what it was.
LEMMA AppendLengthList ==
    ASSUME ListInv, AppendLength
    PROVE  ListInv'
<1>1. /\ adding.stage = "length" /\ adding' = [adding EXCEPT !.stage = "element"]
      /\ length' = length + 1 /\ arrays' = arrays /\ array' = array /\ lock' = lock
      /\ created' = created /\ grace' = grace /\ stopped' = stopped
      /\ config' = config /\ newConfigs' = newConfigs /\ reloads' = reloads
      /\ index' = index /\ kept' = kept /\ request' = request /\ got' = got
      /\ expected' = expected
  BY DEF AppendLength, sinkVars, timeoutVars, array
<1>2. adding \in [sink: Sinks \cup {NoSink}, stage: {"none", "length", "element"}]
  BY DEF ListInv, TypeOK
<1>3. adding'.stage = "element" /\ adding'.sink = adding.sink
  BY <1>1, <1>2
<1>4. lock = "update" /\ positions = 1..length
  BY <1>1, ListFacts
<1>5. positions' = positions
  <2>1. positions' = 1..(length' - 1)
    BY <1>1, <1>3, <1>4 DEF positions
  <2> QED BY <1>1, <1>4, <2>1, ListFacts
<1>6. length < Len(array) /\ length \in Nat /\ Len(array) \in Nat
  BY <1>1, CurrentArray DEF ListInv, LockInv
<1>7. TypeOK'
  <2>1. length' \in 0..Len(array')
    BY <1>1, <1>6
  <2>2. adding' \in [sink: Sinks \cup {NoSink}, stage: {"none", "length", "element"}]
    BY <1>1, <1>2
  <2>3. disturbed' \in [Requests -> SUBSET {"add", "remove"}]
    BY DEF AppendLength, disturb, ListInv, TypeOK
  <2> QED BY <1>1, <2>1, <2>2, <2>3 DEF ListInv, TypeOK
<1>8. LockInv'
  BY <1>1, <1>3, <1>4, <1>5, <1>6 DEF ListInv, LockInv
<1>9. PositionsInv' /\ SinksInv'
  BY <1>1, <1>3, <1>5 DEF ListInv, PositionsInv, SinksInv
<1>10. SlotsInv'
  <2>1. \A i \in 1..length' : array[i] = NoSink => i = length'
    <3>1. \A i \in 1..length : array[i] # NoSink
      BY <1>1 DEF ListInv, SlotsInv
    <3> QED BY <1>1, <1>6, <3>1
  <2> QED BY <1>1, <1>3, <1>5, <2>1 DEF ListInv, SlotsInv
<1> QED BY <1>7, <1>8, <1>9, <1>10 DEF ListInv

\* Then it stores the sink, behind the sinks of the list.
LEMMA AppendElementList ==
    ASSUME ListInv, AppendElement
    PROVE  ListInv'
<1>1. /\ adding.stage = "element" /\ adding' = none
      /\ arrays' = [arrays EXCEPT ![Len(arrays)][length] = adding.sink]
      /\ length' = length /\ lock' = lock
      /\ created' = created /\ grace' = grace /\ stopped' = stopped
      /\ config' = config /\ newConfigs' = newConfigs /\ reloads' = reloads
      /\ index' = index /\ kept' = kept /\ request' = request /\ got' = got
      /\ expected' = expected /\ disturbed' = disturbed
  BY DEF AppendElement, sinkVars, timeoutVars, historyVars
<1>2. lock = "update" /\ positions = 1..(length - 1)
  BY <1>1, ListFacts
<1>3. none.stage = "none" /\ none.sink = NoSink
  BY DEF none
<1>4. positions' = 1..length
  BY <1>1, <1>2, <1>3 DEF positions
<1>5. length \in Nat /\ length >= 1 /\ Len(array) \in Nat /\ length <= Len(array)
      /\ length \in 1..Len(array) /\ DOMAIN array = 1..Len(array)
  BY <1>1, CurrentArray DEF ListInv, LockInv
<1>6. /\ adding.sink \in Sinks \ stopped
      /\ adding.sink.n = created[adding.sink.address]
      /\ adding.sink.address \in (config \ newConfigs) \ Invalid
      /\ grace[adding.sink.address] = "none"
      /\ \A i \in positions : array[i].address # adding.sink.address
  BY <1>1 DEF ListInv, LockInv
<1>7. adding.sink \in Slots
  BY <1>6 DEF Slots
<1>8. /\ arrays' \in Seq(Seq(Slots)) /\ Len(arrays') = Len(arrays)
      /\ Len(array') = Len(array) /\ array'[length] = adding.sink
      /\ DOMAIN array' = DOMAIN array
      /\ \A i \in 1..Len(array) : i # length => array'[i] = array[i]
  BY <1>1, <1>5, <1>7, Overwrite
<1>9. \A i \in positions : i \in 1..Len(array) /\ i # length /\ array'[i] = array[i]
  BY <1>2, <1>5, <1>8
<1>10. positions' = positions \cup {length}
  BY <1>2, <1>4, <1>5
<1>11. TypeOK'
  <2>1. none \in [sink: Sinks \cup {NoSink}, stage: {"none", "length", "element"}]
    BY DEF none
  <2> QED BY <1>1, <1>8, <2>1 DEF ListInv, TypeOK, Slots
<1>12. LockInv'
  BY <1>1, <1>2, <1>3, <1>8 DEF ListInv, LockInv
<1>13. PositionsInv'
  BY <1>1, <1>6, <1>8, <1>9, <1>10 DEF ListInv, PositionsInv
<1>14. SinksInv'
  <2>1. \A i \in positions' : grace[array'[i].address] = "none" => array'[i].address \in config
    BY <1>6, <1>8, <1>9, <1>10 DEF ListInv, SinksInv
  <2>2. ASSUME NEW a \in (config \ newConfigs) \ Invalid
        PROVE  \E i \in positions' : array'[i].address = a /\ grace[a] = "none"
    <3>1. CASE a = adding.sink.address
      BY <1>6, <1>8, <1>10, <3>1
    <3>2. CASE a # adding.sink.address
      BY <1>9, <1>10, <3>2 DEF ListInv, SinksInv
    <3> QED BY <3>1, <3>2
  <2> QED BY <1>1, <2>1, <2>2 DEF ListInv, SinksInv
<1>15. SlotsInv'
  <2>1. ASSUME NEW i \in DOMAIN array' \ positions'
        PROVE  \/ array'[i] \in stopped' \cup {NoSink}
               \/ \E j \in positions' : array'[j] = array'[i]
    <3>1. i \in DOMAIN array \ positions /\ i # length /\ array'[i] = array[i]
      BY <1>5, <1>8, <1>10, <2>1
    <3> QED BY <1>1, <1>9, <1>10, <3>1 DEF ListInv, SlotsInv
  <2>2. \A i \in 1..length' : array'[i] # NoSink
    BY <1>1, <1>4, <1>6, <1>8, <1>9, <1>10, NoSinkAssumption, ListFacts
  <2> QED BY <2>1, <2>2 DEF SlotsInv
<1> QED BY <1>11, <1>12, <1>13, <1>14, <1>15 DEF ListInv

\* Taking and releasing sinkMutex, and time passing, leave the list alone.
LEMMA LockList ==
    ASSUME ListInv, UpdateDone \/ Tick \/ \E a \in Addresses : GraceEnds(a)
    PROVE  ListInv' /\ positions' = positions
<1>1. /\ arrays' = arrays /\ array' = array /\ length' = length /\ created' = created
      /\ stopped' = stopped /\ config' = config /\ newConfigs' = newConfigs
      /\ adding' = adding /\ reloads' = reloads /\ request' = request /\ got' = got
      /\ expected' = expected /\ disturbed' = disturbed
  BY DEF UpdateDone, Tick, GraceEnds, sinkVars, updateVars, historyVars, array
<1>2. none.stage = "none"
  BY DEF none
<1>3. array \in Seq(Slots) /\ Len(array) \in Nat /\ length \in 0..Len(array)
  BY CurrentArray
<1>4. CASE UpdateDone
  <2>1. lock' = "free" /\ grace' = grace /\ index' = index /\ kept' = kept
        /\ newConfigs = {} /\ adding = none /\ lock = "update"
    BY <1>4 DEF UpdateDone, sinkVars, timeoutVars
  <2>2. positions' = positions
    BY <1>1, <1>2, <2>1 DEF positions
  <2>3. TypeOK' /\ LockInv'
    BY <1>1, <1>2, <2>1 DEF ListInv, TypeOK, LockInv
  <2>4. PositionsInv' /\ SinksInv' /\ SlotsInv'
    BY <1>1, <2>1, <2>2 DEF ListInv, PositionsInv, SinksInv, SlotsInv
  <2> QED BY <2>2, <2>3, <2>4 DEF ListInv
<1>5. CASE Tick
  <2>1. lock = "free" /\ lock' = "timeout" /\ grace' = grace /\ index' = 1 /\ kept' = 0
    BY <1>5 DEF Tick, sinkVars
  <2>2. positions' = (1..0) \cup (1..length)
    BY <1>1, <2>1 DEF positions
  <2>3. positions' = positions
    BY <1>3, <2>1, <2>2, ListFacts
  <2>4. TypeOK'
    <3>1. index' \in 1..(Len(array) + 1) /\ kept' \in 0..(index' - 1)
      BY <1>3, <2>1
    <3> QED BY <1>1, <2>1, <3>1 DEF ListInv, TypeOK
  <2>5. LockInv'
    <3>1. newConfigs = {} /\ adding = none
      BY <2>1 DEF ListInv, LockInv
    <3>2. kept' < index' /\ index' <= length' + 1
      BY <1>1, <1>3, <2>1
    <3> QED BY <1>1, <1>2, <2>1, <3>1, <3>2 DEF ListInv, LockInv
  <2>6. PositionsInv' /\ SinksInv' /\ SlotsInv'
    BY <1>1, <2>1, <2>3 DEF ListInv, PositionsInv, SinksInv, SlotsInv
  <2> QED BY <2>3, <2>4, <2>5, <2>6 DEF ListInv
<1>6. ASSUME NEW a \in Addresses, GraceEnds(a)
      PROVE  ListInv' /\ positions' = positions
  <2>1. /\ grace[a] = "running" /\ grace' = [grace EXCEPT ![a] = "over"] /\ lock' = lock
        /\ index' = index /\ kept' = kept
    BY <1>6 DEF GraceEnds, timeoutVars
  <2>2. positions' = positions
    BY <1>1, <2>1 DEF positions
  <2>3. /\ \A b \in Addresses : grace'[b] = "none" <=> grace[b] = "none"
        /\ grace' \in [Addresses -> {"none", "running", "over"}]
    BY <2>1, ListFacts
  <2>4. TypeOK'
    BY <1>1, <2>1, <2>3 DEF ListInv, TypeOK
  <2>5. LockInv'
    BY <1>1, <2>1, <2>2, <2>3, ListFacts DEF ListInv, LockInv
  <2>6. PositionsInv' /\ SlotsInv'
    BY <1>1, <2>2 DEF ListInv, PositionsInv, SlotsInv
  <2>7. SinksInv'
    BY <1>1, <2>2, <2>3, ListFacts DEF ListInv, SinksInv
  <2> QED BY <2>2, <2>4, <2>5, <2>6, <2>7 DEF ListInv
<1> QED BY <1>4, <1>5, <1>6

\* runTimeout stops a sink whose grace period is over; it is not one of those
\* the configuration wants.
LEMMA RemoveStaleList ==
    ASSUME ListInv, RemoveStale
    PROVE  ListInv'
<1> DEFINE s == array[index]
<1>1. /\ lock = "timeout" /\ index <= length /\ grace[s.address] = "over"
      /\ stopped' = stopped \cup {s} /\ index' = index + 1 /\ kept' = kept
      /\ arrays' = arrays /\ array' = array /\ length' = length /\ lock' = lock
      /\ created' = created /\ grace' = grace /\ config' = config
      /\ newConfigs' = newConfigs /\ adding' = adding /\ reloads' = reloads
      /\ request' = request /\ got' = got /\ expected' = expected
  BY DEF RemoveStale, isStale, updateVars, array
<1>2. /\ length \in Nat /\ index \in Nat /\ kept \in Nat /\ kept < index
      /\ Len(array) \in Nat /\ length <= Len(array)
  BY ListFacts, CurrentArray
<1>3. adding = none /\ newConfigs = {} /\ none.stage = "none"
  BY <1>1 DEF ListInv, LockInv, none
<1>4. positions = (1..kept) \cup (index..length)
  BY <1>1, ListFacts
<1>5. positions' = (1..kept) \cup ((index + 1)..length)
  BY <1>1 DEF positions
<1>6. positions' = positions \ {index} /\ index \in positions
  BY <1>1, <1>2, <1>4, <1>5
<1>7. s \in Sinks /\ s.n = created[s.address] /\ s.address \in Addresses
  BY <1>6, ListFacts DEF ListInv, PositionsInv
<1>8. \A i \in positions' : array[i] \in Sinks /\ array[i].address # s.address /\ array[i] # s
  BY <1>6, ListFacts DEF ListInv, PositionsInv
<1>9. TypeOK'
  <2>1. index' \in 1..(Len(array) + 1) /\ kept' \in 0..(index' - 1)
    BY <1>1, <1>2
  <2>2. disturbed' \in [Requests -> SUBSET {"add", "remove"}]
    BY DEF RemoveStale, disturb, ListInv, TypeOK
  <2> QED BY <1>1, <1>7, <2>1, <2>2 DEF ListInv, TypeOK
<1>10. LockInv'
  <2>1. kept' < index' /\ index' <= length' + 1
    BY <1>1, <1>2
  <2> QED BY <1>1, <1>3, <2>1 DEF ListInv, LockInv
<1>11. PositionsInv'
  BY <1>1, <1>6, <1>8 DEF ListInv, PositionsInv
<1>12. SinksInv'
  <2>1. ASSUME NEW a \in (config \ newConfigs) \ Invalid
        PROVE  \E i \in positions' : array[i].address = a /\ grace[a] = "none"
    <3>1. PICK i \in positions : array[i].address = a /\ grace[a] = "none"
      BY <1>3 DEF ListInv, SinksInv
    <3>2. i # index
      BY <1>1, <3>1
    <3> QED BY <1>6, <3>1, <3>2
  <2>2. \A t \in stopped' : t.n <= created[t.address]
    <3>1. created[s.address] \in Nat
      BY <1>7, ListFacts
    <3>2. s.n <= created[s.address]
      BY <1>7, <3>1
    <3> QED BY <1>1, <3>2 DEF ListInv, SinksInv
  <2> QED BY <1>1, <1>6, <2>1, <2>2 DEF ListInv, SinksInv
<1>13. SlotsInv'
  <2>1. ASSUME NEW i \in DOMAIN array \ positions'
        PROVE  \/ array[i] \in stopped' \cup {NoSink}
               \/ \E j \in positions' : array[j] = array[i]
    <3>1. CASE i = index
      BY <1>1, <3>1
    <3>2. CASE i # index
      BY <1>1, <1>6, <3>2 DEF ListInv, SlotsInv
    <3> QED BY <3>1, <3>2
  <2> QED BY <1>1, <2>1 DEF ListInv, SlotsInv
<1> QED BY <1>9, <1>10, <1>11, <1>12, <1>13 DEF ListInv

\* A store of what the slot already holds changes nothing.
LEMMA SameStore ==
    ASSUME ListInv, NEW k \in 1..Len(array),
           arrays' = [arrays EXCEPT ![Len(arrays)][k] = array[k]]
    PROVE  arrays' = arrays
<1>1. /\ arrays \in Seq(Seq(Slots)) /\ Len(arrays) \in Nat /\ Len(arrays) >= 1
      /\ array \in Seq(Slots) /\ Len(array) \in Nat /\ DOMAIN array = 1..Len(array)
  BY CurrentArray
<1>2. [array EXCEPT ![k] = array[k]] = array
  BY <1>1
<1>3. arrays' = [arrays EXCEPT ![Len(arrays)] = [array EXCEPT ![k] = array[k]]]
  BY DEF array
<1>4. arrays' = [arrays EXCEPT ![Len(arrays)] = array]
  BY <1>2, <1>3
<1> QED BY <1>1, <1>4 DEF array

\* A sink that is kept moves down over slots whose sinks were removed or moved.
LEMMA KeepSinkList ==
    ASSUME ListInv, KeepSink
    PROVE  ListInv'
<1> DEFINE s == array[index]
<1>1. /\ lock = "timeout" /\ index <= length
      /\ arrays' = [arrays EXCEPT ![Len(arrays)][kept + 1] = s]
      /\ stopped' = stopped /\ index' = index + 1 /\ kept' = kept + 1
      /\ length' = length /\ lock' = lock
      /\ created' = created /\ grace' = grace /\ config' = config
      /\ newConfigs' = newConfigs /\ adding' = adding /\ reloads' = reloads
      /\ request' = request /\ got' = got /\ expected' = expected /\ disturbed' = disturbed
  BY DEF KeepSink, updateVars, sinkVars, historyVars
<1>2. /\ length \in Nat /\ index \in Nat /\ kept \in Nat /\ kept < index
      /\ Len(array) \in Nat /\ length <= Len(array) /\ DOMAIN array = 1..Len(array)
  BY ListFacts, CurrentArray
<1>3. adding = none /\ newConfigs = {} /\ none.stage = "none"
  BY <1>1 DEF ListInv, LockInv, none
<1>4. positions = (1..kept) \cup (index..length)
  BY <1>1, ListFacts
<1>5. positions' = (1..(kept + 1)) \cup ((index + 1)..length)
  BY <1>1 DEF positions
<1>6. /\ index \in positions /\ kept + 1 \in positions' /\ kept + 1 \in 1..Len(array)
      /\ index \in 1..Len(array)
      /\ \A i \in positions' : i # kept + 1 => i \in positions /\ i # index
      /\ \A i \in positions : i # index => i \in positions' /\ i # kept + 1
      /\ \A i \in positions : i \in 1..Len(array)
  BY <1>1, <1>2, <1>4, <1>5
<1>7. s \in Sinks /\ s \in Slots /\ s # NoSink
  BY <1>6, ListFacts DEF Slots
<1>8. /\ arrays' \in Seq(Seq(Slots)) /\ Len(arrays') = Len(arrays)
      /\ Len(array') = Len(array) /\ array'[kept + 1] = s
      /\ DOMAIN array' = DOMAIN array
      /\ \A i \in 1..Len(array) : i # kept + 1 => array'[i] = array[i]
  BY <1>1, <1>6, <1>7, Overwrite
<1>9. \A i \in positions' : i = kept + 1 \/ (i \in positions /\ i # index /\ array'[i] = array[i])
  BY <1>6, <1>8
<1>10. \A i \in positions : i # index => i \in positions' /\ array'[i] = array[i]
  BY <1>6, <1>8
<1>11. \A i \in positions : \E j \in positions' : array'[j] = array[i]
  BY <1>6, <1>8, <1>10
<1>12. TypeOK'
  <2>1. index' \in 1..(Len(array') + 1) /\ kept' \in 0..(index' - 1)
    BY <1>1, <1>2, <1>8
  <2> QED BY <1>1, <1>8, <2>1 DEF ListInv, TypeOK, Slots
<1>13. LockInv'
  <2>1. kept' < index' /\ index' <= length' + 1
    BY <1>1, <1>2
  <2> QED BY <1>1, <1>3, <1>8, <2>1 DEF ListInv, LockInv
<1>14. PositionsInv'
  <2>1. \A i \in positions' : \E j \in positions : /\ array'[i] = array[j]
                                                   /\ i = kept + 1 => j = index
                                                   /\ i # kept + 1 => j = i /\ j # index
    BY <1>6, <1>8, <1>9
  <2>2. \A i \in positions' : /\ array'[i] \in Sinks \ stopped'
                              /\ array'[i].n = created'[array'[i].address]
                              /\ array'[i].address \notin newConfigs' \cup Invalid
    BY <1>1, <2>1 DEF ListInv, PositionsInv
  <2>3. \A i, j \in positions' : array'[i].address = array'[j].address => i = j
    BY <2>1 DEF ListInv, PositionsInv
  <2> QED BY <2>2, <2>3 DEF PositionsInv
<1>15. SinksInv'
  <2>1. \A i \in positions' : grace'[array'[i].address] = "none" => array'[i].address \in config'
    BY <1>1, <1>6, <1>8, <1>9 DEF ListInv, SinksInv
  <2>2. \A a \in (config \ newConfigs) \ Invalid :
           \E i \in positions' : array'[i].address = a /\ grace[a] = "none"
    BY <1>3, <1>11 DEF ListInv, SinksInv
  <2> QED BY <1>1, <2>1, <2>2 DEF ListInv, SinksInv
<1>16. SlotsInv'
  <2>1. ASSUME NEW i \in DOMAIN array' \ positions'
        PROVE  \/ array'[i] \in stopped' \cup {NoSink}
               \/ \E j \in positions' : array'[j] = array'[i]
    <3>1. array'[i] = array[i] /\ i \in DOMAIN array
      BY <1>2, <1>6, <1>8
    <3>2. CASE i = index
      BY <1>6, <1>11, <3>1, <3>2
    <3>3. CASE i # index
      <4>1. i \in DOMAIN array \ positions
        BY <1>10, <3>1, <3>3
      <4>2. \/ array[i] \in stopped \cup {NoSink}
            \/ \E j \in positions : array[j] = array[i]
        BY <4>1 DEF ListInv, SlotsInv
      <4> QED BY <1>1, <1>11, <3>1, <4>2
    <3> QED BY <3>2, <3>3
  <2>2. \A i \in 1..length' : array'[i] # NoSink
    <3>1. \A i \in 1..length : array[i] # NoSink
      BY <1>3 DEF ListInv, SlotsInv
    <3> QED BY <1>1, <1>2, <1>7, <1>8, <3>1
  <2> QED BY <2>1, <2>2 DEF SlotsInv
<1> QED BY <1>12, <1>13, <1>14, <1>15, <1>16 DEF ListInv

\* The list becomes what was kept.
LEMMA TickDoneList ==
    ASSUME ListInv, TickDone
    PROVE  ListInv' /\ positions' = positions
<1>1. /\ lock = "timeout" /\ index > length /\ length' = kept /\ lock' = "free"
      /\ arrays' = arrays /\ array' = array
      /\ created' = created /\ grace' = grace /\ stopped' = stopped /\ config' = config
      /\ newConfigs' = newConfigs /\ adding' = adding /\ reloads' = reloads
      /\ index' = index /\ kept' = kept
      /\ request' = request /\ got' = got /\ expected' = expected /\ disturbed' = disturbed
  BY DEF TickDone, sinkVars, updateVars, timeoutVars, historyVars, array
<1>2. /\ length \in Nat /\ index \in Nat /\ kept \in Nat /\ kept < index
      /\ Len(array) \in Nat /\ length <= Len(array) /\ index <= length + 1
  BY <1>1, ListFacts, CurrentArray DEF ListInv, LockInv
<1>3. adding = none /\ newConfigs = {} /\ none.stage = "none"
  BY <1>1 DEF ListInv, LockInv, none
<1>4. positions = (1..kept) \cup (index..length)
  BY <1>1, ListFacts
<1>5. positions' = 1..kept
  BY <1>1, <1>3 DEF positions
<1>6. positions' = positions
  BY <1>1, <1>2, <1>4, <1>5
<1>7. TypeOK'
  <2>1. length' \in 0..Len(array)
    BY <1>1, <1>2
  <2> QED BY <1>1, <2>1 DEF ListInv, TypeOK
<1>8. LockInv'
  BY <1>1, <1>3 DEF ListInv, LockInv
<1>9. PositionsInv' /\ SinksInv'
  BY <1>1, <1>6 DEF ListInv, PositionsInv, SinksInv
<1>10. SlotsInv'
  <2>1. \A i \in 1..length' : i \in 1..length
    BY <1>1, <1>2
  <2> QED BY <1>1, <1>3, <1>6, <2>1 DEF ListInv, SlotsInv
<1> QED BY <1>6, <1>7, <1>8, <1>9, <1>10 DEF ListInv

\* A walk finds a slot of the array it has read, or is behind its end.
LEMMA Slot ==
    ASSUME ListInv, NEW r \in Requests, ReadInv(r), request[r].pc = "walk"
    PROVE  /\ slot(r) \in Slots
           /\ request[r].array \in 1..Len(arrays) /\ request[r].next \in Nat
           /\ request[r].next \in 1..Len(arrays[request[r].array]) =>
                  slot(r) = arrays[request[r].array][request[r].next]
<1> DEFINE k == request[r].array
           n == request[r].next
<1>1. k \in 0..Len(arrays) /\ n \in Nat /\ k > 0 /\ n >= 1
  BY DEF ListInv, TypeOK, ReadInv
<1>2. k \in 1..Len(arrays)
  BY <1>1, CurrentArray
<1>3. arrays[k] \in Seq(Slots)
  BY <1>2, CurrentArray
<1>4. slot(r) = IF n <= Len(arrays[k]) THEN arrays[k][n] ELSE NoSink
  BY DEF slot
<1> HIDE DEF k, n
<1>5. slot(r) \in Slots
  BY <1>1, <1>3, <1>4 DEF Slots
<1>6. n \in 1..Len(arrays[k]) => slot(r) = arrays[k][n]
  BY <1>1, <1>3, <1>4
<1> QED BY <1>1, <1>2, <1>5, <1>6 DEF k, n

\* HandleUpload only reads the list.
LEMMA HandleUploadList ==
    ASSUME ListInv, NEW r \in Requests, ReadInv(r), HandleUpload(r)
    PROVE  ListInv' /\ positions' = positions
<1>1. /\ arrays' = arrays /\ array' = array /\ length' = length /\ lock' = lock
      /\ created' = created /\ grace' = grace /\ stopped' = stopped /\ config' = config
      /\ newConfigs' = newConfigs /\ adding' = adding /\ reloads' = reloads
      /\ index' = index /\ kept' = kept
  BY DEF HandleUpload, Begin, ReadArray, ReadLength, HandOver, Panic, Answer, sinkVars,
         updateVars, timeoutVars, array
<1>2. positions' = positions
  BY <1>1 DEF positions
<1>3. LockInv' /\ PositionsInv' /\ SinksInv' /\ SlotsInv'
  BY <1>1, <1>2 DEF ListInv, LockInv, PositionsInv, SinksInv, SlotsInv
<1> DEFINE Walks == [pc: {"idle", "read", "walk", "panic", "answered"},
                     array: 0..Len(arrays), length: Int, next: Nat]
<1>4. /\ request \in [Requests -> Walks] /\ got \in [Requests -> Seq(Sinks)]
      /\ expected \in [Requests -> SUBSET Sinks]
      /\ disturbed \in [Requests -> SUBSET {"add", "remove"}]
  BY DEF ListInv, TypeOK
<1>5. Len(arrays) \in Nat /\ Len(arrays) >= 1 /\ arrays \in Seq(Seq(Slots)) /\ length \in Nat
  BY CurrentArray, ListFacts
<1>6. \A pc \in {"idle", "read", "walk", "panic", "answered"} : [idle EXCEPT !.pc = pc] \in Walks
  BY <1>5 DEF idle
<1>7. /\ request' \in [Requests -> Walks] /\ got' \in [Requests -> Seq(Sinks)]
      /\ expected' \in [Requests -> SUBSET Sinks]
      /\ disturbed' \in [Requests -> SUBSET {"add", "remove"}]
  <2>1. CASE Begin(r)
    <3>1. listed \subseteq Sinks
      <4>1. \A i \in 1..length : array[i] \in Slots
        BY CurrentArray
      <4> QED BY <4>1 DEF listed, Slots
    <3>2. request' \in [Requests -> Walks]
      BY <1>4, <1>6, <2>1 DEF Begin
    <3> QED BY <1>4, <2>1, <3>1, <3>2 DEF Begin
  <2>2. CASE ReadArray(r)
    <3>1. request[r] \in Walks /\ Len(arrays) \in 0..Len(arrays)
      BY <1>4, <1>5
    <3>2. request' \in [Requests -> Walks]
      BY <1>4, <2>2, <3>1 DEF ReadArray
    <3> QED BY <1>4, <2>2, <3>2 DEF ReadArray, historyVars
  <2>3. CASE ReadLength(r)
    <3>1. request[r] \in Walks /\ length \in Int
      BY <1>4, <1>5
    <3>2. request' \in [Requests -> Walks]
      BY <1>4, <2>3, <3>1 DEF ReadLength
    <3> QED BY <1>4, <2>3, <3>2 DEF ReadLength, historyVars
  <2>4. CASE HandOver(r)
    <3>1. request[r] \in Walks
      BY <1>4
    <3>2. request' \in [Requests -> Walks]
      <4>1. request[r].next + 1 \in Nat
        BY <3>1
      <4>2. request' = [request EXCEPT ![r] = [request[r] EXCEPT !.next = request[r].next + 1]]
        BY <1>4, <2>4 DEF HandOver
      <4>3. [request[r] EXCEPT !.next = request[r].next + 1] \in Walks
        BY <3>1, <4>1
      <4> QED BY <1>4, <4>2, <4>3
    <3>3. slot(r) # NoSink
      BY <2>4 DEF HandOver
    <3>4. slot(r) \in Sinks
      BY <2>4, <3>3, Slot DEF HandOver, Slots
    <3>5. got' \in [Requests -> Seq(Sinks)]
      BY <1>4, <2>4, <3>4 DEF HandOver
    <3> QED BY <1>4, <2>4, <3>2, <3>5 DEF HandOver
  <2>5. CASE Panic(r) \/ Answer(r)
    <3>1. request' \in [Requests -> Walks]
      BY <1>4, <1>6, <2>5 DEF Panic, Answer
    <3> QED BY <1>4, <2>5, <3>1 DEF Panic, Answer, historyVars
  <2> QED BY <2>1, <2>2, <2>3, <2>4, <2>5 DEF HandleUpload
<1>8. TypeOK'
  BY <1>1, <1>7 DEF ListInv, TypeOK
<1> QED BY <1>2, <1>3, <1>8 DEF ListInv

\* UpdateConfig, runTimeout and the clock leave the requests alone.
LEMMA ListSteps ==
    ASSUME Reload \/ UpdateStep \/ Tick \/ TimeoutStep \/ \E a \in Addresses : GraceEnds(a)
    PROVE  request' = request /\ got' = got /\ expected' = expected
<1>1. CASE Reload
  BY <1>1 DEF Reload, UpdateConfig, historyVars
<1>2. CASE UpdateStep
  BY <1>2 DEF UpdateStep, NewSinkFails, NewSink, AppendLength, AppendElement, UpdateDone,
              historyVars
<1>3. CASE Tick \/ TimeoutStep
  BY <1>3 DEF Tick, TimeoutStep, RemoveStale, KeepSink, TickDone, historyVars
<1>4. CASE \E a \in Addresses : GraceEnds(a)
  BY <1>4 DEF GraceEnds, historyVars
<1> QED BY <1>1, <1>2, <1>3, <1>4

\* A step of one request leaves the others alone.
LEMMA OtherRequests ==
    ASSUME ListInv, NEW r \in Requests, HandleUpload(r), NEW q \in Requests \ {r}
    PROVE  /\ request'[q] = request[q] /\ got'[q] = got[q]
           /\ expected'[q] = expected[q] /\ disturbed'[q] = disturbed[q]
<1>1. CASE Begin(r)
  BY <1>1 DEF Begin, ListInv, TypeOK
<1>2. CASE ReadArray(r) \/ ReadLength(r)
  BY <1>2 DEF ReadArray, ReadLength, historyVars, ListInv, TypeOK
<1>3. CASE HandOver(r) \/ Panic(r) \/ Answer(r)
  BY <1>3 DEF HandOver, Panic, Answer, historyVars, ListInv, TypeOK
<1> QED BY <1>1, <1>2, <1>3 DEF HandleUpload

\* What a step of HandleUpload makes of the request's own state.
LEMMA RequestSteps ==
    ASSUME ListInv, NEW r \in Requests
    PROVE  /\ Begin(r) => request'[r] = [idle EXCEPT !.pc = "read"] /\ got'[r] = <<>>
           /\ ReadArray(r) =>
                 /\ request'[r] = [request[r] EXCEPT !.array = Len(arrays),
                                      !.pc = IF request[r].length >= 0 THEN "walk" ELSE @]
                 /\ got'[r] = got[r]
           /\ ReadLength(r) =>
                 /\ request'[r] = [request[r] EXCEPT !.length = length,
                                      !.pc = IF request[r].array > 0 THEN "walk" ELSE @]
                 /\ got'[r] = got[r]
           /\ HandOver(r) => /\ request'[r] = [request[r] EXCEPT !.next = @ + 1]
                             /\ got'[r] = Append(got[r], slot(r))
           /\ Panic(r) => request'[r] = [idle EXCEPT !.pc = "panic"] /\ got'[r] = got[r]
           /\ Answer(r) => request'[r] = [idle EXCEPT !.pc = "answered"] /\ got'[r] = got[r]
<1>1. DOMAIN request = Requests /\ DOMAIN got = Requests
  BY DEF ListInv, TypeOK
<1> QED BY <1>1 DEF Begin, ReadArray, ReadLength, HandOver, Panic, Answer, historyVars

\* A request reads array and length before it walks.
LEMMA ReadStep ==
    ASSUME ListInv, NEW r \in Requests, ReadInv(r), HandleUpload(r)
    PROVE  ReadInv(r)'
<1>1. /\ request[r] \in [pc: {"idle", "read", "walk", "panic", "answered"},
                         array: 0..Len(arrays), length: Int, next: Nat]
      /\ Len(arrays) \in Nat /\ Len(arrays) >= 1 /\ length \in Nat
  BY CurrentArray, ListFacts DEF ListInv, TypeOK
<1>2. CASE Begin(r) \/ Panic(r) \/ Answer(r)
  <2>1. \/ request'[r] = [idle EXCEPT !.pc = "read"] /\ got'[r] = <<>>
        \/ request'[r] = [idle EXCEPT !.pc = "panic"]
        \/ request'[r] = [idle EXCEPT !.pc = "answered"]
    BY <1>2, RequestSteps
  <2>2. /\ request'[r].array = 0 /\ request'[r].length = -1 /\ request'[r].next = 1
        /\ request'[r].pc # "walk" /\ (request'[r].pc = "read" => got'[r] = <<>>)
    BY <2>1 DEF idle
  <2> QED BY <2>2 DEF ReadInv
<1>3. CASE ReadArray(r)
  <2>1. request[r].pc = "read" /\ request[r].array = 0
    BY <1>3 DEF ReadArray
  <2>2. /\ request'[r].array = Len(arrays) /\ request'[r].length = request[r].length
        /\ request'[r].next = request[r].next /\ got'[r] = got[r]
        /\ request'[r].pc = IF request[r].length >= 0 THEN "walk" ELSE "read"
    BY <1>1, <1>3, <2>1, RequestSteps
  <2> QED BY <1>1, <2>1, <2>2 DEF ReadInv
<1>4. CASE ReadLength(r)
  <2>1. request[r].pc = "read" /\ request[r].length = -1
    BY <1>4 DEF ReadLength
  <2>2. /\ request'[r].length = length /\ request'[r].array = request[r].array
        /\ request'[r].next = request[r].next /\ got'[r] = got[r]
        /\ request'[r].pc = IF request[r].array > 0 THEN "walk" ELSE "read"
    <3>1. request'[r] = [request[r] EXCEPT !.length = length,
                            !.pc = IF request[r].array > 0 THEN "walk" ELSE "read"]
      BY <1>4, <2>1, RequestSteps
    <3>2. got'[r] = got[r]
      BY <1>4, RequestSteps
    <3> QED BY <1>1, <3>1, <3>2
  <2> QED BY <1>1, <2>1, <2>2 DEF ReadInv
<1>5. CASE HandOver(r)
  <2>1. request[r].pc = "walk"
    BY <1>5 DEF HandOver
  <2>2. /\ request'[r].array = request[r].array /\ request'[r].length = request[r].length
        /\ request'[r].next = request[r].next + 1 /\ request'[r].pc = "walk"
    <3>1. request'[r] = [request[r] EXCEPT !.next = request[r].next + 1]
      BY <1>5, RequestSteps
    <3> QED BY <1>1, <2>1, <3>1
  <2> QED BY <1>1, <2>1, <2>2 DEF ReadInv
<1> QED BY <1>2, <1>3, <1>4, <1>5 DEF HandleUpload

ReadsInv == \A r \in Requests : ReadInv(r)

\* The list and the requests' copies of it keep their shape under every step.
LEMMA Invariant == Spec => [](ListInv /\ ReadsInv)
<1>1. Init => ListInv /\ ReadsInv
  <2> SUFFICES ASSUME Init PROVE ListInv /\ ReadsInv
    OBVIOUS
  <2>1. /\ config = {} /\ arrays = << <<>> >> /\ length = 0 /\ stopped = {} /\ lock = "free"
        /\ newConfigs = {} /\ adding = none /\ index = 1 /\ kept = 0 /\ reloads = 0
        /\ created = [a \in Addresses |-> 0] /\ grace = [a \in Addresses |-> "none"]
        /\ request = [r \in Requests |-> idle] /\ got = [r \in Requests |-> <<>>]
        /\ expected = [r \in Requests |-> {}] /\ disturbed = [r \in Requests |-> {}]
    BY DEF Init
  <2>2. array = <<>> /\ Len(array) = 0 /\ Len(arrays) = 1 /\ DOMAIN array = {}
    <3>1. Len(arrays) = 1 /\ arrays[1] = <<>>
      BY <2>1
    <3>2. array = <<>>
      BY <3>1 DEF array
    <3>3. Len(array) = 0 /\ array \in Seq({})
      BY <3>2
    <3> QED BY <3>1, <3>2, <3>3
  <2>3. none.stage = "none"
        /\ none \in [sink: Sinks \cup {NoSink}, stage: {"none", "length", "element"}]
    BY DEF none
  <2>4. positions = {}
    <3>1. positions = 1..0
      BY <2>1, <2>3 DEF positions
    <3> QED BY <3>1
  <2>5. TypeOK
    <3>1. arrays \in Seq(Seq(Sinks \cup {NoSink}))
      BY <2>1
    <3>2. length \in 0..Len(array) /\ index \in 1..(Len(array) + 1) /\ kept \in 0..(index - 1)
      BY <2>1, <2>2
    <3>3. idle \in [pc: {"idle", "read", "walk", "panic", "answered"},
                    array: 0..Len(arrays), length: Int, next: Nat]
      BY <2>2 DEF idle
    <3>4. reloads \in 0..MaxReloads
      BY <2>1, MaxReloadsAssumption
    <3>5. <<>> \in Seq(Sinks)
      OBVIOUS
    <3> QED BY <2>1, <2>3, <3>1, <3>2, <3>3, <3>4, <3>5 DEF TypeOK
  <2>6. LockInv
    BY <2>1, <2>2, <2>3 DEF LockInv
  <2>7. PositionsInv /\ SinksInv /\ SlotsInv
    BY <2>1, <2>2, <2>4 DEF PositionsInv, SinksInv, SlotsInv
  <2>8. ReadsInv
    BY <2>1 DEF ReadsInv, ReadInv, idle
  <2> QED BY <2>5, <2>6, <2>7, <2>8 DEF ListInv
<1>2. ListInv /\ ReadsInv /\ [Next]_vars => (ListInv /\ ReadsInv)'
  <2> SUFFICES ASSUME ListInv, ReadsInv, [Next]_vars PROVE ListInv' /\ ReadsInv'
    OBVIOUS
  <2>1. CASE Reload
    BY <2>1, UpdateConfigList, ListSteps DEF Reload, ReadsInv, ReadInv
  <2>2. CASE UpdateStep
    <3>1. ListInv'
      BY <2>2, NewSinkFailsList, NewSinkList, AppendLengthList, AppendElementList, LockList
         DEF UpdateStep
    <3> QED BY <2>2, <3>1, ListSteps DEF ReadsInv, ReadInv
  <2>3. CASE Tick \/ TimeoutStep \/ \E a \in Addresses : GraceEnds(a)
    <3>1. ListInv'
      BY <2>3, LockList, RemoveStaleList, KeepSinkList, TickDoneList DEF TimeoutStep
    <3> QED BY <2>3, <3>1, ListSteps DEF ReadsInv, ReadInv
  <2>4. ASSUME NEW r \in Requests, HandleUpload(r) PROVE ListInv' /\ ReadsInv'
    <3>1. ListInv' /\ ReadInv(r)'
      BY <2>4, HandleUploadList, ReadStep DEF ReadsInv
    <3>2. \A q \in Requests \ {r} : ReadInv(q)'
      BY <2>4, OtherRequests DEF ReadsInv, ReadInv
    <3> QED BY <3>1, <3>2 DEF ReadsInv
  <2>5. CASE UNCHANGED vars
    <3>1. ListInv'
      BY <2>5 DEF vars, sinkVars, updateVars, timeoutVars, historyVars, ListInv, TypeOK, LockInv,
                  PositionsInv, SinksInv, SlotsInv, positions, array
    <3> QED BY <2>5, <3>1 DEF vars, historyVars, ReadsInv, ReadInv
  <2> QED BY <2>1, <2>2, <2>3, <2>4, <2>5 DEF Next
<1> QED BY <1>1, <1>2, PTL DEF Spec

\* Proxy, sinks and requests keep their types, and no step leaves a list that
\* is longer than its array.
THEOREM TypeCorrect == Spec => []TypeOK
<1>1. ListInv /\ ReadsInv => TypeOK
  BY DEF ListInv
<1> QED BY <1>1, Invariant, PTL

\* However configurations, compactions and grace periods follow each other:
\* whenever sinkMutex is free the list holds exactly one running sink for every
\* valid address of the configuration, and apart from those only sinks in
\* their grace period.
THEOREM ConfigIsFollowed == Spec => []ListFollowsConfig
<1>1. ListInv /\ ReadsInv => ListFollowsConfig
  <2> SUFFICES ASSUME ListInv, lock = "free" PROVE ListFollowsConfig
    BY DEF ListFollowsConfig
  <2>1. positions = 1..length /\ adding.stage = "none" /\ newConfigs = {}
    BY ListFacts DEF ListInv, LockInv, none
  <2>2. \A i \in 1..length : /\ array[i] \in Sinks /\ array[i] # NoSink
                             /\ array[i] \notin stopped
                             /\ array[i].n = created[array[i].address]
                             /\ array[i].address \notin Invalid
    BY <2>1, ListFacts DEF ListInv, PositionsInv
  <2>3. \A i, j \in 1..length : array[i].address = array[j].address => i = j
    BY <2>1 DEF ListInv, PositionsInv
  <2>4. listed = {array[i] : i \in 1..length}
    BY <2>2 DEF listed
  <2>5. \A i \in 1..length : grace[array[i].address] = "none" => array[i].address \in config \ Invalid
    BY <2>1, <2>2 DEF ListInv, SinksInv
  <2>6. \A a \in config \ Invalid : \E i \in 1..length : array[i].address = a /\ grace[a] = "none"
    BY <2>1 DEF ListInv, SinksInv
  <2>7. {s.address : s \in {t \in listed : grace[t.address] = "none"}} = config \ Invalid
    BY <2>4, <2>5, <2>6
  <2>8. \A s \in listed : s \notin stopped /\ s.n = created[s.address]
    BY <2>2, <2>4
  <2> DEFINE list == [i \in 1..length |-> array[i]]
  <2>9. NoSink \notin Range(list)
    BY <2>2 DEF Range
  <2>10. \A i, j \in 1..length : list[i].address = list[j].address => i = j
    BY <2>3
  <2> QED BY <2>7, <2>8, <2>9, <2>10 DEF ListFollowsConfig
<1> QED BY <1>1, Invariant, PTL

(***************************************************************************)
(* What a request that walks the list without the lock finds there.        *)
(***************************************************************************)
\* The array it walks, or would walk, and how far.
sees(r) == IF request[r].array = 0 THEN Len(arrays) ELSE request[r].array
upTo(r) == IF request[r].length = -1 THEN length ELSE request[r].length

\* As long as no sink is removed: the sinks it must serve are ahead of it or
\* have the upload; in the current array they are where no store reaches them.
FoundInv(r) ==
    /\ lock = "timeout" => kept + 1 = index
    /\ \A s \in expected[r] : \E i \in 1..upTo(r) :
          /\ i \in DOMAIN arrays[sees(r)] /\ arrays[sees(r)][i] = s
          /\ sees(r) = Len(arrays) => i \in positions
          /\ i < request[r].next => s \in Range(got[r])

\* As long as no sink is added while it reads: every slot it visits is written.
WrittenInv(r) ==
    /\ request[r].pc = "read" => adding = none
    /\ \A i \in 1..upTo(r) : i \in DOMAIN arrays[sees(r)] /\ arrays[sees(r)][i] # NoSink

\* As long as neither happens: it visits every sink once.
OnceInv(r) ==
    /\ sees(r) = Len(arrays) => 1..upTo(r) \subseteq positions
    /\ \A i, j \in 1..upTo(r) : arrays[sees(r)][i] = arrays[sees(r)][j] => i = j
    /\ Len(got[r]) = request[r].next - 1
    /\ request[r].next <= upTo(r) + 1
    /\ \A j \in 1..Len(got[r]) : got[r][j] = arrays[sees(r)][j]

WalkInv(r) ==
    active(r) => /\ "remove" \notin disturbed[r] => FoundInv(r)
                 /\ "add" \notin disturbed[r] => WrittenInv(r)
                 /\ disturbed[r] = {} => OnceInv(r)

\* Types of what a request has read.
LEMMA WalkFacts ==
    ASSUME ListInv, NEW r \in Requests, ReadInv(r)
    PROVE  /\ request[r] \in [pc: {"idle", "read", "walk", "panic", "answered"},
                              array: 0..Len(arrays), length: Int, next: Nat]
           /\ request[r].array \in 0..Len(arrays) /\ request[r].length \in Int
           /\ request[r].next \in Nat
           /\ sees(r) \in 1..Len(arrays) /\ upTo(r) \in Nat
           /\ sees(r) = Len(arrays) => arrays[sees(r)] = array
           /\ got[r] \in Seq(Sinks) /\ disturbed[r] \subseteq {"add", "remove"}
<1>1. /\ request[r] \in [pc: {"idle", "read", "walk", "panic", "answered"},
                         array: 0..Len(arrays), length: Int, next: Nat]
      /\ got[r] \in Seq(Sinks) /\ disturbed[r] \subseteq {"add", "remove"}
  BY DEF ListInv, TypeOK
<1>2. request[r].array \in 0..Len(arrays) /\ request[r].length \in Int /\ request[r].next \in Nat
  BY <1>1
<1>3. Len(arrays) \in Nat /\ Len(arrays) >= 1 /\ length \in Nat
  BY CurrentArray, ListFacts
<1>4. request[r].length >= -1
  BY DEF ReadInv
<1>5. sees(r) \in 1..Len(arrays)
  BY <1>2, <1>3 DEF sees
<1>6. upTo(r) \in Nat
  BY <1>2, <1>3, <1>4 DEF upTo
<1> QED BY <1>1, <1>2, <1>5, <1>6 DEF array

\* Steps that leave the list where the request sees it.
LEMMA Quiet ==
    ASSUME NEW r \in Requests, WalkInv(r),
           request'[r] = request[r], got'[r] = got[r], expected'[r] = expected[r],
           disturbed[r] \subseteq disturbed'[r], arrays' = arrays, length' = length,
           adding' = adding \/ adding' = none,
           active(r) /\ "remove" \notin disturbed'[r] =>
               positions' = positions /\ (lock' = "timeout" => kept' + 1 = index')
    PROVE  WalkInv(r)'
<1> SUFFICES ASSUME active(r) PROVE WalkInv(r)'
  BY DEF WalkInv, active
<1>1. sees(r)' = sees(r) /\ upTo(r)' = upTo(r)
  BY DEF sees, upTo
<1>2. "remove" \notin disturbed'[r] => FoundInv(r)'
  BY <1>1 DEF WalkInv, FoundInv
<1>3. "add" \notin disturbed'[r] => WrittenInv(r)'
  BY <1>1 DEF WalkInv, WrittenInv
<1>4. disturbed'[r] = {} => OnceInv(r)'
  BY <1>1 DEF WalkInv, OnceInv
<1> QED BY <1>2, <1>3, <1>4 DEF WalkInv

\* append before it stores the sink: the sinks of the list stay where they are,
\* in every array a request may have read.
LEMMA Extended ==
    ASSUME ListInv, ListInv', NEW r \in Requests, ReadInv(r), WalkInv(r),
           request'[r] = request[r], got'[r] = got[r], expected'[r] = expected[r],
           disturbed[r] \subseteq disturbed'[r],
           request[r].pc = "read" => "add" \in disturbed'[r],
           lock' = "update", length' >= length, positions' = positions,
           Len(arrays') >= Len(arrays),
           \A m \in 1..Len(arrays) : arrays'[m] = arrays[m],
           \A i \in 1..Len(array) : i \in DOMAIN array' /\ array'[i] = array[i]
    PROVE  WalkInv(r)'
<1> SUFFICES ASSUME active(r) PROVE WalkInv(r)'
  BY DEF WalkInv, active
<1>1. /\ request[r].array \in 0..Len(arrays) /\ request[r].length \in Int
      /\ sees(r) \in 1..Len(arrays) /\ upTo(r) \in Nat
      /\ (sees(r) = Len(arrays) => arrays[sees(r)] = array)
      /\ length \in Nat /\ Len(arrays) \in Nat /\ Len(arrays) >= 1 /\ positions \subseteq 1..Len(array)
  <2>1. length \in 0..Len(array) /\ positions \subseteq 1..length /\ Len(array) \in Nat
    BY CurrentArray
  <2>2. positions \subseteq 1..Len(array)
    BY <2>1
  <2> QED BY <2>1, <2>2, WalkFacts, CurrentArray
<1>2. length' \in Nat /\ Len(arrays') \in Nat /\ array' = arrays'[Len(arrays')]
  <2>1. arrays' \in Seq(Seq(Slots)) /\ Len(arrays') >= 1 /\ length' \in 0..Len(array')
    BY DEF ListInv, TypeOK, LockInv, Slots
  <2>2. Len(arrays') \in Nat /\ array' = arrays'[Len(arrays')] /\ array' \in Seq(Slots)
    BY <2>1 DEF array
  <2> QED BY <2>1, <2>2
<1>3. upTo(r)' \in Nat /\ upTo(r)' >= upTo(r)
  BY <1>1, <1>2 DEF upTo
<1>4. "remove" \notin disturbed'[r] => FoundInv(r)'
  <2> SUFFICES ASSUME "remove" \notin disturbed'[r], NEW s \in expected[r]
               PROVE  \E i \in 1..(upTo(r)') :
                         /\ i \in DOMAIN arrays'[sees(r)'] /\ arrays'[sees(r)'][i] = s
                         /\ sees(r)' = Len(arrays') => i \in positions'
                         /\ i < request'[r].next => s \in Range(got'[r])
    BY DEF FoundInv
  <2>1. PICK i \in 1..upTo(r) : /\ i \in DOMAIN arrays[sees(r)] /\ arrays[sees(r)][i] = s
                                /\ sees(r) = Len(arrays) => i \in positions
                                /\ i < request[r].next => s \in Range(got[r])
    BY DEF WalkInv, FoundInv
  <2>2. i \in 1..(upTo(r)')
    BY <1>1, <1>3
  <2>3. CASE request[r].array = 0
    <3>1. sees(r) = Len(arrays) /\ sees(r)' = Len(arrays')
      BY <2>3 DEF sees
    <3>2. i \in positions /\ array[i] = s
      BY <1>1, <2>1, <3>1
    <3>3. i \in DOMAIN array' /\ array'[i] = s
      BY <1>1, <3>2
    <3> QED BY <1>2, <2>1, <2>2, <3>1, <3>2, <3>3
  <2>4. CASE request[r].array # 0
    <3>1. sees(r)' = sees(r) /\ arrays'[sees(r)] = arrays[sees(r)]
      BY <1>1, <2>4 DEF sees
    <3>2. sees(r)' = Len(arrays') => sees(r) = Len(arrays)
      BY <1>1, <1>2, <3>1
    <3> QED BY <2>1, <2>2, <3>1, <3>2
  <2> QED BY <2>3, <2>4
<1>5. CASE "add" \notin disturbed'[r]
  <2>1. request[r].pc = "walk" /\ "add" \notin disturbed[r]
    BY <1>5 DEF active
  <2>2. sees(r)' = sees(r) /\ upTo(r)' = upTo(r) /\ arrays'[sees(r)] = arrays[sees(r)]
    <3>1. request[r].array > 0 /\ request[r].length >= 0
      BY <2>1 DEF ReadInv
    <3>2. request[r].array # 0 /\ request[r].length # -1
      BY <1>1, <3>1
    <3> QED BY <1>1, <3>2 DEF sees, upTo
  <2>3. sees(r)' = Len(arrays') => sees(r) = Len(arrays)
    BY <1>1, <1>2, <2>2
  <2>4. WrittenInv(r)'
    BY <2>1, <2>2 DEF WalkInv, WrittenInv
  <2>5. disturbed'[r] = {} => OnceInv(r)'
    BY <2>1, <2>2, <2>3 DEF WalkInv, OnceInv
  <2> QED BY <1>4, <2>4, <2>5 DEF WalkInv
<1> QED BY <1>4, <1>5 DEF WalkInv

\* append stores the sink behind the sinks of the list, in the current array.
LEMMA StoredBehind ==
    ASSUME ListInv, AppendElement, NEW r \in Requests, ReadInv(r), WalkInv(r)
    PROVE  WalkInv(r)'
<1> SUFFICES ASSUME active(r) PROVE WalkInv(r)'
  BY DEF WalkInv, active, AppendElement
<1>1. /\ adding.stage = "element" /\ adding' = none /\ length' = length /\ lock' = lock
      /\ arrays' = [arrays EXCEPT ![Len(arrays)][length] = adding.sink]
      /\ request' = request /\ got' = got /\ expected' = expected /\ disturbed' = disturbed
  BY DEF AppendElement, historyVars
<1>2. /\ length \in Nat /\ length >= 1 /\ Len(array) \in Nat /\ length \in 1..Len(array)
      /\ lock = "update" /\ positions = 1..(length - 1) /\ DOMAIN array = 1..Len(array)
  BY <1>1, CurrentArray, ListFacts DEF ListInv, LockInv
<1>3. adding.sink \in Slots /\ adding.sink # NoSink
  BY <1>1, NoSinkAssumption DEF ListInv, LockInv, Slots
<1>4. /\ Len(arrays') = Len(arrays) /\ array'[length] = adding.sink /\ DOMAIN array' = DOMAIN array
      /\ \A i \in 1..Len(array) : i # length => array'[i] = array[i]
      /\ \A m \in 1..Len(arrays) : m # Len(arrays) => arrays'[m] = arrays[m]
  BY <1>1, <1>2, <1>3, Overwrite
<1>5. sees(r)' = sees(r) /\ upTo(r)' = upTo(r)
  BY <1>1, <1>4 DEF sees, upTo
<1>6. /\ sees(r) \in 1..Len(arrays) /\ upTo(r) \in Nat
      /\ (sees(r) = Len(arrays) => arrays[sees(r)] = array /\ arrays'[sees(r)] = array')
      /\ (sees(r) # Len(arrays) => arrays'[sees(r)] = arrays[sees(r)])
  <2>1. array' = arrays'[Len(arrays)]
    BY <1>4 DEF array
  <2> QED BY <1>4, <2>1, WalkFacts
<1>7. positions' = 1..length /\ positions \subseteq positions'
  <2>1. none.stage = "none"
    BY DEF none
  <2> QED BY <1>1, <1>2, <2>1 DEF positions
<1>8. \A i \in positions : i \in 1..Len(array) /\ i # length /\ array'[i] = array[i]
  BY <1>2, <1>4
<1>9. "remove" \notin disturbed[r] => FoundInv(r)'
  <2> SUFFICES ASSUME "remove" \notin disturbed[r], NEW s \in expected[r]
               PROVE  \E i \in 1..upTo(r) :
                         /\ i \in DOMAIN arrays'[sees(r)] /\ arrays'[sees(r)][i] = s
                         /\ sees(r) = Len(arrays) => i \in positions'
                         /\ i < request[r].next => s \in Range(got[r])
    BY <1>1, <1>2, <1>4, <1>5 DEF FoundInv
  <2>1. PICK i \in 1..upTo(r) : /\ i \in DOMAIN arrays[sees(r)] /\ arrays[sees(r)][i] = s
                                /\ sees(r) = Len(arrays) => i \in positions
                                /\ i < request[r].next => s \in Range(got[r])
    BY DEF WalkInv, FoundInv
  <2> QED BY <1>4, <1>6, <1>7, <1>8, <2>1
<1>10. "add" \notin disturbed[r] => WrittenInv(r)'
  <2> SUFFICES ASSUME "add" \notin disturbed[r], NEW i \in 1..upTo(r)
               PROVE  i \in DOMAIN arrays'[sees(r)] /\ arrays'[sees(r)][i] # NoSink
    BY <1>1, <1>5 DEF WrittenInv
  <2>1. i \in DOMAIN arrays[sees(r)] /\ arrays[sees(r)][i] # NoSink
    BY DEF WalkInv, WrittenInv
  <2> QED BY <1>2, <1>3, <1>4, <1>6, <2>1
<1>11. disturbed[r] = {} => OnceInv(r)'
  <2> SUFFICES ASSUME disturbed[r] = {} PROVE OnceInv(r)'
    OBVIOUS
  <2>1. OnceInv(r)
    BY DEF WalkInv
  <2>2. \A i \in 1..upTo(r) : arrays'[sees(r)][i] = arrays[sees(r)][i]
    BY <1>6, <1>8, <2>1 DEF OnceInv
  <2>3. sees(r) = Len(arrays) => 1..upTo(r) \subseteq positions'
    BY <1>7, <2>1 DEF OnceInv
  <2>4. 1..Len(got[r]) \subseteq 1..upTo(r)
    BY <1>6, <2>1, WalkFacts DEF OnceInv
  <2>5. /\ \A i, j \in 1..upTo(r) : arrays'[sees(r)][i] = arrays'[sees(r)][j] => i = j
        /\ \A j \in 1..Len(got[r]) : got[r][j] = arrays'[sees(r)][j]
    BY <2>1, <2>2, <2>4 DEF OnceInv
  <2> QED BY <1>1, <1>4, <1>5, <2>1, <2>3, <2>5 DEF OnceInv
<1> QED BY <1>1, <1>9, <1>10, <1>11 DEF WalkInv

\* runTimeout's steps: a compaction that has removed nothing rewrites nothing,
\* and one that has leaves no slot of the list unwritten.
LEMMA TimeoutWalk ==
    ASSUME ListInv, TimeoutStep, NEW r \in Requests, ReadInv(r), WalkInv(r)
    PROVE  WalkInv(r)'
<1>1. CASE RemoveStale
  <2>1. active(r) => "remove" \in disturbed'[r]
    BY <1>1 DEF RemoveStale, disturb
  <2>2. disturbed[r] \subseteq disturbed'[r]
    BY <1>1 DEF RemoveStale, disturb
  <2>3. /\ request'[r] = request[r] /\ got'[r] = got[r] /\ expected'[r] = expected[r]
        /\ arrays' = arrays /\ length' = length /\ adding' = adding
    BY <1>1 DEF RemoveStale, updateVars
  <2> QED BY <2>1, <2>2, <2>3, Quiet
<1>2. CASE KeepSink \/ TickDone
  <2>1. /\ request' = request /\ got' = got /\ expected' = expected /\ disturbed' = disturbed
        /\ adding' = adding /\ lock = "timeout"
    BY <1>2 DEF KeepSink, TickDone, updateVars, historyVars
  <2>2. /\ length \in Nat /\ index \in Nat /\ kept \in Nat /\ kept < index /\ index <= length + 1
        /\ Len(array) \in Nat /\ length <= Len(array) /\ DOMAIN array = 1..Len(array)
        /\ positions = (1..kept) \cup (index..length)
    BY <2>1, CurrentArray, ListFacts DEF ListInv, LockInv
  <2>3. adding = none /\ none.stage = "none"
    BY <2>1 DEF ListInv, LockInv, none
  <2>4. CASE kept + 1 = index
    <3>1. CASE KeepSink
      <4>1. index \in 1..Len(array) /\ arrays' = [arrays EXCEPT ![Len(arrays)][index] = array[index]]
        <5>1. index \in 1..Len(array)
          BY <2>2, <2>4, <3>1 DEF KeepSink
        <5>2. arrays' = [arrays EXCEPT ![Len(arrays)][kept + 1] = array[index]]
          BY <3>1 DEF KeepSink
        <5> QED BY <2>4, <5>1, <5>2
      <4>2. arrays' = arrays /\ length' = length
        BY <3>1, <4>1, SameStore DEF KeepSink
      <4>3. lock' = "timeout" /\ kept' = kept + 1 /\ index' = index + 1
        BY <2>1, <3>1 DEF KeepSink
      <4>4. positions' = (1..(kept + 1)) \cup ((index + 1)..length)
        BY <4>2, <4>3 DEF positions
      <4>5. positions' = positions
        BY <2>2, <2>4, <3>1, <4>4 DEF KeepSink
      <4>6. kept' + 1 = index'
        BY <2>2, <2>4, <4>3
      <4> QED BY <2>1, <4>2, <4>5, <4>6, Quiet
    <3>2. CASE TickDone
      <4>1. arrays' = arrays /\ length' = kept /\ lock' = "free" /\ index > length
        BY <3>2 DEF TickDone
      <4>2. length' = length
        BY <2>2, <2>4, <4>1
      <4>3. positions' = positions
        BY <3>2, TickDoneList
      <4> QED BY <2>1, <4>1, <4>2, <4>3, Quiet
    <3> QED BY <1>2, <3>1, <3>2
  <2>5. CASE kept + 1 # index
    <3> SUFFICES ASSUME active(r) PROVE WalkInv(r)'
      BY <2>1 DEF WalkInv, active
    <3>1. "remove" \in disturbed[r]
      BY <2>1, <2>5 DEF WalkInv, FoundInv
    <3> SUFFICES ASSUME "add" \notin disturbed[r] PROVE WrittenInv(r)'
      BY <2>1, <3>1 DEF WalkInv
    <3>2. WrittenInv(r)
      BY DEF WalkInv
    <3>3. /\ sees(r) \in 1..Len(arrays) /\ upTo(r) \in Nat
          /\ (sees(r) = Len(arrays) => arrays[sees(r)] = array)
      BY WalkFacts
    <3>4. CASE KeepSink
      <4>1. kept + 1 \in 1..Len(array) /\ index \in positions /\ length' = length
        BY <2>2, <3>4 DEF KeepSink
      <4>2. array[index] \in Slots /\ array[index] # NoSink
        BY <4>1, ListFacts DEF Slots
      <4>3. arrays' = [arrays EXCEPT ![Len(arrays)][kept + 1] = array[index]]
        BY <3>4 DEF KeepSink
      <4>4. /\ Len(arrays') = Len(arrays) /\ array'[kept + 1] = array[index]
            /\ DOMAIN array' = DOMAIN array
            /\ \A i \in 1..Len(array) : i # kept + 1 => array'[i] = array[i]
            /\ \A m \in 1..Len(arrays) : m # Len(arrays) => arrays'[m] = arrays[m]
        BY <4>1, <4>2, <4>3, Overwrite
      <4>5. array' = arrays'[Len(arrays)]
        BY <4>4 DEF array
      <4>6. sees(r)' = sees(r) /\ upTo(r)' = upTo(r)
        BY <2>1, <4>1, <4>4 DEF sees, upTo
      <4>7. \A i \in 1..upTo(r) : i \in DOMAIN arrays'[sees(r)] /\ arrays'[sees(r)][i] # NoSink
        BY <2>2, <3>2, <3>3, <4>2, <4>4, <4>5 DEF WrittenInv
      <4> QED BY <2>1, <3>2, <4>6, <4>7 DEF WrittenInv
    <3>5. CASE TickDone
      <4>1. arrays' = arrays /\ length' = kept /\ index > length
        BY <3>5 DEF TickDone
      <4>2. sees(r)' = sees(r) /\ upTo(r)' \in Nat /\ upTo(r)' <= upTo(r)
        BY <2>1, <2>2, <3>3, <4>1 DEF sees, upTo
      <4>3. 1..(upTo(r)') \subseteq 1..upTo(r)
        BY <3>3, <4>2
      <4> QED BY <2>1, <3>2, <4>1, <4>2, <4>3 DEF WrittenInv
    <3> QED BY <1>2, <3>4, <3>5
  <2> QED BY <2>4, <2>5
<1> QED BY <1>1, <1>2 DEF TimeoutStep

\* HandleUpload's own steps: what it begins with, what it reads and whom it serves.
LEMMA RequestWalk ==
    ASSUME ListInv, NEW r \in Requests, ReadInv(r), WalkInv(r), HandleUpload(r)
    PROVE  WalkInv(r)'
<1>1. /\ arrays' = arrays /\ length' = length /\ lock' = lock /\ adding' = adding
      /\ index' = index /\ kept' = kept /\ positions' = positions
  <2>1. positions' = positions
    BY HandleUploadList
  <2> QED BY <2>1 DEF HandleUpload, Begin, ReadArray, ReadLength, HandOver, Panic, Answer,
                      updateVars, timeoutVars
<1>2. /\ request[r] \in [pc: {"idle", "read", "walk", "panic", "answered"},
                         array: 0..Len(arrays), length: Int, next: Nat]
      /\ request[r].array \in 0..Len(arrays) /\ request[r].length \in Int
      /\ request[r].next \in Nat
      /\ sees(r) \in 1..Len(arrays) /\ upTo(r) \in Nat
      /\ (sees(r) = Len(arrays) => arrays[sees(r)] = array)
      /\ got[r] \in Seq(Sinks) /\ disturbed[r] \subseteq {"add", "remove"}
      /\ Len(arrays) \in Nat /\ Len(arrays) >= 1
      /\ length \in Nat /\ Len(array) \in Nat /\ length <= Len(array)
      /\ DOMAIN array = 1..Len(array) /\ positions \subseteq 1..length
  BY WalkFacts, CurrentArray, ListFacts
<1>3. CASE Begin(r)
  <2>1. request'[r] = [idle EXCEPT !.pc = "read"] /\ got'[r] = <<>>
    BY <1>3, RequestSteps
  <2>2. /\ request'[r].pc = "read" /\ request'[r].array = 0 /\ request'[r].length = -1
        /\ request'[r].next = 1
    BY <2>1 DEF idle
  <2>3. expected'[r] = listed \ stopped
    BY <1>3 DEF Begin, ListInv, TypeOK
  <2>4. /\ "remove" \notin disturbed'[r] => ~(lock = "timeout" /\ kept + 1 < index)
        /\ "add" \notin disturbed'[r] => lock # "update"
    BY <1>3 DEF Begin, ListInv, TypeOK
  <2>5. sees(r)' = Len(arrays) /\ upTo(r)' = length /\ arrays'[Len(arrays)] = array
    BY <1>1, <2>2 DEF sees, upTo, array
  <2>6. /\ index \in Nat /\ kept \in Nat /\ kept < index
        /\ (lock = "timeout" => positions = (1..kept) \cup (index..length))
        /\ (lock = "free" => positions = 1..length)
    BY ListFacts
  <2>7. "remove" \notin disturbed'[r] => FoundInv(r)'
    <3> SUFFICES ASSUME "remove" \notin disturbed'[r] PROVE FoundInv(r)'
      OBVIOUS
    <3>1. lock = "timeout" => kept + 1 = index
      BY <2>4, <2>6
    <3>2. ASSUME NEW s \in listed \ stopped
          PROVE  \E i \in 1..length : i \in DOMAIN array /\ array[i] = s /\ i \in positions
      <4>1. PICK i \in 1..length : array[i] = s
        BY DEF listed
      <4>2. s # NoSink /\ s \notin stopped
        BY DEF listed
      <4>3. i \in DOMAIN array
        BY <1>2
      <4>4. \E j \in positions : array[j] = s
        BY <4>1, <4>2, <4>3 DEF ListInv, SlotsInv
      <4> QED BY <1>2, <4>4
    <3>3. ~(\E i \in 1..length : i < 1)
      BY <1>2
    <3> QED BY <1>1, <2>2, <2>3, <2>5, <3>1, <3>2, <3>3 DEF FoundInv
  <2>8. "add" \notin disturbed'[r] => WrittenInv(r)'
    <3> SUFFICES ASSUME "add" \notin disturbed'[r] PROVE WrittenInv(r)'
      OBVIOUS
    <3>1. adding = none /\ none.stage = "none"
      BY <2>4 DEF ListInv, LockInv, none
    <3>2. \A i \in 1..length : i \in DOMAIN array /\ array[i] # NoSink
      BY <1>2, <3>1 DEF ListInv, SlotsInv
    <3> QED BY <1>1, <2>2, <2>5, <3>1, <3>2 DEF WrittenInv
  <2>9. disturbed'[r] = {} => OnceInv(r)'
    <3> SUFFICES ASSUME disturbed'[r] = {} PROVE OnceInv(r)'
      OBVIOUS
    <3>1. lock \in {"free", "timeout"} /\ (lock = "timeout" => kept + 1 = index)
      BY <2>4, <2>6 DEF ListInv, TypeOK
    <3>2. 1..length \subseteq positions
      BY <1>2, <2>6, <3>1
    <3>3. \A i, j \in 1..length : array[i] = array[j] => i = j
      BY <3>2 DEF ListInv, PositionsInv
    <3>4. Len(got'[r]) = 0
      BY <2>1
    <3> QED BY <1>1, <1>2, <2>2, <2>5, <3>2, <3>3, <3>4 DEF OnceInv
  <2> QED BY <2>7, <2>8, <2>9 DEF WalkInv
<1>4. CASE ReadArray(r) \/ ReadLength(r)
  <2>1. /\ request[r].pc = "read" /\ got' = got /\ expected' = expected /\ disturbed' = disturbed
        /\ active(r)
    BY <1>4 DEF ReadArray, ReadLength, historyVars, active
  <2>2. request'[r].next = request[r].next /\ sees(r)' = sees(r) /\ upTo(r)' = upTo(r)
    <3>1. CASE ReadArray(r)
      <4>1. request'[r] = [request[r] EXCEPT !.array = Len(arrays),
                              !.pc = IF request[r].length >= 0 THEN "walk" ELSE "read"]
        BY <2>1, <3>1, RequestSteps
      <4>2. /\ request'[r].array = Len(arrays) /\ request'[r].length = request[r].length
            /\ request'[r].next = request[r].next
        BY <1>2, <4>1
      <4> QED BY <1>1, <1>2, <3>1, <4>2 DEF ReadArray, sees, upTo
    <3>2. CASE ReadLength(r)
      <4>1. request'[r] = [request[r] EXCEPT !.length = length,
                              !.pc = IF request[r].array > 0 THEN "walk" ELSE "read"]
        BY <2>1, <3>2, RequestSteps
      <4>2. /\ request'[r].length = length /\ request'[r].array = request[r].array
            /\ request'[r].next = request[r].next
        BY <1>2, <4>1
      <4> QED BY <1>1, <1>2, <3>2, <4>2 DEF ReadLength, sees, upTo
    <3> QED BY <1>4, <3>1, <3>2
  <2>3. "remove" \notin disturbed[r] => FoundInv(r)'
    BY <1>1, <2>1, <2>2 DEF WalkInv, FoundInv
  <2>4. "add" \notin disturbed[r] => WrittenInv(r)'
    BY <1>1, <2>1, <2>2 DEF WalkInv, WrittenInv
  <2>5. disturbed[r] = {} => OnceInv(r)'
    BY <1>1, <2>1, <2>2 DEF WalkInv, OnceInv
  <2> QED BY <2>1, <2>3, <2>4, <2>5 DEF WalkInv
<1>5. CASE HandOver(r)
  <2>1. /\ request[r].pc = "walk" /\ expected' = expected /\ disturbed' = disturbed /\ active(r)
        /\ request[r].next <= request[r].length
    BY <1>5 DEF HandOver, active
  <2>2. /\ request'[r].array = request[r].array /\ request'[r].length = request[r].length
        /\ request'[r].next = request[r].next + 1 /\ request'[r].pc = "walk"
    <3>1. request'[r] = [request[r] EXCEPT !.next = request[r].next + 1]
      BY <1>5, RequestSteps
    <3> QED BY <1>2, <2>1, <3>1
  <2>3. got'[r] = Append(got[r], slot(r)) /\ slot(r) \in Sinks
    <3>1. slot(r) \in Slots /\ slot(r) # NoSink
      BY <1>5, <2>1, Slot DEF HandOver
    <3> QED BY <1>5, <3>1, RequestSteps DEF Slots
  <2>4. /\ got'[r] \in Seq(Sinks) /\ Len(got'[r]) = Len(got[r]) + 1
        /\ got'[r][Len(got[r]) + 1] = slot(r)
        /\ \A j \in 1..Len(got[r]) : got'[r][j] = got[r][j]
    BY <1>2, <2>3
  <2>5. slot(r) \in Range(got'[r]) /\ Range(got[r]) \subseteq Range(got'[r])
    <3>1. /\ DOMAIN got[r] = 1..Len(got[r]) /\ DOMAIN got'[r] = 1..(Len(got[r]) + 1)
          /\ Len(got[r]) \in Nat
      BY <1>2, <2>4
    <3>2. 1..Len(got[r]) \subseteq 1..(Len(got[r]) + 1) /\ Len(got[r]) + 1 \in 1..(Len(got[r]) + 1)
      BY <3>1
    <3> QED BY <2>4, <3>1, <3>2 DEF Range
  <2>6. /\ sees(r)' = sees(r) /\ upTo(r)' = upTo(r)
        /\ sees(r) = request[r].array /\ upTo(r) = request[r].length
    <3>1. request[r].array > 0 /\ request[r].length >= 0
      BY <2>1 DEF ReadInv
    <3>2. request[r].array # 0 /\ request[r].length # -1
      BY <1>2, <3>1
    <3> QED BY <1>1, <2>2, <3>2 DEF sees, upTo
  <2>7. request[r].next >= 1 /\ request[r].next \in 1..upTo(r)
    BY <1>2, <2>1, <2>6 DEF ReadInv
  <2>8. request[r].next \in DOMAIN arrays[sees(r)] => slot(r) = arrays[sees(r)][request[r].next]
    <3>1. arrays[sees(r)] \in Seq(Slots)
      BY <1>2, CurrentArray
    <3>2. DOMAIN arrays[sees(r)] = 1..Len(arrays[sees(r)])
      BY <3>1
    <3> QED BY <2>1, <2>6, <3>2, Slot
  <2>9. "remove" \notin disturbed[r] => FoundInv(r)'
    <3> SUFFICES ASSUME "remove" \notin disturbed[r], NEW s \in expected[r]
                 PROVE  \E i \in 1..upTo(r) :
                           /\ i \in DOMAIN arrays[sees(r)] /\ arrays[sees(r)][i] = s
                           /\ sees(r) = Len(arrays) => i \in positions
                           /\ i < request[r].next + 1 => s \in Range(got'[r])
      BY <1>1, <2>1, <2>2, <2>6 DEF FoundInv, WalkInv
    <3>1. PICK i \in 1..upTo(r) : /\ i \in DOMAIN arrays[sees(r)] /\ arrays[sees(r)][i] = s
                                  /\ sees(r) = Len(arrays) => i \in positions
                                  /\ i < request[r].next => s \in Range(got[r])
      BY <2>1 DEF WalkInv, FoundInv
    <3>2. CASE i = request[r].next
      BY <2>5, <2>8, <3>1, <3>2
    <3>3. CASE i # request[r].next
      <4>1. i < request[r].next + 1 => i < request[r].next
        BY <1>2, <3>3
      <4> QED BY <2>5, <3>1, <4>1
    <3> QED BY <3>2, <3>3
  <2>10. "add" \notin disturbed[r] => WrittenInv(r)'
    BY <1>1, <2>1, <2>2, <2>6 DEF WalkInv, WrittenInv
  <2>11. disturbed[r] = {} => OnceInv(r)'
    <3> SUFFICES ASSUME disturbed[r] = {} PROVE OnceInv(r)'
      OBVIOUS
    <3>1. OnceInv(r) /\ WrittenInv(r)
      BY <2>1 DEF WalkInv
    <3>2. Len(got[r]) + 1 = request[r].next /\ slot(r) = arrays[sees(r)][request[r].next]
      BY <1>2, <2>7, <2>8, <3>1 DEF OnceInv, WrittenInv
    <3>3. Len(got'[r]) = request[r].next /\ request[r].next + 1 <= upTo(r) + 1
      BY <1>2, <2>4, <2>7, <3>2
    <3>4. \A j \in 1..Len(got'[r]) : got'[r][j] = arrays[sees(r)][j]
      <4> TAKE j \in 1..Len(got'[r])
      <4>1. Len(got[r]) \in Nat
        BY <1>2
      <4>2. CASE j = Len(got[r]) + 1
        BY <2>4, <3>2, <4>2
      <4>3. CASE j # Len(got[r]) + 1
        <5>1. j \in 1..Len(got[r])
          BY <2>4, <4>1, <4>3
        <5> QED BY <2>4, <3>1, <5>1 DEF OnceInv
      <4> QED BY <4>2, <4>3
    <3>5. Len(got'[r]) = request'[r].next - 1
      BY <1>2, <2>2, <3>3
    <3> QED BY <1>1, <2>2, <2>6, <3>1, <3>3, <3>4, <3>5 DEF OnceInv
  <2> QED BY <2>1, <2>9, <2>10, <2>11 DEF WalkInv
<1>6. CASE Panic(r) \/ Answer(r)
  <2>1. request'[r].pc \in {"panic", "answered"}
    BY <1>6, RequestSteps DEF idle
  <2> QED BY <2>1 DEF WalkInv, active
<1> QED BY <1>3, <1>4, <1>5, <1>6 DEF HandleUpload

\* UpdateConfig's steps, as the requests see them.
LEMMA UpdateWalk ==
    ASSUME ListInv, ListInv', Reload \/ UpdateStep, NEW r \in Requests, ReadInv(r), WalkInv(r)
    PROVE  WalkInv(r)'
<1>0. request' = request /\ got' = got /\ expected' = expected
  BY ListSteps
<1>1. CASE Reload
  <2>1. PICK conf \in SUBSET Addresses : UpdateConfig(conf)
    BY <1>1 DEF Reload
  <2>2. /\ arrays' = arrays /\ length' = length /\ adding' = adding /\ disturbed' = disturbed
        /\ lock = "free" /\ lock' = "update"
    BY <2>1 DEF UpdateConfig, historyVars
  <2>3. positions' = positions
    BY <2>2 DEF positions
  <2> QED BY <1>0, <2>2, <2>3, Quiet
<1>2. ASSUME NEW a \in Addresses, NewSinkFails(a) PROVE WalkInv(r)'
  <2>1. /\ arrays' = arrays /\ length' = length /\ adding' = adding /\ disturbed' = disturbed
        /\ lock = "update" /\ lock' = "update"
    BY <1>2 DEF NewSinkFails, historyVars
  <2>2. positions' = positions
    BY <2>1 DEF positions
  <2> QED BY <1>0, <2>1, <2>2, Quiet
<1>3. ASSUME NEW a \in Addresses, NewSink(a) PROVE WalkInv(r)'
  <2>1. /\ lock = "update" /\ lock' = "update" /\ adding = none /\ length' = length
        /\ adding'.stage = "length"
    BY <1>3 DEF NewSink
  <2>2. positions' = positions
    BY <2>1 DEF positions, none
  <2>3. disturbed[r] \subseteq disturbed'[r] /\ (request[r].pc = "read" => "add" \in disturbed'[r])
    BY <1>3 DEF NewSink, disturb
  <2>4. /\ Len(arrays') >= Len(arrays)
        /\ \A m \in 1..Len(arrays) : arrays'[m] = arrays[m]
        /\ \A i \in 1..Len(array) : i \in DOMAIN array' /\ array'[i] = array[i]
    <3>1. CASE length < Len(array)
      <4>1. arrays' = arrays /\ array' = array
        BY <1>3, <3>1 DEF NewSink, array
      <4> QED BY <4>1, CurrentArray
    <3>2. CASE ~(length < Len(array))
      <4>1. arrays' = Append(arrays, grown(array)) /\ length = Len(array)
        BY <1>3, <3>2, CurrentArray DEF NewSink
      <4>2. Len(arrays') = Len(arrays) + 1 /\ array' \in Seq(Slots) /\ Len(array') > Len(array)
            /\ DOMAIN array' = 1..Len(array')
        BY <4>1, Grown
      <4>3. Len(array') \in Nat /\ Len(array) \in Nat /\ Len(arrays) \in Nat
        BY <4>2, CurrentArray
      <4>4. 1..Len(array) \subseteq 1..Len(array')
        BY <4>2, <4>3
      <4> QED BY <4>1, <4>2, <4>3, <4>4, Grown
    <3> QED BY <3>1, <3>2
  <2>5. length' >= length
    BY <2>1, ListFacts
  <2> QED BY <1>0, <2>1, <2>2, <2>3, <2>4, <2>5, Extended
<1>4. CASE AppendLength
  <2>1. /\ adding.stage = "length" /\ adding' = [adding EXCEPT !.stage = "element"]
        /\ length' = length + 1 /\ arrays' = arrays /\ array' = array /\ lock' = lock
    BY <1>4 DEF AppendLength, array
  <2>2. adding'.stage = "element"
    BY <2>1 DEF ListInv, TypeOK
  <2>3. lock = "update" /\ positions = 1..length /\ length \in Nat
    BY <2>1, ListFacts
  <2>4. positions' = 1..(length' - 1)
    BY <2>1, <2>2, <2>3 DEF positions
  <2>5. positions' = positions /\ length' >= length
    BY <2>1, <2>3, <2>4
  <2>6. disturbed[r] \subseteq disturbed'[r] /\ (request[r].pc = "read" => "add" \in disturbed'[r])
    BY <1>4 DEF AppendLength, disturb
  <2>7. Len(arrays') >= Len(arrays) /\ \A i \in 1..Len(array) : i \in DOMAIN array'
    BY <2>1, CurrentArray
  <2> QED BY <1>0, <2>1, <2>3, <2>5, <2>6, <2>7, Extended
<1>5. CASE AppendElement
  BY <1>5, StoredBehind
<1>6. CASE UpdateDone
  <2>1. /\ arrays' = arrays /\ length' = length /\ adding' = adding /\ disturbed' = disturbed
        /\ lock' = "free"
    BY <1>6 DEF UpdateDone, updateVars, historyVars
  <2>2. positions' = positions
    BY <1>6, LockList
  <2> QED BY <1>0, <2>1, <2>2, Quiet
<1> QED BY <1>1, <1>2, <1>3, <1>4, <1>5, <1>6 DEF UpdateStep

\* Every request finds in the list what it must, after every step.
LEMMA WalkStep ==
    ASSUME ListInv, ReadsInv, ListInv', [Next]_vars, NEW r \in Requests, WalkInv(r)
    PROVE  WalkInv(r)'
<1>0. ReadInv(r)
  BY DEF ReadsInv
<1>1. CASE Reload \/ UpdateStep
  BY <1>0, <1>1, UpdateWalk
<1>2. CASE TimeoutStep
  BY <1>0, <1>2, TimeoutWalk
<1>3. CASE Tick \/ \E a \in Addresses : GraceEnds(a)
  <2>1. request' = request /\ got' = got /\ expected' = expected /\ positions' = positions
    BY <1>3, ListSteps, LockList
  <2>2. arrays' = arrays /\ length' = length /\ adding' = adding /\ disturbed' = disturbed
    BY <1>3 DEF Tick, GraceEnds, updateVars, historyVars
  <2>3. active(r) /\ "remove" \notin disturbed[r] => (lock' = "timeout" => kept' + 1 = index')
    <3>1. CASE Tick
      BY <3>1 DEF Tick
    <3>2. CASE \E a \in Addresses : GraceEnds(a)
      BY <3>2 DEF GraceEnds, timeoutVars, WalkInv, FoundInv
    <3> QED BY <1>3, <3>1, <3>2
  <2> QED BY <2>1, <2>2, <2>3, Quiet
<1>4. CASE HandleUpload(r)
  BY <1>0, <1>4, RequestWalk
<1>5. ASSUME NEW q \in Requests, q # r, HandleUpload(q) PROVE WalkInv(r)'
  <2>1. /\ request'[r] = request[r] /\ got'[r] = got[r]
        /\ expected'[r] = expected[r] /\ disturbed'[r] = disturbed[r]
    BY <1>5, OtherRequests
  <2>2. /\ arrays' = arrays /\ length' = length /\ lock' = lock /\ adding' = adding
        /\ index' = index /\ kept' = kept
    BY <1>5 DEF HandleUpload, Begin, ReadArray, ReadLength, HandOver, Panic, Answer,
                updateVars, timeoutVars
  <2>3. positions' = positions
    BY <2>2 DEF positions
  <2>4. active(r) /\ "remove" \notin disturbed[r] => (lock' = "timeout" => kept' + 1 = index')
    BY <2>2 DEF WalkInv, FoundInv
  <2> QED BY <2>1, <2>2, <2>3, <2>4, Quiet
<1>6. CASE UNCHANGED vars
  BY <1>6 DEF vars, historyVars, updateVars, timeoutVars, WalkInv, FoundInv, WrittenInv, OnceInv,
              active, sees, upTo, positions
<1> QED BY <1>1, <1>2, <1>3, <1>4, <1>5, <1>6 DEF Next

\* What Delivered says of one request.
Served(r) ==
    /\ request[r].pc = "answered" /\ "remove" \notin disturbed[r] =>
          expected[r] \subseteq Range(got[r])
    /\ request[r].pc = "panic" => "add" \in disturbed[r]
    /\ ~IsInjective(got[r]) => disturbed[r] # {}

\* A request is answered when its walk is over, and keeps what it was told.
LEMMA ServedStep ==
    ASSUME ListInv, ReadsInv, [Next]_vars, NEW r \in Requests, WalkInv(r), Served(r),
           ListInv', ReadInv(r)', WalkInv(r)'
    PROVE  Served(r)'
<1>0. ReadInv(r)
  BY DEF ReadsInv
<1>1. CASE active(r)'
  <2>1. request'[r].pc \in {"read", "walk"}
    BY <1>1 DEF active
  <2>2. disturbed'[r] = {} => IsInjective(got'[r])
    <3> SUFFICES ASSUME disturbed'[r] = {} PROVE IsInjective(got'[r])
      OBVIOUS
    <3>1. OnceInv(r)'
      BY <1>1 DEF WalkInv
    <3>2. /\ upTo(r)' \in Nat /\ got'[r] \in Seq(Sinks) /\ request'[r].next \in Nat
      <4>1. /\ request'[r] \in [pc: {"idle", "read", "walk", "panic", "answered"},
                                array: 0..Len(arrays'), length: Int, next: Nat]
            /\ got'[r] \in Seq(Sinks)
        BY DEF ListInv, TypeOK
      <4>2. length' \in Nat
        <5>1. arrays' \in Seq(Seq(Slots)) /\ Len(arrays') >= 1 /\ length' \in 0..Len(array')
          BY DEF ListInv, TypeOK, LockInv, Slots
        <5>2. array' \in Seq(Slots)
          BY <5>1 DEF array
        <5> QED BY <5>1, <5>2
      <4>3. request'[r].length \in Int /\ request'[r].length >= -1
        BY <4>1 DEF ReadInv
      <4>4. upTo(r)' \in Nat
        BY <4>2, <4>3 DEF upTo
      <4> QED BY <4>1, <4>4
    <3>3. DOMAIN got'[r] = 1..Len(got'[r]) /\ Len(got'[r]) \in Nat
      BY <3>2
    <3>4. 1..Len(got'[r]) \subseteq 1..(upTo(r)')
      BY <3>1, <3>2, <3>3 DEF OnceInv
    <3> QED BY <3>1, <3>3, <3>4 DEF OnceInv, IsInjective
  <2> QED BY <2>1, <2>2 DEF Served
<1>2. CASE ~active(r)' /\ HandleUpload(r)
  <2>1. Panic(r) \/ Answer(r)
    <3>1. Begin(r) => request'[r].pc = "read"
      BY RequestSteps DEF idle
    <3>2. request[r] \in [pc: {"idle", "read", "walk", "panic", "answered"},
                          array: 0..Len(arrays), length: Int, next: Nat]
      BY DEF ListInv, TypeOK
    <3>3. ReadArray(r) => request'[r].pc \in {"read", "walk"}
      <4> SUFFICES ASSUME ReadArray(r) PROVE request'[r].pc \in {"read", "walk"}
        OBVIOUS
      <4>1. request'[r] = [request[r] EXCEPT !.array = Len(arrays),
                              !.pc = IF request[r].length >= 0 THEN "walk" ELSE "read"]
        BY RequestSteps DEF ReadArray
      <4> QED BY <3>2, <4>1
    <3>4. ReadLength(r) => request'[r].pc \in {"read", "walk"}
      <4> SUFFICES ASSUME ReadLength(r) PROVE request'[r].pc \in {"read", "walk"}
        OBVIOUS
      <4>1. request'[r] = [request[r] EXCEPT !.length = length,
                              !.pc = IF request[r].array > 0 THEN "walk" ELSE "read"]
        BY RequestSteps DEF ReadLength
      <4> QED BY <3>2, <4>1
    <3>5. HandOver(r) => request'[r].pc = "walk"
      <4> SUFFICES ASSUME HandOver(r) PROVE request'[r].pc = "walk"
        OBVIOUS
      <4>1. request'[r] = [request[r] EXCEPT !.next = request[r].next + 1] /\ request[r].pc = "walk"
        BY RequestSteps DEF HandOver
      <4> QED BY <3>2, <4>1
    <3> QED BY <1>2, <3>1, <3>3, <3>4, <3>5 DEF HandleUpload, active
  <2>2. /\ request[r].pc = "walk" /\ active(r)
        /\ got' = got /\ expected' = expected /\ disturbed' = disturbed
    BY <2>1 DEF Panic, Answer, historyVars, active
  <2>3. /\ request[r].array > 0 /\ request[r].length >= 0
        /\ request[r].next >= 1 /\ request[r].next \in Nat
        /\ request[r].array \in 0..Len(arrays) /\ request[r].length \in Int
    BY <1>0, <2>2, WalkFacts DEF ReadInv
  <2>4. sees(r) = request[r].array /\ upTo(r) = request[r].length
    BY <2>3 DEF sees, upTo
  <2>5. CASE Panic(r)
    <3>1. request'[r].pc = "panic"
      BY <2>5, RequestSteps DEF idle
    <3>2. "add" \in disturbed[r]
      <4> SUFFICES ASSUME "add" \notin disturbed[r] PROVE FALSE
        OBVIOUS
      <4>1. request[r].next \in 1..upTo(r) /\ slot(r) = NoSink
        BY <2>3, <2>4, <2>5 DEF Panic
      <4>2. request[r].next \in DOMAIN arrays[sees(r)] /\ arrays[sees(r)][request[r].next] # NoSink
        BY <2>2, <4>1 DEF WalkInv, WrittenInv
      <4>3. arrays[sees(r)] \in Seq(Slots)
        BY <1>0, WalkFacts, CurrentArray
      <4>4. request[r].next \in 1..Len(arrays[sees(r)])
        BY <4>2, <4>3
      <4> QED BY <1>0, <2>2, <2>4, <4>1, <4>2, <4>4, Slot
    <3> QED BY <2>2, <3>1, <3>2 DEF Served
  <2>6. CASE Answer(r)
    <3>1. request'[r].pc = "answered" /\ request[r].next > request[r].length
      <4>1. request'[r].pc = "answered"
        BY <2>6, RequestSteps DEF idle
      <4> QED BY <2>6, <4>1 DEF Answer
    <3>2. "remove" \notin disturbed[r] => expected[r] \subseteq Range(got[r])
      <4> SUFFICES ASSUME "remove" \notin disturbed[r], NEW s \in expected[r]
                   PROVE  s \in Range(got[r])
        OBVIOUS
      <4>1. PICK i \in 1..upTo(r) : i < request[r].next => s \in Range(got[r])
        BY <2>2 DEF WalkInv, FoundInv
      <4> QED BY <2>3, <2>4, <3>1, <4>1
    <3> QED BY <2>2, <3>1, <3>2 DEF Served
  <2> QED BY <2>1, <2>5, <2>6
<1>3. CASE ~active(r)' /\ ~HandleUpload(r)
  <2>1. request'[r] = request[r] /\ got'[r] = got[r] /\ expected'[r] = expected[r]
    <3>1. CASE Reload \/ UpdateStep \/ Tick \/ TimeoutStep \/ \E a \in Addresses : GraceEnds(a)
      BY <3>1, ListSteps
    <3>2. ASSUME NEW q \in Requests, HandleUpload(q)
          PROVE  request'[r] = request[r] /\ got'[r] = got[r] /\ expected'[r] = expected[r]
      <4>1. r \in Requests \ {q}
        BY <1>3, <3>2
      <4> QED BY <3>2, <4>1, OtherRequests
    <3>3. CASE UNCHANGED vars
      BY <3>3 DEF vars, historyVars
    <3> QED BY <3>1, <3>2, <3>3 DEF Next
  <2>2. ~active(r)
    BY <1>3, <2>1 DEF active
  <2>3. disturbed'[r] = disturbed[r]
    <3>1. ASSUME NEW q \in Requests, HandleUpload(q) PROVE disturbed'[r] = disturbed[r]
      BY <1>3, <3>1, OtherRequests
    <3>2. CASE Reload \/ Tick \/ (\E a \in Addresses : GraceEnds(a)) \/ UNCHANGED vars
      BY <3>2 DEF Reload, UpdateConfig, Tick, GraceEnds, vars, historyVars
    <3>3. CASE UpdateStep
      BY <2>2, <3>3 DEF UpdateStep, NewSinkFails, NewSink, AppendLength, AppendElement, UpdateDone,
                        historyVars, disturb, active
    <3>4. CASE TimeoutStep
      BY <2>2, <3>4 DEF TimeoutStep, RemoveStale, KeepSink, TickDone, historyVars, disturb
    <3> QED BY <3>1, <3>2, <3>3, <3>4 DEF Next
  <2> QED BY <2>1, <2>3 DEF Served
<1> QED BY <1>1, <1>2, <1>3

\* An upload reaches every sink that runs when it arrives, although HandleUpload
\* walks the list without the lock, unless a removal overlaps it; a nil sink is
\* met only when a sink was added while the list was read, a sink twice only
\* then or after a removal.
THEOREM UploadsAreDelivered == Spec => []Delivered
<1> DEFINE Walks == \A r \in Requests : WalkInv(r) /\ Served(r)
           Lists == ListInv /\ ReadsInv
<1>1. Init => Walks
  <2> SUFFICES ASSUME Init, NEW r \in Requests PROVE WalkInv(r) /\ Served(r)
    OBVIOUS
  <2>1. request[r].pc = "idle" /\ got[r] = <<>>
    BY DEF Init, idle
  <2>2. IsInjective(got[r])
    BY <2>1 DEF IsInjective
  <2> QED BY <2>1, <2>2 DEF WalkInv, active, Served
<1>2. Lists /\ Lists' /\ Walks /\ [Next]_vars => Walks'
  <2> SUFFICES ASSUME Lists, Lists', Walks, [Next]_vars, NEW r \in Requests
               PROVE  WalkInv(r)' /\ Served(r)'
    OBVIOUS
  <2>1. WalkInv(r)'
    BY WalkStep
  <2>2. ReadInv(r)'
    BY DEF ReadsInv
  <2> QED BY <2>1, <2>2, ServedStep
<1>3. Walks => Delivered
  BY DEF Delivered, Served
<1>4. Spec => []Lists
  BY Invariant
<1> HIDE DEF Walks, Lists
<1> QED BY <1>1, <1>2, <1>3, <1>4, PTL DEF Spec
=============================================================================
