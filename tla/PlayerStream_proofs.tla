------------------------- MODULE PlayerStream_proofs -------------------------
(***************************************************************************)
(* The downlink at the client gives mpv, for any file, targets, batch size,*)
(* queue and number of seeks and failures, what EpochStream promises.      *)
(*                                                                         *)
(* Packets wait in four places between the connection and mpv: a batch of  *)
(* the receiver, what it publishes, the bridge queue and the loopback's    *)
(* chunks. A seek drains two of them and lets the others go stale. The     *)
(* inductive invariant follows the packets of the newest epoch through all *)
(* four: each place goes on where the one after it stops.                  *)
(***************************************************************************)
EXTENDS PlayerStream, SequenceTheorems, TLAPS

-----------------------------------------------------------------------------
(* Packets of the newest epoch on their way                                *)

(* What comes after a packet in the stream of its epoch.                   *)
NextItem(p) == IF p.item = Header THEN Target[p.epoch] ELSE p.item + 1

(* What comes after those of epoch e in q, if x came before them.          *)
After(q, x, e) ==
  IF Len(q) > 0 /\ q[Len(q)].epoch = e THEN NextItem(q[Len(q)]) ELSE x

(* The packets of epoch e in q go on from x without a gap, behind all that *)
(* is stale; nothing stale follows once the stream has begun.              *)
Fresh(p, e) == p.epoch = e \/ p = None
Chained(q, x, e) ==
  /\ \A i \in 1..Len(q) : q[i].epoch <= e /\ (q[i] = None => i = Len(q))
  /\ x # Header => \A i \in 1..Len(q) : Fresh(q[i], e)
  /\ \A i \in 1..Len(q), j \in 1..Len(q) : i < j /\ q[i].epoch = e => Fresh(q[j], e)
  /\ \A i \in 1..Len(q) : q[i].epoch = e =>
       q[i].item = IF i > 1 /\ q[i - 1].epoch = e THEN NextItem(q[i - 1]) ELSE x

(* Where each place goes on: mpv, the chunks, the consumer, the queue.     *)
Given == IF played.epoch = epoch /\ Len(played.data) > 0
           THEN Target[epoch] + Len(played.data) - 1 ELSE Header
Chunks == IF buffer = <<>> THEN <<>> ELSE buffer[1].chunks
Buffered == After(Chunks, Given, epoch)
Consumed == IF load.eos = epoch THEN EOS + 1
            ELSE IF consumer.held.epoch = epoch THEN Target[epoch]
            ELSE Buffered
Queued == After(items, Consumed, epoch)
Published == After(receiver.out, Queued, epoch)
Received == After(receiver.batch, Published, epoch)

-----------------------------------------------------------------------------
(* The inductive invariant                                                 *)

(* mpv was given the beginning of one stream.                              *)
Beginning(e, data) ==
  /\ \A i \in 1..Len(data) : data[i] = IF i = 1 THEN Header ELSE Target[e] + i - 2
  /\ Target[e] + Len(data) - 2 <= Trailer
PlayedInv == played.epoch <= epoch /\ Beginning(played.epoch, played.data)

(* The loopback holds what comes next of the newest epoch.                 *)
BufferInv ==
  /\ \A i \in 1..Len(Chunks) : Chunks[i].epoch = epoch /\ Chunks[i].item # EOS
  /\ Chained(Chunks, Given, epoch)
  /\ load.eos <= epoch
  /\ load.eos = epoch => Buffered = EOS
  /\ buffer # <<>> /\ buffer[1].finished => load.eos = epoch
  /\ buffer = <<>> => Given = Header
  /\ buffer = <<>> <=> load.reloading

(* What the consumer has in its hands begins an epoch.                     *)
ConsumerInv ==
  /\ consumer.pc = "loading" => buffer = <<>>
  /\ consumer.held # None => /\ consumer.pc = "loading" /\ consumer.held.item = Header
                             /\ consumer.held.epoch <= epoch

(* The end of the downlink is the last there is.                           *)
ReceiverInv ==
  /\ receiver.pc = "reading" => receiver.out = <<>>
  /\ receiver.pc # "reading" => receiver.batch = <<>>
  /\ receiver.pc \in {"last", "ended"} => link = "lost" \/ queue_closed
  /\ receiver.pc = "ended" => receiver.out = <<>>
  /\ \A i \in 1..Len(receiver.batch) : receiver.batch[i] # None
  /\ \A i \in 1..Len(receiver.batch), j \in 1..Len(receiver.batch) :
       receiver.batch[i].epoch = receiver.batch[j].epoch
  /\ \A i \in 1..Len(receiver.out) : receiver.out[i] = None => receiver.pc = "last"
  /\ \A i \in 1..Len(items) : items[i] = None => receiver.pc = "ended"

(* Each place goes on where the one after it stops, up to the connection.  *)
WayInv ==
  /\ Chained(items, Consumed, epoch)
  /\ queue_closed => items = <<>>
  /\ ~queue_closed => Chained(receiver.out, Queued, epoch)
                      /\ Chained(receiver.batch, Published, epoch)
  /\ server.next <= EOS => link = "up" /\ ~queue_closed
  /\ link = "up" /\ ~queue_closed =>
       IF server.epoch < epoch THEN Received = Header
       ELSE server.next <= EOS => Received = server.next

StreamInv == PlayedInv /\ BufferInv /\ ConsumerInv /\ ReceiverInv /\ WayInv

(* What is known of the present load is true of mpv.                       *)
Said(kind) == [kind |-> kind, gen |-> load.gen] \in signals
Shown == mpv.file = load.gen /\ mpv.restarted
LoadInv ==
  /\ mpv.file <= load.gen
  /\ \A g \in attaching : g <= load.gen
  /\ \A s \in signals : s.gen <= load.gen
  /\ load.reloading => ~load.accept /\ ~load.restarted /\ ~load.released
  /\ ~load.reloading => mpv.file = load.gen
  /\ Said("restarted") \/ load.restarted \/ load.gen \in attaching => Shown
  /\ Said("attached") \/ (External /\ load.attached) => mpv.file = load.gen /\ mpv.attached
  /\ load.released => load.restarted /\ load.attached

(* An end of file that counts is that of the whole stream.                 *)
AllGiven == load.eos = epoch /\ Chunks = <<>>
EndInv == (Said("ended") /\ ~load.reloading) \/ outcome = "finished" => AllGiven

(* How often mpv was loaded or stopped: at most three times to an epoch.   *)
Loads == load.gen + (IF consumer.pc = "loading" THEN 1 ELSE 0)
                  + (IF epoch > 0 /\ Consumed = Header THEN 2 ELSE 0)
LoadsInv ==
  /\ Loads <= 3 * epoch + 1
  /\ epoch = 0 /\ Consumed = Header =>
       consumer.first /\ (consumer.pc # "loading" => buffer # <<>>)


-----------------------------------------------------------------------------
(* Sequences                                                               *)

LEMMA Members ==
  ASSUME NEW S, NEW q \in Seq(S)
  PROVE  /\ Len(q) \in Nat /\ DOMAIN q = 1..Len(q) /\ (q = <<>> <=> Len(q) = 0)
         /\ \A i \in 1..Len(q) : q[i] \in S
OBVIOUS

LEMMA Single ==
  ASSUME NEW S, NEW x \in S
  PROVE  <<x>> \in Seq(S) /\ Len(<<x>>) = 1 /\ <<x>>[1] = x /\ <<x>> # <<>>
OBVIOUS

LEMMA Nothing ==
  ASSUME NEW S
  PROVE  <<>> \in Seq(S) /\ Len(<<>>) = 0
OBVIOUS

LEMMA Grown ==
  ASSUME NEW S, NEW q \in Seq(S), NEW x \in S
  PROVE  /\ Append(q, x) \in Seq(S) /\ Len(Append(q, x)) = Len(q) + 1 /\ Append(q, x) # <<>>
         /\ \A i \in 1..Len(q) : Append(q, x)[i] = q[i]
         /\ Append(q, x)[Len(q) + 1] = x
<1>1. Len(q) \in Nat  OBVIOUS
<1>2. Append(q, x) \in Seq(S) /\ Len(Append(q, x)) = Len(q) + 1  OBVIOUS
<1>3. \A i \in 1..Len(q) : Append(q, x)[i] = q[i]  OBVIOUS
<1>4. Append(q, x)[Len(q) + 1] = x  OBVIOUS
<1> QED  BY <1>1, <1>2, <1>3, <1>4

LEMMA Shrunk ==
  ASSUME NEW S, NEW q \in Seq(S), q # <<>>
  PROVE  /\ Head(q) = q[1] /\ Head(q) \in S /\ Len(q) > 0
         /\ Tail(q) \in Seq(S) /\ Len(Tail(q)) = Len(q) - 1
         /\ \A i \in 1..Len(q) - 1 : Tail(q)[i] = q[i + 1]
<1>1. Len(q) \in Nat /\ Len(q) > 0  OBVIOUS
<1>2. Head(q) = q[1] /\ Head(q) \in S  OBVIOUS
<1>3. Tail(q) \in Seq(S) /\ Len(Tail(q)) = Len(q) - 1  OBVIOUS
<1>4. \A i \in 1..Len(q) - 1 : Tail(q)[i] = q[i + 1]  OBVIOUS
<1> QED  BY <1>1, <1>2, <1>3, <1>4

LEMMA Parted ==
  ASSUME NEW S, NEW q \in Seq(S), NEW n \in 0..Len(q)
  PROVE  /\ SubSeq(q, 1, n) \in Seq(S) /\ Len(SubSeq(q, 1, n)) = n
         /\ \A i \in 1..n : SubSeq(q, 1, n)[i] = q[i]
         /\ SubSeq(q, n + 1, Len(q)) \in Seq(S) /\ Len(SubSeq(q, n + 1, Len(q))) = Len(q) - n
         /\ \A i \in 1..Len(q) - n : SubSeq(q, n + 1, Len(q))[i] = q[n + i]
<1>1. Len(q) \in Nat /\ n \in Nat /\ \A i \in 1..Len(q) : q[i] \in S  OBVIOUS
<1>2. SubSeq(q, 1, n) \in Seq(S) /\ Len(SubSeq(q, 1, n)) = n  BY <1>1
<1>3. \A i \in 1..n : SubSeq(q, 1, n)[i] = q[i]  BY <1>1
<1>4. SubSeq(q, n + 1, Len(q)) \in Seq(S) /\ Len(SubSeq(q, n + 1, Len(q))) = Len(q) - n
  BY <1>1
<1>5. \A i \in 1..Len(q) - n : SubSeq(q, n + 1, Len(q))[i] = q[n + i]  BY <1>1
<1> QED  BY <1>2, <1>3, <1>4, <1>5

LEMMA Joined ==
  ASSUME NEW S, NEW q \in Seq(S), NEW r \in Seq(S)
  PROVE  /\ q \o r \in Seq(S) /\ Len(q \o r) = Len(q) + Len(r)
         /\ \A i \in 1..Len(q) : (q \o r)[i] = q[i]
         /\ \A i \in 1..Len(r) : (q \o r)[Len(q) + i] = r[i]
<1>1. Len(q) \in Nat /\ Len(r) \in Nat  OBVIOUS
<1>2. q \o r \in Seq(S) /\ Len(q \o r) = Len(q) + Len(r)  OBVIOUS
<1>3. \A i \in 1..Len(q) : (q \o r)[i] = q[i]  BY <1>1
<1>4. \A i \in 1..Len(r) : (q \o r)[Len(q) + i] = r[i]  BY <1>1
<1> QED  BY <1>2, <1>3, <1>4

-----------------------------------------------------------------------------
(* Chains                                                                  *)

LEMMA Constants ==
  /\ Length \in Nat /\ MaxEpoch \in Nat /\ DownBatch \in Nat /\ DownBatch > 0
  /\ BridgeRoom \in Nat /\ BridgeRoom > 0 /\ External \in BOOLEAN /\ MaxFailures \in Nat
  /\ \A e \in Epoch : Target[e] \in Nat /\ 1 <= Target[e] /\ Target[e] <= Trailer
  /\ Header = 0 /\ Trailer = Length + 1 /\ EOS = Length + 2
BY PlayerAssumption DEF Epoch, Header, Trailer, EOS

Delivered == Packet \cup {None}

(* A packet has a place in the stream of its epoch, and one comes after it.*)
LEMMA Packets ==
  /\ \A p \in Packet : p.epoch \in Epoch /\ p.epoch \in Nat /\ p.item \in 0..EOS
                       /\ NextItem(p) \in 1..EOS + 1
                       /\ p # None
  /\ None.epoch = -1 /\ \A p \in Delivered : p.epoch \in Int /\ (p # None => p \in Packet)
<1>1. ASSUME NEW p \in Packet
      PROVE  p.epoch \in Epoch /\ p.epoch \in Nat /\ p.item \in 0..EOS
             /\ NextItem(p) \in 1..EOS + 1
  <2>1. p.epoch \in Epoch /\ p.item \in 0..EOS  BY Constants DEF Packet
  <2>2. PICK t \in Nat : t = Target[p.epoch] /\ 1 <= t /\ t <= Length + 1
    BY <2>1, Constants
  <2>3. PICK k \in Nat : k = p.item /\ k <= Length + 2  BY <2>1, Constants
  <2>4. NextItem(p) \in 1..EOS + 1  BY <2>2, <2>3, Constants DEF NextItem
  <2> QED  BY <2>1, <2>4, Constants DEF Epoch
<1>2. None.epoch = -1  BY DEF None
<1>3. \A p \in Packet : p # None  BY <1>1, <1>2
<1> QED  BY <1>1, <1>2, <1>3 DEF Delivered

(* None of an epoch there: nothing is said about it.                       *)
LEMMA NoneOfIt ==
  ASSUME NEW q \in Seq(Delivered), NEW e \in Nat, NEW x,
         \A i \in 1..Len(q) : q[i].epoch < e /\ (q[i] = None => i = Len(q))
  PROVE  Chained(q, Header, e) /\ After(q, x, e) = x
<1>1. Len(q) \in Nat /\ \A i \in 1..Len(q) : q[i] \in Delivered  BY Members
<1>2. \A i \in 1..Len(q) : q[i].epoch \in Int /\ q[i].epoch # e /\ q[i].epoch <= e
  BY <1>1, Packets
<1>3. After(q, x, e) = x
  <2>1. Len(q) > 0 => Len(q) \in 1..Len(q)  BY <1>1
  <2> QED  BY <1>2, <2>1 DEF After
<1> QED  BY <1>2, <1>3 DEF Chained

LEMMA EmptyChain ==
  ASSUME NEW x, NEW e
  PROVE  Chained(<<>>, x, e) /\ After(<<>>, x, e) = x
<1>1. Len(<<>>) = 0  OBVIOUS
<1> QED  BY <1>1 DEF Chained, After

LEMMA ShortChain ==
  ASSUME NEW q, NEW x, NEW e
  PROVE  /\ Len(q) = 0 => After(q, x, e) = x
         /\ Len(q) = 1 => After(q, x, e) = IF q[1].epoch = e THEN NextItem(q[1]) ELSE x
BY DEF After

(* The first packet of a chain is stale, or it is the one that comes next. *)
LEMMA ChainTaken ==
  ASSUME NEW q \in Seq(Delivered), q # <<>>, NEW e \in Nat, NEW x, Chained(q, x, e),
         q[1] # None
  PROVE  /\ q[1].epoch = e => /\ q[1].item = x
                              /\ Chained(Tail(q), NextItem(q[1]), e)
                              /\ q[Len(q)] # None =>
                                   After(Tail(q), NextItem(q[1]), e) = After(q, x, e)
         /\ q[1].epoch # e => /\ x = Header /\ Chained(Tail(q), x, e)
                              /\ After(Tail(q), x, e) = After(q, x, e)
<1>1. PICK n \in Nat : n = Len(q) /\ n > 0  BY Members, Shrunk
<1>2. Tail(q) \in Seq(Delivered) /\ Len(Tail(q)) = n - 1
      /\ \A i \in 1..n - 1 : Tail(q)[i] = q[i + 1]
  BY <1>1, Shrunk
<1>3. /\ \A i \in 1..n : q[i].epoch <= e /\ (q[i] = None => i = n)
      /\ x # Header => \A i \in 1..n : Fresh(q[i], e)
      /\ \A i \in 1..n, j \in 1..n : i < j /\ q[i].epoch = e => Fresh(q[j], e)
      /\ \A i \in 1..n : q[i].epoch = e =>
           q[i].item = IF i > 1 /\ q[i - 1].epoch = e THEN NextItem(q[i - 1]) ELSE x
  BY <1>1 DEF Chained
<1>4. ASSUME NEW y,
             y # Header => \A i \in 2..n : Fresh(q[i], e),
             n > 1 /\ q[2].epoch = e => q[2].item = y,
             \A i \in 3..n : q[i].epoch = e /\ q[i - 1].epoch # e => x = y
      PROVE  Chained(Tail(q), y, e)
  <2>1. \A i \in 1..n - 1 : i + 1 \in 2..n /\ i + 1 \in 1..n  BY <1>1
  <2>2. \A i \in 1..n - 1 : Tail(q)[i].epoch <= e /\ (Tail(q)[i] = None => i = n - 1)
    BY <1>1, <1>2, <1>3, <2>1
  <2>3. y # Header => \A i \in 1..n - 1 : Fresh(Tail(q)[i], e)  BY <1>2, <1>4, <2>1
  <2>4. \A i \in 1..n - 1, j \in 1..n - 1 : i < j /\ Tail(q)[i].epoch = e => Fresh(Tail(q)[j], e)
    BY <1>2, <1>3, <2>1
  <2>5. ASSUME NEW i \in 1..n - 1, Tail(q)[i].epoch = e
        PROVE  Tail(q)[i].item = IF i > 1 /\ Tail(q)[i - 1].epoch = e
                                   THEN NextItem(Tail(q)[i - 1]) ELSE y
    <3>1. CASE i = 1  BY <1>2, <1>4, <2>5, <3>1
    <3>2. CASE i > 1
      <4>1. PICK j \in 3..n : j = i + 1 /\ j - 1 = i /\ j \in 1..n /\ j > 1  BY <2>1, <3>2
      <4>2. Tail(q)[i] = q[j]  BY <1>2, <4>1
      <4>3. q[j].item = IF q[j - 1].epoch = e THEN NextItem(q[j - 1]) ELSE x
        BY <1>3, <2>5, <4>1, <4>2
      <4>4. PICK k \in 1..n - 1 : k = i - 1 /\ k + 1 = i  BY <3>2
      <4>5. Tail(q)[i - 1] = q[i]  BY <1>2, <4>4
      <4>6. q[j - 1].epoch # e => x = y  BY <1>4, <2>5, <4>1, <4>2
      <4> QED  BY <3>2, <4>1, <4>2, <4>3, <4>5, <4>6
    <3> QED  BY <1>1, <3>1, <3>2
  <2> QED  BY <1>2, <2>2, <2>3, <2>4, <2>5 DEF Chained
<1>5. 1 \in 1..n /\ n \in 1..n  BY <1>1
<1>6. CASE q[1].epoch = e
  <2>1. q[1].item = x  BY <1>3, <1>5, <1>6
  <2>2. \A i \in 2..n : Fresh(q[i], e)  BY <1>3, <1>5, <1>6
  <2>3. n > 1 /\ q[2].epoch = e => q[2].item = NextItem(q[1])  BY <1>3, <1>6
  <2>4. ASSUME NEW i \in 3..n, q[i].epoch = e, q[i - 1].epoch # e PROVE FALSE
    <3>1. PICK j \in 2..n : j = i - 1 /\ j # n /\ j \in 1..n  OBVIOUS
    <3> QED  BY <1>3, <2>2, <2>4, <3>1 DEF Fresh
  <2>5. Chained(Tail(q), NextItem(q[1]), e)  BY <1>4, <2>2, <2>3, <2>4
  <2>6. ASSUME q[n] # None
        PROVE  After(Tail(q), NextItem(q[1]), e) = After(q, x, e)
    <3>1. CASE n = 1
      <4>1. Len(q) = 1 /\ Len(Tail(q)) = 0  BY <1>1, <1>2, <3>1
      <4>2. After(q, x, e) = NextItem(q[1])  BY <1>6, <4>1, ShortChain, Zenon
      <4>3. After(Tail(q), NextItem(q[1]), e) = NextItem(q[1])  BY <4>1, ShortChain, Zenon
      <4> QED  BY <4>2, <4>3, Zenon
    <3>2. CASE n > 1
      <4>1. q[n].epoch = e  BY <2>2, <2>6, <3>2 DEF Fresh
      <4>2. Tail(q)[n - 1] = q[n]
        <5>1. PICK k \in 1..n - 1 : k = n - 1 /\ k + 1 = n  BY <1>1, <3>2
        <5> QED  BY <1>2, <5>1
      <4> QED  BY <1>1, <1>2, <3>2, <4>1, <4>2 DEF After
    <3> QED  BY <1>1, <3>1, <3>2
  <2> QED  BY <1>1, <1>6, <2>1, <2>5, <2>6
<1>7. CASE q[1].epoch # e
  <2>1. x = Header  BY <1>3, <1>5, <1>7 DEF Fresh
  <2>2. n > 1 /\ q[2].epoch = e => q[2].item = x  BY <1>3, <1>7
  <2>3. Chained(Tail(q), x, e)  BY <1>4, <2>1, <2>2
  <2>4. After(Tail(q), x, e) = After(q, x, e)
    <3>1. CASE n = 1
      <4>1. Len(q) = 1 /\ Len(Tail(q)) = 0  BY <1>1, <1>2, <3>1
      <4> QED  BY <1>7, <4>1, ShortChain, ZenonT(30)
    <3>2. CASE n > 1
      <4>1. PICK k \in 1..n - 1 : k = n - 1 /\ k + 1 = n  BY <1>1, <3>2
      <4>2. Tail(q)[n - 1] = q[n]  BY <1>2, <4>1
      <4> QED  BY <1>1, <1>2, <3>2, <4>2 DEF After
    <3> QED  BY <1>1, <3>1, <3>2
  <2> QED  BY <1>7, <2>1, <2>3, <2>4
<1> QED  BY <1>6, <1>7

(* The packet that comes next goes on with a chain.                        *)
LEMMA ChainGrown ==
  ASSUME NEW q \in Seq(Delivered), NEW p \in Packet, NEW e \in Nat, NEW x, Chained(q, x, e),
         p.epoch = e, p.item = After(q, x, e), \A i \in 1..Len(q) : q[i] # None
  PROVE  Chained(Append(q, p), x, e) /\ After(Append(q, p), x, e) = NextItem(p)
<1>1. PICK n \in Nat : n = Len(q)  BY Members
<1>2. p \in Delivered /\ p # None  BY Packets DEF Delivered
<1>3. /\ Append(q, p) \in Seq(Delivered) /\ Len(Append(q, p)) = n + 1
      /\ \A i \in 1..n : Append(q, p)[i] = q[i]
      /\ Append(q, p)[n + 1] = p
  BY <1>1, <1>2, Grown
<1> DEFINE r == Append(q, p)
<1>4. r = Append(q, p)  OBVIOUS
<1> HIDE DEF r
<1>5. /\ Len(r) = n + 1 /\ (\A i \in 1..n : r[i] = q[i]) /\ r[n + 1] = p
      /\ \A i \in 1..n + 1 : i \in 1..n \/ i = n + 1
  BY <1>3, <1>4
<1>6. /\ \A i \in 1..n : q[i].epoch <= e /\ q[i] # None
      /\ x # Header => \A i \in 1..n : Fresh(q[i], e)
      /\ \A i \in 1..n, j \in 1..n : i < j /\ q[i].epoch = e => Fresh(q[j], e)
      /\ \A i \in 1..n : q[i].epoch = e =>
           q[i].item = IF i > 1 /\ q[i - 1].epoch = e THEN NextItem(q[i - 1]) ELSE x
  BY <1>1 DEF Chained
<1>7. \A i \in 1..n + 1 : r[i].epoch <= e /\ r[i] # None  BY <1>2, <1>5, <1>6
<1>8. x # Header => \A i \in 1..n + 1 : Fresh(r[i], e)  BY <1>5, <1>6 DEF Fresh
<1>9. \A i \in 1..n + 1, j \in 1..n + 1 : i < j /\ r[i].epoch = e => Fresh(r[j], e)
  BY <1>5, <1>6 DEF Fresh
<1>10. ASSUME NEW i \in 1..n + 1, r[i].epoch = e
       PROVE  r[i].item = IF i > 1 /\ r[i - 1].epoch = e THEN NextItem(r[i - 1]) ELSE x
  <2>1. CASE i = n + 1
    <3>1. n > 0 => r[i - 1] = q[n]  BY <1>5, <2>1
    <3> QED  BY <1>1, <1>5, <2>1, <3>1 DEF After
  <2>2. CASE i \in 1..n
    <3>1. i > 1 => r[i - 1] = q[i - 1]  BY <1>5, <2>2
    <3> QED  BY <1>5, <1>6, <1>10, <2>2, <3>1
  <2> QED  BY <1>5, <2>1, <2>2
<1>11. After(r, x, e) = NextItem(p)  BY <1>1, <1>5 DEF After
<1>12. Chained(r, x, e)  BY <1>5, <1>7, <1>8, <1>9, <1>10 DEF Chained
<1> QED  BY <1>4, <1>11, <1>12

(* The end goes behind any chain.                                          *)
LEMMA ChainEnded ==
  ASSUME NEW q \in Seq(Delivered), NEW e \in Nat, NEW x, Chained(q, x, e),
         \A i \in 1..Len(q) : q[i] # None
  PROVE  Chained(Append(q, None), x, e)
<1>1. PICK n \in Nat : n = Len(q)  BY Members
<1>2. None \in Delivered /\ None.epoch = -1 /\ Fresh(None, e)  BY Packets DEF Delivered, Fresh
<1> DEFINE r == Append(q, None)
<1>3. r = Append(q, None)  OBVIOUS
<1> HIDE DEF r
<1>5. /\ Len(r) = n + 1 /\ (\A i \in 1..n : r[i] = q[i]) /\ r[n + 1] = None
      /\ \A i \in 1..n + 1 : i \in 1..n \/ i = n + 1
  BY <1>1, <1>2, <1>3, Grown
<1>6. /\ \A i \in 1..n : q[i].epoch <= e /\ q[i] # None
      /\ x # Header => \A i \in 1..n : Fresh(q[i], e)
      /\ \A i \in 1..n, j \in 1..n : i < j /\ q[i].epoch = e => Fresh(q[j], e)
      /\ \A i \in 1..n : q[i].epoch = e =>
           q[i].item = IF i > 1 /\ q[i - 1].epoch = e THEN NextItem(q[i - 1]) ELSE x
  BY <1>1 DEF Chained
<1>7. \A i \in 1..n + 1 : r[i].epoch <= e /\ (r[i] = None => i = n + 1)  BY <1>2, <1>5, <1>6
<1>8. x # Header => \A i \in 1..n + 1 : Fresh(r[i], e)  BY <1>2, <1>5, <1>6
<1>9. ASSUME NEW i \in 1..n + 1, NEW j \in 1..n + 1, i < j, r[i].epoch = e PROVE Fresh(r[j], e)
  <2>1. CASE j = n + 1  BY <1>2, <1>5, <2>1
  <2>2. CASE j \in 1..n /\ i \in 1..n  BY <1>5, <1>6, <1>9, <2>2
  <2> QED  BY <1>1, <1>5, <1>9, <2>1, <2>2
<1>10. ASSUME NEW i \in 1..n + 1, r[i].epoch = e
       PROVE  r[i].item = IF i > 1 /\ r[i - 1].epoch = e THEN NextItem(r[i - 1]) ELSE x
  <2>2. i \in 1..n  BY <1>2, <1>5, <1>10
  <2>1. i > 1 => r[i - 1] = q[i - 1]  BY <1>5, <2>2
  <2> QED  BY <1>5, <1>6, <1>10, <2>1, <2>2
<1>11. Chained(r, x, e)  BY <1>5, <1>7, <1>8, <1>9, <1>10 DEF Chained
<1> QED  BY <1>3, <1>11

Cut(r, n, a, b) == a = SubSeq(r, 1, n) /\ b = SubSeq(r, n + 1, Len(r))

(* A chain can be cut anywhere: the rest goes on behind what was taken.    *)
LEMMA ChainParted ==
  ASSUME NEW r \in Seq(Delivered), NEW e \in Nat, NEW y, Chained(r, y, e),
         NEW n \in 0..Len(r), NEW a \in Seq(Delivered), NEW b \in Seq(Delivered),
         Cut(r, n, a, b)
  PROVE  /\ Chained(a, y, e) /\ Chained(b, After(a, y, e), e)
         /\ (\A i \in 1..Len(r) : r[i] # None) =>
              After(b, After(a, y, e), e) = After(r, y, e)
<1>1. PICK m \in Nat : m = Len(r)  BY Members
<1>2. /\ Len(a) = n /\ \A i \in 1..n : a[i] = r[i]
      /\ Len(b) = m - n /\ \A i \in 1..m - n : b[i] = r[n + i]
  BY <1>1, Parted DEF Cut
<1>3. /\ \A i \in 1..m : r[i].epoch <= e /\ (r[i] = None => i = m)
      /\ y # Header => \A i \in 1..m : Fresh(r[i], e)
      /\ \A i \in 1..m, j \in 1..m : i < j /\ r[i].epoch = e => Fresh(r[j], e)
      /\ \A i \in 1..m : r[i].epoch = e =>
           r[i].item = IF i > 1 /\ r[i - 1].epoch = e THEN NextItem(r[i - 1]) ELSE y
  BY <1>1 DEF Chained
<1>4. n \in Nat /\ n <= m /\ \A i \in 1..n : i \in 1..m  BY <1>1
<1>5. Chained(a, y, e)
  <2>1. \A i \in 1..n : a[i].epoch <= e /\ (a[i] = None => i = n)  BY <1>2, <1>3, <1>4
  <2>2. y # Header => \A i \in 1..n : Fresh(a[i], e)  BY <1>2, <1>3, <1>4
  <2>3. \A i \in 1..n, j \in 1..n : i < j /\ a[i].epoch = e => Fresh(a[j], e)
    BY <1>2, <1>3, <1>4
  <2>4. ASSUME NEW i \in 1..n, a[i].epoch = e
        PROVE  a[i].item = IF i > 1 /\ a[i - 1].epoch = e THEN NextItem(a[i - 1]) ELSE y
    <3>1. i > 1 => a[i - 1] = r[i - 1]  BY <1>2
    <3> QED  BY <1>2, <1>3, <1>4, <2>4, <3>1
  <2> QED  BY <1>2, <2>1, <2>2, <2>3, <2>4 DEF Chained
<1>6. PICK z : z = After(a, y, e)  OBVIOUS
<1>7. z = IF n > 0 /\ r[n].epoch = e THEN NextItem(r[n]) ELSE y
  <2>1. n > 0 => a[n] = r[n]  BY <1>2
  <2> QED  BY <1>2, <1>6, <2>1 DEF After
<1>8. \A i \in 1..m - n : n + i \in 1..m  BY <1>4
<1>9. Chained(b, z, e)
  <2>1. \A i \in 1..m - n : b[i].epoch <= e /\ (b[i] = None => i = m - n)
    BY <1>2, <1>3, <1>4, <1>8
  <2>2. ASSUME z # Header, NEW i \in 1..m - n PROVE Fresh(b[i], e)
    <3>1. CASE n > 0 /\ r[n].epoch = e
      <4>1. n \in 1..m /\ n + i \in 1..m /\ n < n + i  BY <1>1, <1>4, <1>8, <3>1
      <4> QED  BY <1>2, <1>3, <3>1, <4>1
    <3>2. CASE z = y  BY <1>2, <1>3, <1>8, <2>2, <3>2
    <3> QED  BY <1>7, <3>1, <3>2
  <2>3. ASSUME NEW i \in 1..m - n, NEW j \in 1..m - n, i < j, b[i].epoch = e
        PROVE  Fresh(b[j], e)
    <3>1. n + i \in 1..m /\ n + j \in 1..m /\ n + i < n + j  BY <1>4, <1>8, <2>3
    <3> QED  BY <1>2, <1>3, <2>3, <3>1
  <2>4. ASSUME NEW i \in 1..m - n, b[i].epoch = e
        PROVE  b[i].item = IF i > 1 /\ b[i - 1].epoch = e THEN NextItem(b[i - 1]) ELSE z
    <3>1. PICK k \in 1..m : k = n + i /\ k - 1 = n + i - 1  BY <1>4, <1>8
    <3>2. b[i] = r[k] /\ r[k].epoch = e  BY <1>2, <2>4, <3>1
    <3>3. r[k].item = IF k > 1 /\ r[k - 1].epoch = e THEN NextItem(r[k - 1]) ELSE y
      BY <1>3, <3>2
    <3>4. CASE i = 1
      <4>1. k = n + 1 /\ k - 1 = n /\ (k > 1 <=> n > 0)  BY <1>4, <3>1, <3>4
      <4>2. r[k].item = z  BY <1>7, <3>3, <4>1
      <4>3. ~(i > 1) /\ b[i].item = z  BY <3>2, <3>4, <4>2
      <4> QED  BY <4>3, Zenon
    <3>5. CASE i > 1
      <4>1. PICK h \in 1..m - n : h = i - 1 /\ n + h = k - 1  BY <1>4, <3>1, <3>5
      <4>2. b[i - 1] = r[k - 1] /\ k > 1  BY <1>2, <1>4, <3>1, <3>5, <4>1
      <4>3. CASE r[k - 1].epoch = e  BY <3>2, <3>3, <3>5, <4>2, <4>3
      <4>4. CASE r[k - 1].epoch # e
        <5>1. ASSUME n > 0, r[n].epoch = e PROVE FALSE
          <6>1. n \in 1..m  BY <1>1, <1>4, <5>1
          <6>2. k - 1 \in 1..m /\ n < k - 1 /\ k - 1 # m
            BY <1>1, <1>4, <3>1, <3>5
          <6>3. PICK j : j = k - 1  OBVIOUS
          <6> QED  BY <1>3, <4>4, <5>1, <6>1, <6>2, <6>3 DEF Fresh
        <5>2. z = y  BY <1>7, <5>1
        <5> QED  BY <3>2, <3>3, <4>2, <4>4, <5>2
      <4> QED  BY <4>3, <4>4
    <3> QED  BY <1>1, <1>4, <3>4, <3>5
  <2> QED  BY <1>2, <2>1, <2>2, <2>3, <2>4 DEF Chained
<1>10. ASSUME \A i \in 1..m : r[i] # None
       PROVE  After(b, z, e) = After(r, y, e)
  <2>1. CASE n = m
    <3>1. Len(b) = 0  BY <1>2, <1>4, <2>1
    <3>2. After(b, z, e) = z  BY <3>1, ShortChain, Zenon
    <3> QED  BY <1>1, <1>7, <2>1, <3>2 DEF After
  <2>2. CASE n < m
    <3>1. PICK h \in 1..m - n : h = m - n /\ n + h = m  BY <1>4, <2>2
    <3>2. b[m - n] = r[m] /\ m - n > 0 /\ m > 0  BY <1>2, <1>4, <2>2, <3>1
    <3>3. CASE r[m].epoch = e  BY <1>1, <1>2, <3>2, <3>3 DEF After
    <3>4. CASE r[m].epoch # e
      <4>1. ~(n > 0 /\ r[n].epoch = e)
        <5>1. n > 0 => n \in 1..m /\ m \in 1..m  BY <1>4
        <5> QED  BY <1>3, <1>10, <2>2, <3>4, <5>1 DEF Fresh
      <4>2. z = y  BY <1>7, <4>1
      <4>3. After(r, y, e) = y  BY <1>1, <3>4 DEF After
      <4>4. After(b, z, e) = z  BY <1>2, <3>2, <3>4 DEF After
      <4> QED  BY <4>2, <4>3, <4>4
    <3> QED  BY <3>3, <3>4
  <2> QED  BY <1>4, <2>1, <2>2
<1> QED  BY <1>1, <1>5, <1>6, <1>9, <1>10

(* Chains of which the second goes on where the first stops are one.       *)
LEMMA ChainJoined ==
  ASSUME NEW q \in Seq(Delivered), NEW r \in Seq(Delivered), NEW e \in Nat, NEW x,
         Chained(q, x, e), Chained(r, After(q, x, e), e), \A i \in 1..Len(q) : q[i] # None
  PROVE  /\ Chained(q \o r, x, e)
         /\ (\A i \in 1..Len(r) : r[i] # None) =>
              After(q \o r, x, e) = After(r, After(q, x, e), e)
<1>1. PICK n \in Nat, m \in Nat : n = Len(q) /\ m = Len(r)  BY Members
<1> DEFINE s == q \o r
<1>2. s = q \o r  OBVIOUS
<1> HIDE DEF s
<1>3. /\ Len(s) = n + m /\ (\A i \in 1..n : s[i] = q[i])
      /\ \A i \in 1..m : s[n + i] = r[i]
  BY <1>1, <1>2, Joined
<1>4. PICK z : z = After(q, x, e)  OBVIOUS
<1>5. z = IF n > 0 /\ q[n].epoch = e THEN NextItem(q[n]) ELSE x  BY <1>1, <1>4 DEF After
<1>6. /\ \A i \in 1..n : q[i].epoch <= e /\ q[i] # None
      /\ x # Header => \A i \in 1..n : Fresh(q[i], e)
      /\ \A i \in 1..n, j \in 1..n : i < j /\ q[i].epoch = e => Fresh(q[j], e)
      /\ \A i \in 1..n : q[i].epoch = e =>
           q[i].item = IF i > 1 /\ q[i - 1].epoch = e THEN NextItem(q[i - 1]) ELSE x
  BY <1>1 DEF Chained
<1>7. /\ \A i \in 1..m : r[i].epoch <= e /\ (r[i] = None => i = m)
      /\ z # Header => \A i \in 1..m : Fresh(r[i], e)
      /\ \A i \in 1..m, j \in 1..m : i < j /\ r[i].epoch = e => Fresh(r[j], e)
      /\ \A i \in 1..m : r[i].epoch = e =>
           r[i].item = IF i > 1 /\ r[i - 1].epoch = e THEN NextItem(r[i - 1]) ELSE z
  BY <1>1, <1>4 DEF Chained
<1>8. \A i \in 1..n + m : i \in 1..n \/ \E k \in 1..m : i = n + k /\ k = i - n
  <2> SUFFICES ASSUME NEW i \in 1..n + m, i \notin 1..n
               PROVE  \E k \in 1..m : i = n + k /\ k = i - n
    OBVIOUS
  <2>1. i - n \in 1..m /\ i = n + (i - n)  OBVIOUS
  <2> QED  BY <2>1
<1>9. \A i \in 1..n : q[i].epoch = e => z # Header
  <2> SUFFICES ASSUME NEW i \in 1..n, q[i].epoch = e PROVE z # Header  OBVIOUS
  <2>1. n \in 1..n /\ q[n] \in Packet
    <3>1. n \in 1..n  OBVIOUS
    <3>2. q[n] \in Delivered  BY <1>1, <3>1, Members
    <3> QED  BY <1>6, <3>1, <3>2, Packets
  <2>2. q[n].epoch = e  BY <1>6, <2>1, SMTT(20) DEF Fresh
  <2> QED  BY <1>5, <2>1, <2>2, Packets, Constants
<1>10. x # Header => z # Header  BY <1>5, <1>9
<1>11. ASSUME NEW i \in 1..n + m
       PROVE  s[i].epoch <= e /\ (s[i] = None => i = n + m)
  <2>1. CASE i \in 1..n  BY <1>3, <1>6, <2>1
  <2>2. CASE \E k \in 1..m : i = n + k /\ k = i - n  BY <1>3, <1>7, <2>2
  <2> QED  BY <1>8, <2>1, <2>2
<1>12. ASSUME x # Header, NEW i \in 1..n + m PROVE Fresh(s[i], e)
  <2>1. CASE i \in 1..n  BY <1>3, <1>6, <1>12, <2>1
  <2>2. CASE \E k \in 1..m : i = n + k /\ k = i - n  BY <1>3, <1>7, <1>10, <1>12, <2>2
  <2> QED  BY <1>8, <2>1, <2>2
<1>13. ASSUME NEW i \in 1..n + m, NEW j \in 1..n + m, i < j, s[i].epoch = e
       PROVE  Fresh(s[j], e)
  <2>1. CASE j \in 1..n
    <3>1. i \in 1..n  BY <1>13, <2>1
    <3> QED  BY <1>3, <1>6, <1>13, <2>1, <3>1
  <2>2. ASSUME NEW k \in 1..m, j = n + k PROVE Fresh(s[j], e)
    <3>1. s[j] = r[k]  BY <1>3, <2>2
    <3>2. CASE i \in 1..n  BY <1>3, <1>7, <1>9, <1>13, <3>1, <3>2
    <3>3. ASSUME NEW h \in 1..m, i = n + h PROVE Fresh(r[k], e)
      <4>1. h < k /\ s[i] = r[h]  BY <1>3, <1>13, <2>2, <3>3
      <4> QED  BY <1>7, <1>13, <4>1
    <3> QED  BY <1>8, <3>1, <3>2, <3>3
  <2> QED  BY <1>8, <2>1, <2>2
<1>14. ASSUME NEW i \in 1..n + m, s[i].epoch = e
       PROVE  s[i].item = IF i > 1 /\ s[i - 1].epoch = e THEN NextItem(s[i - 1]) ELSE x
  <2>1. CASE i \in 1..n
    <3>1. i > 1 => s[i - 1] = q[i - 1]  BY <1>3, <2>1
    <3> QED  BY <1>3, <1>6, <1>14, <2>1, <3>1
  <2>2. ASSUME NEW k \in 1..m, i = n + k
        PROVE  s[i].item = IF i > 1 /\ s[i - 1].epoch = e THEN NextItem(s[i - 1]) ELSE x
    <3>1. s[i] = r[k] /\ r[k].epoch = e  BY <1>3, <1>14, <2>2
    <3>2. r[k].item = IF k > 1 /\ r[k - 1].epoch = e THEN NextItem(r[k - 1]) ELSE z
      BY <1>7, <3>1
    <3>3. CASE k = 1
      <4>1. i - 1 = n /\ (i > 1 <=> n > 0) /\ i = n + 1  BY <2>2, <3>3
      <4>2. n > 0 => s[i - 1] = q[n]  BY <1>3, <4>1
      <4> QED  BY <1>5, <3>1, <3>2, <3>3, <4>1, <4>2
    <3>4. CASE k > 1
      <4>1. PICK h \in 1..m : h = k - 1 /\ n + h = i - 1  BY <2>2, <3>4
      <4>2. s[i - 1] = r[k - 1] /\ i > 1  BY <1>3, <2>2, <3>4, <4>1
      <4>3. CASE r[k - 1].epoch = e  BY <3>1, <3>2, <3>4, <4>2, <4>3
      <4>4. CASE r[k - 1].epoch # e
        <5>1. z = Header  BY <1>7, <3>4, <4>1, <4>4 DEF Fresh
        <5>2. z = x  BY <1>5, <1>9, <5>1
        <5> QED  BY <3>1, <3>2, <4>2, <4>4, <5>2
      <4> QED  BY <4>3, <4>4
    <3> QED  BY <3>3, <3>4
  <2> QED  BY <1>8, <2>1, <2>2
<1>15. Chained(s, x, e)  BY <1>3, <1>11, <1>12, <1>13, <1>14 DEF Chained
<1>16. ASSUME \A i \in 1..m : r[i] # None
       PROVE  After(s, x, e) = After(r, z, e)
  <2>1. CASE m = 0
    <3>1. After(r, z, e) = z  BY <1>1, <2>1, ShortChain, Zenon
    <3>2. n > 0 => s[n] = q[n]  BY <1>3
    <3>3. Len(s) = n  BY <1>3, <2>1
    <3> QED  BY <1>5, <3>1, <3>2, <3>3 DEF After
  <2>2. CASE m > 0
    <3>1. m \in 1..m /\ s[n + m] = r[m]  BY <1>3, <2>2
    <3>2. CASE r[m].epoch = e
      <4>1. After(r, z, e) = NextItem(r[m])  BY <1>1, <2>2, <3>2 DEF After
      <4> QED  BY <1>3, <2>2, <3>1, <3>2, <4>1 DEF After
    <3>3. CASE r[m].epoch # e
      <4>1. After(r, z, e) = z /\ After(s, x, e) = x  BY <1>1, <1>3, <2>2, <3>1, <3>3 DEF After
      <4>2. z = Header  BY <1>7, <1>16, <3>1, <3>3 DEF Fresh
      <4>3. ~(n > 0 /\ q[n].epoch = e)  BY <1>9, <4>2
      <4> QED  BY <1>5, <4>1, <4>3
    <3> QED  BY <3>2, <3>3
  <2> QED  BY <2>1, <2>2
<1> QED  BY <1>1, <1>2, <1>4, <1>15, <1>16

-----------------------------------------------------------------------------
(* Types                                                                   *)

Batches == Seq(Packet)
Ways == Seq(Delivered)
ReceiverType == [pc : {"reading", "putting", "last", "ended"}, batch : Batches, out : Ways]
ConsumerType == [pc : {"loading", "getting", "waiting", "ended"}, first : BOOLEAN,
                 held : Delivered]
Loopback == [chunks : Batches, finished : BOOLEAN]
LoadType == [gen : Nat, reloading : BOOLEAN, accept : BOOLEAN,
             restarted : BOOLEAN, attached : BOOLEAN, prebuffered : BOOLEAN,
             released : BOOLEAN, eos : Epoch \cup {-1}]
MpvType == [file : Nat, restarted : BOOLEAN, attached : BOOLEAN, ended : BOOLEAN]
PlayedType == [epoch : Epoch, data : Seq(Header..Trailer)]

NetworkOK == /\ epoch \in Epoch /\ link \in {"up", "lost"}
             /\ server \in [epoch : Epoch, next : Header..EOS + 1] /\ server.epoch <= epoch
ReceiverOK == receiver \in ReceiverType /\ Len(receiver.batch) < DownBatch
QueueOK == /\ items \in Ways /\ Len(items) <= BridgeRoom
           /\ available \in BOOLEAN /\ waking \in BOOLEAN /\ queue_closed \in BOOLEAN
ConsumerOK == consumer \in ConsumerType
BufferOK == buffer = <<>> \/ \E b \in Loopback : buffer = <<b>>
LoadOK == load \in LoadType
MpvOK == mpv \in MpvType
SignalType == [kind : {"restarted", "attached", "ended", "broken"}, gen : Nat]
SignalsOK == attaching \subseteq Nat /\ signals \subseteq SignalType
PlayedOK == /\ outcome \in {"playing", "finished", "failed"} /\ played \in PlayedType
            /\ failures \in 0..MaxFailures

TypesOK == /\ NetworkOK /\ ReceiverOK /\ QueueOK /\ ConsumerOK /\ BufferOK
           /\ LoadOK /\ MpvOK /\ SignalsOK /\ PlayedOK

(* The buffer is empty or one loopback stream.                             *)
LEMMA OneLoopback ==
  ASSUME NEW S, NEW q
  PROVE  (q \in Seq(S) /\ Len(q) <= 1) <=> (q = <<>> \/ \E b \in S : q = <<b>>)
<1>1. ASSUME q \in Seq(S), Len(q) <= 1 PROVE q = <<>> \/ \E b \in S : q = <<b>>
  <2>1. Len(q) = 0 \/ Len(q) = 1
    <3>1. PICK n \in Nat : n = Len(q)  BY <1>1, Members
    <3>2. n <= 1  BY <1>1, <3>1, Zenon
    <3>3. n = 0 \/ n = 1  BY <3>2
    <3> QED  BY <3>1, <3>3, Zenon
  <2>2. CASE Len(q) = 1
    <3>1. q[1] \in S  BY <1>1, <2>2
    <3>2. <<q[1]>> \in Seq(S) /\ Len(<<q[1]>>) = 1 /\ <<q[1]>>[1] = q[1]  BY <3>1, Single
    <3>3. q = <<q[1]>>
      <4>1. \A i \in 1..Len(q) : q[i] = <<q[1]>>[i]  BY <2>2, <3>2
      <4> QED  BY <1>1, <2>2, <3>2, <4>1, SeqEqual
    <3> QED  BY <3>1, <3>3
  <2>3. CASE Len(q) = 0  BY <1>1, <2>3
  <2> QED  BY <2>1, <2>2, <2>3
<1>2. ASSUME NEW b \in S PROVE <<b>> \in Seq(S) /\ Len(<<b>>) <= 1  BY Single
<1>3. <<>> \in Seq(S) /\ Len(<<>>) <= 1  OBVIOUS
<1> QED  BY <1>1, <1>2, <1>3

(* With what bounds the generations, these are the types.                  *)
LEMMA TypeParts == TypesOK /\ LoadInv /\ LoadsInv => TypeOK
<1> SUFFICES ASSUME TypesOK, LoadInv, LoadsInv PROVE TypeOK  OBVIOUS
<1>0. /\ NetworkOK /\ ReceiverOK /\ QueueOK /\ ConsumerOK /\ BufferOK
      /\ LoadOK /\ MpvOK /\ SignalsOK /\ PlayedOK
  BY DEF TypesOK
<1>1. buffer \in Seq(Loopback) /\ Len(buffer) <= 1
  BY <1>0, OneLoopback, Zenon DEF BufferOK
<1>2. load.gen \in Nat /\ load.gen <= 3 * MaxEpoch + 1
  <2>1. load.gen \in Nat  BY <1>0 DEF LoadOK, LoadType
  <2>2. PICK k \in Nat : k = epoch /\ k <= MaxEpoch  BY <1>0, Constants DEF NetworkOK, Epoch
  <2>3. load.gen <= Loads  BY <2>1 DEF Loads
  <2>4. Loads \in Nat  BY <2>1 DEF Loads
  <2> QED  BY <2>1, <2>2, <2>3, <2>4, Constants DEF LoadsInv
<1>3. \A g \in Nat : g <= load.gen => g \in Generation
  BY <1>2, Constants DEF Generation
<1>4. load.gen \in Generation /\ mpv.file \in Generation
  BY <1>0, <1>2, <1>3 DEF LoadInv, MpvOK, MpvType
<1>5. attaching \subseteq Generation /\ signals \subseteq Signal
  BY <1>0, <1>3 DEF LoadInv, SignalsOK, SignalType, Signal
<1>6. load \in [gen : Generation, reloading : BOOLEAN, accept : BOOLEAN,
               restarted : BOOLEAN, attached : BOOLEAN, prebuffered : BOOLEAN,
               released : BOOLEAN, eos : Epoch \cup {-1}]
  BY <1>0, <1>4 DEF LoadOK, LoadType
<1>7. mpv \in [file : Generation, restarted : BOOLEAN, attached : BOOLEAN, ended : BOOLEAN]
  BY <1>0, <1>4 DEF MpvOK, MpvType
<1> QED
  BY <1>0, <1>1, <1>5, <1>6, <1>7, Zenon DEF TypeOK, NetworkOK, ReceiverOK, QueueOK, ConsumerOK,
     PlayedOK, ReceiverType, ConsumerType, Loopback, PlayedType, Batches, Ways, Delivered

(* The records of the model, taken apart.                                  *)
LEMMA Fields ==
  ASSUME TypesOK
  PROVE  /\ epoch \in Epoch /\ epoch \in Nat /\ server.epoch \in Epoch /\ server.epoch \in Nat
         /\ server.epoch <= epoch /\ server.next \in 0..EOS + 1
         /\ receiver.batch \in Batches /\ receiver.batch \in Ways /\ receiver.out \in Ways
         /\ items \in Ways /\ consumer.held \in Delivered
         /\ Chunks \in Batches /\ Chunks \in Ways
         /\ load.gen \in Nat /\ load.eos \in Int /\ mpv.file \in Nat
         /\ played.epoch \in Epoch /\ played.epoch \in Nat /\ played.data \in Seq(Header..Trailer)
         /\ Len(played.data) \in Nat
<1>0. /\ NetworkOK /\ ReceiverOK /\ QueueOK /\ ConsumerOK /\ BufferOK
      /\ LoadOK /\ MpvOK /\ SignalsOK /\ PlayedOK
  BY DEF TypesOK
<1>1. \A e \in Epoch : e \in Nat  BY Constants DEF Epoch
<1>2. \A b \in Batches : b \in Ways
  <2> SUFFICES ASSUME NEW b \in Seq(Packet) PROVE b \in Seq(Delivered)  BY DEF Batches, Ways
  <2>1. Packet \subseteq Delivered  BY DEF Delivered
  <2> QED  BY <2>1, SeqMonotonic
<1>3. receiver.batch \in Batches /\ receiver.out \in Ways
  BY <1>0 DEF ReceiverOK, ReceiverType
<1>4. items \in Ways /\ consumer.held \in Delivered
  BY <1>0 DEF QueueOK, ConsumerOK, ConsumerType
<1>5. Chunks \in Batches
  <2>1. CASE buffer = <<>>
    <3>1. <<>> \in Batches  BY Nothing DEF Batches
    <3> QED  BY <2>1, <3>1, Zenon DEF Chunks
  <2>2. ASSUME NEW b \in Loopback, buffer = <<b>> PROVE Chunks \in Batches
    <3>1. b.chunks \in Batches  BY DEF Loopback
    <3>2. buffer # <<>> /\ buffer[1] = b  BY <2>2, Single
    <3> QED  BY <3>1, <3>2, Zenon DEF Chunks
  <2> QED  BY <1>0, <2>1, <2>2, Zenon DEF BufferOK
<1>6. load.gen \in Nat /\ load.eos \in Epoch \cup {-1} /\ mpv.file \in Nat
  BY <1>0 DEF LoadOK, LoadType, MpvOK, MpvType
<1>7. played.epoch \in Epoch /\ played.data \in Seq(Header..Trailer)
  BY <1>0 DEF PlayedOK, PlayedType
<1>8. server.epoch \in Epoch /\ server.next \in 0..EOS + 1 /\ server.epoch <= epoch /\ epoch \in Epoch
  BY <1>0, Constants DEF NetworkOK
<1>9. Len(played.data) \in Nat  BY <1>7, Members
<1> QED  BY <1>1, <1>2, <1>3, <1>4, <1>5, <1>6, <1>7, <1>8, <1>9

PlayerInv == TypesOK /\ StreamInv /\ LoadInv /\ EndInv /\ LoadsInv

-----------------------------------------------------------------------------
(* What a step leaves alone                                                *)

LEMMA Parts ==
  PlayerInv <=>
    /\ NetworkOK /\ ReceiverOK /\ QueueOK /\ ConsumerOK /\ BufferOK
    /\ LoadOK /\ MpvOK /\ SignalsOK /\ PlayedOK
    /\ PlayedInv /\ BufferInv /\ ConsumerInv /\ ReceiverInv /\ WayInv
    /\ LoadInv /\ EndInv /\ LoadsInv
BY DEF PlayerInv, TypesOK, StreamInv

LEMMA PartsNext ==
  PlayerInv' <=>
    /\ NetworkOK' /\ ReceiverOK' /\ QueueOK' /\ ConsumerOK' /\ BufferOK'
    /\ LoadOK' /\ MpvOK' /\ SignalsOK' /\ PlayedOK'
    /\ PlayedInv' /\ BufferInv' /\ ConsumerInv' /\ ReceiverInv' /\ WayInv'
    /\ LoadInv' /\ EndInv' /\ LoadsInv'
BY DEF PlayerInv, TypesOK, StreamInv

LEMMA SameTypes ==
  ASSUME TypesOK
  PROVE  /\ UNCHANGED <<epoch, networkVars>> => NetworkOK'
         /\ UNCHANGED receiver => ReceiverOK'
         /\ UNCHANGED queueVars => QueueOK'
         /\ UNCHANGED consumer => ConsumerOK'
         /\ UNCHANGED buffer => BufferOK'
         /\ UNCHANGED load => LoadOK'
         /\ UNCHANGED mpv => MpvOK'
         /\ UNCHANGED <<attaching, signals>> => SignalsOK'
         /\ UNCHANGED <<outcome, played, failures>> => PlayedOK'
<1>1. UNCHANGED <<epoch, networkVars>> => NetworkOK'
  BY DEF TypesOK, NetworkOK, networkVars
<1>2. UNCHANGED receiver => ReceiverOK'
  BY DEF TypesOK, ReceiverOK
<1>3. UNCHANGED queueVars => QueueOK'
  BY DEF TypesOK, QueueOK, queueVars
<1>4. UNCHANGED consumer => ConsumerOK'
  BY DEF TypesOK, ConsumerOK
<1>5. UNCHANGED buffer => BufferOK'
  BY DEF TypesOK, BufferOK
<1>6. UNCHANGED load => LoadOK'
  BY DEF TypesOK, LoadOK
<1>7. UNCHANGED mpv => MpvOK'
  BY DEF TypesOK, MpvOK
<1>8. UNCHANGED <<attaching, signals>> => SignalsOK'
  BY DEF TypesOK, SignalsOK
<1>9. UNCHANGED <<outcome, played, failures>> => PlayedOK'
  BY DEF TypesOK, PlayedOK
<1> QED
  BY <1>1, <1>2, <1>3, <1>4, <1>5, <1>6, <1>7, <1>8, <1>9

(* How far the stream has come, if what mpv was given and is to be given   *)
(* stays the same.                                                         *)
LEMMA SamePlace ==
  ASSUME UNCHANGED <<epoch, buffer, played>>
  PROVE  /\ Chunks' = Chunks /\ Given' = Given /\ Buffered' = Buffered
         /\ load'.eos = load.eos /\ consumer'.held = consumer.held => Consumed' = Consumed
<1>1. Chunks' = Chunks /\ Given' = Given  BY DEF Chunks, Given
<1>2. Buffered' = Buffered  BY <1>1 DEF Buffered, After
<1>3. load'.eos = load.eos /\ consumer'.held = consumer.held => Consumed' = Consumed
  BY <1>2 DEF Consumed
<1> QED  BY <1>1, <1>2, <1>3

LEMMA SameStream ==
  ASSUME StreamInv
  PROVE  /\ UNCHANGED <<epoch, played>> => PlayedInv'
         /\ UNCHANGED <<epoch, buffer, played>> /\ load'.eos = load.eos
              /\ load'.reloading = load.reloading => BufferInv'
         /\ UNCHANGED <<epoch, buffer, consumer>> => ConsumerInv'
         /\ UNCHANGED <<receiver, items, link, queue_closed>> => ReceiverInv'
         /\ UNCHANGED <<epoch, networkVars, receiver, items, queue_closed>>
              /\ Consumed' = Consumed => WayInv'
<1>1. UNCHANGED <<epoch, played>> => PlayedInv'
  BY DEF StreamInv, PlayedInv, Beginning
<1>2. UNCHANGED <<epoch, buffer, played>> /\ load'.eos = load.eos
        /\ load'.reloading = load.reloading => BufferInv'
  <2> SUFFICES ASSUME UNCHANGED <<epoch, buffer, played>>, load'.eos = load.eos,
                      load'.reloading = load.reloading
               PROVE  BufferInv'
    OBVIOUS
  <2>1. Chunks' = Chunks /\ Given' = Given /\ Buffered' = Buffered  BY SamePlace
  <2>2. Chained(Chunks', Given', epoch') = Chained(Chunks, Given, epoch)  BY <2>1
  <2> QED  BY <2>1, <2>2 DEF StreamInv, BufferInv
<1>3. UNCHANGED <<epoch, buffer, consumer>> => ConsumerInv'
  BY DEF StreamInv, ConsumerInv
<1>4. UNCHANGED <<receiver, items, link, queue_closed>> => ReceiverInv'
  BY DEF StreamInv, ReceiverInv
<1>5. UNCHANGED <<epoch, networkVars, receiver, items, queue_closed>>
        /\ Consumed' = Consumed => WayInv'
  <2> SUFFICES ASSUME UNCHANGED <<epoch, networkVars, receiver, items, queue_closed>>,
                      Consumed' = Consumed
               PROVE  WayInv'
    OBVIOUS
  <2>1. Queued' = Queued  BY DEF Queued
  <2>2. Published' = Published  BY <2>1 DEF Published
  <2>3. Received' = Received  BY <2>2 DEF Received
  <2> QED  BY <2>1, <2>2, <2>3 DEF StreamInv, WayInv, networkVars
<1> QED  BY <1>1, <1>2, <1>3, <1>4, <1>5

LEMMA SameLoad ==
  ASSUME LoadInv, EndInv, LoadsInv
  PROVE  /\ UNCHANGED <<load, mpv, attaching, signals>> => LoadInv'
         /\ UNCHANGED <<epoch, load, signals, outcome>> /\ Chunks' = Chunks => EndInv'
         /\ UNCHANGED <<epoch, buffer>> /\ load'.gen = load.gen /\ Consumed' = Consumed
              /\ consumer'.first = consumer.first
              /\ (consumer.pc = "loading" <=> consumer'.pc = "loading") => LoadsInv'
<1>1. UNCHANGED <<load, mpv, attaching, signals>> => LoadInv'
  BY DEF LoadInv, Said, Shown
<1>2. UNCHANGED <<epoch, load, signals, outcome>> /\ Chunks' = Chunks => EndInv'
  BY DEF EndInv, AllGiven, Said
<1>3. UNCHANGED <<epoch, buffer>> /\ load'.gen = load.gen /\ Consumed' = Consumed
        /\ consumer'.first = consumer.first
        /\ (consumer.pc = "loading" <=> consumer'.pc = "loading") => LoadsInv'
  BY DEF LoadsInv, Loads
<1> QED  BY <1>1, <1>2, <1>3

-----------------------------------------------------------------------------
(* The beginning                                                           *)

LEMMA Beginnings == Init => PlayerInv
<1> SUFFICES ASSUME Init PROVE PlayerInv  OBVIOUS
<1>1. 0 \in Epoch /\ Header \in Header..EOS + 1 /\ 0 \in 0..MaxFailures
  BY Constants DEF Epoch
<1>2. <<>> \in Batches /\ <<>> \in Ways /\ Len(<<>>) = 0 /\ <<>> \in Seq(Header..Trailer)
  BY Nothing DEF Batches, Ways
<1>3. NetworkOK  BY <1>1 DEF Init, NetworkOK
<1>4. ReceiverOK  BY <1>2, Constants DEF Init, ReceiverOK, ReceiverType
<1>5. QueueOK
  <2>1. items = <<>> /\ available = FALSE /\ waking = FALSE /\ queue_closed = FALSE
    BY DEF Init
  <2>2. 0 <= BridgeRoom  BY Constants
  <2> QED  BY <1>2, <2>1, <2>2, Zenon DEF QueueOK
<1>6. ConsumerOK  BY DEF Init, ConsumerOK, ConsumerType, Delivered
<1>7. BufferOK  BY DEF Init, BufferOK
<1>8. LoadOK  BY DEF Init, LoadOK, LoadType
<1>9. MpvOK  BY DEF Init, MpvOK, MpvType
<1>10. SignalsOK  BY DEF Init, SignalsOK
<1>11. PlayedOK  BY <1>1, <1>2 DEF Init, PlayedOK, PlayedType
<1>12. Chunks = <<>> /\ Given = Header
  BY <1>2 DEF Init, Chunks, Given
<1>13. Buffered = Header /\ Consumed = Header
  <2>1. Buffered = Header  BY <1>12, EmptyChain DEF Buffered
  <2>2. load.eos = -1 /\ epoch = 0 /\ consumer.held.epoch = -1  BY Packets DEF Init
  <2> QED  BY <2>1, <2>2 DEF Consumed
<1>14. Queued = Header /\ Published = Header /\ Received = Header
  <2>1. items = <<>> /\ receiver.out = <<>> /\ receiver.batch = <<>>  BY DEF Init
  <2>2. Queued = Header  BY <1>13, <2>1, EmptyChain DEF Queued
  <2>3. Published = Header  BY <2>1, <2>2, EmptyChain DEF Published
  <2>4. Received = After(<<>>, Published, epoch)  BY <2>1 DEF Received
  <2>5. Received = Published  BY <2>4, EmptyChain, Zenon
  <2> QED  BY <2>2, <2>3, <2>5
<1>15. PlayedInv  BY <1>1, <1>2, Constants DEF Init, PlayedInv, Beginning
<1>16. BufferInv  BY <1>2, <1>12, EmptyChain DEF Init, BufferInv
<1>17. ConsumerInv  BY DEF Init, ConsumerInv
<1>18. ReceiverInv  BY <1>2 DEF Init, ReceiverInv
<1>19. WayInv  BY <1>14, EmptyChain DEF Init, WayInv
<1>20. LoadInv  BY DEF Init, LoadInv, Said, Shown
<1>21. EndInv  BY DEF Init, EndInv, Said
<1>22. LoadsInv  BY <1>13 DEF Init, LoadsInv, Loads
<1> QED
  BY <1>3, <1>4, <1>5, <1>6, <1>7, <1>8, <1>9, <1>10, <1>11, <1>15, <1>16, <1>17, <1>18,
     <1>19, <1>20, <1>21, <1>22, Parts

-----------------------------------------------------------------------------
(* Steps that leave the packets where they are                             *)

LEMMA Aside ==
  ASSUME PlayerInv, UNCHANGED <<epoch, networkVars, receiver, items, queue_closed, buffer, played>>,
         load'.eos = load.eos, load'.reloading = load.reloading, load'.gen = load.gen,
         consumer'.held = consumer.held, consumer'.first = consumer.first,
         consumer.pc = "loading" <=> consumer'.pc = "loading"
  PROVE  /\ NetworkOK' /\ ReceiverOK' /\ BufferOK' /\ PlayedInv' /\ BufferInv' /\ ConsumerInv'
         /\ ReceiverInv' /\ WayInv' /\ LoadsInv' /\ Chunks' = Chunks
<1>1. TypesOK /\ StreamInv /\ LoadInv /\ EndInv /\ LoadsInv  BY DEF PlayerInv
<1>2. Consumed' = Consumed /\ Chunks' = Chunks  BY SamePlace
<1>3. NetworkOK' /\ ReceiverOK' /\ BufferOK'  BY <1>1, SameTypes
<1>4. PlayedInv' /\ BufferInv'  BY <1>1, SameStream
<1>5. ReceiverInv'  BY <1>1, SameStream DEF networkVars
<1>6. WayInv'  BY <1>1, <1>2, SameStream
<1>7. ConsumerInv'  BY <1>1 DEF StreamInv, ConsumerInv
<1>8. LoadsInv'  BY <1>1, <1>2, SameLoad
<1> QED  BY <1>2, <1>3, <1>4, <1>5, <1>6, <1>7, <1>8

LEMMA QueueSteps ==
  ASSUME PlayerInv, Wake \/ ConsumeWait \/ ConsumeWoken
  PROVE  PlayerInv'
<1>1. TypesOK /\ StreamInv /\ LoadInv /\ EndInv /\ LoadsInv  BY DEF PlayerInv
<1>2. /\ UNCHANGED <<epoch, networkVars, receiver, items, queue_closed, buffer, played>>
      /\ UNCHANGED <<load, mpv, attaching, signals, outcome, failures>>
  BY DEF Wake, ConsumeWait, ConsumeWoken, queueVars, playerVars
<1>3. consumer \in ConsumerType  BY <1>1 DEF TypesOK, ConsumerOK
<1>4. /\ consumer' \in ConsumerType /\ consumer'.held = consumer.held
      /\ consumer'.first = consumer.first /\ (consumer.pc = "loading" <=> consumer'.pc = "loading")
  BY <1>3 DEF Wake, ConsumeWait, ConsumeWoken, ConsumerType
<1>5. available' \in BOOLEAN /\ waking' \in BOOLEAN
  BY <1>1 DEF Wake, ConsumeWait, ConsumeWoken, TypesOK, QueueOK, queueVars
<1>6. QueueOK'  BY <1>1, <1>2, <1>5 DEF TypesOK, QueueOK
<1>7. /\ NetworkOK' /\ ReceiverOK' /\ BufferOK' /\ PlayedInv' /\ BufferInv' /\ ConsumerInv'
      /\ ReceiverInv' /\ WayInv' /\ LoadsInv' /\ Chunks' = Chunks
  BY <1>2, <1>4, Aside
<1>8. LoadOK' /\ MpvOK' /\ SignalsOK' /\ PlayedOK'  BY <1>1, <1>2, SameTypes
<1>9. LoadInv' /\ EndInv'  BY <1>1, <1>2, <1>7, SameLoad
<1> QED  BY <1>4, <1>6, <1>7, <1>8, <1>9, PartsNext DEF ConsumerOK

(* What becomes of a load.                                                 *)
LEMMA Updates ==
  ASSUME NEW l \in LoadType
  PROVE  /\ Retired(l) \in LoadType /\ Loaded(l) \in LoadType /\ Prebuffered(l) \in LoadType
         /\ MaybeReleased([l EXCEPT !.restarted = TRUE]) \in LoadType
         /\ MaybeReleased([l EXCEPT !.attached = TRUE]) \in LoadType
         /\ \A e \in Epoch : [l EXCEPT !.eos = e] \in LoadType
<1>1. /\ l.gen \in Nat /\ l.reloading \in BOOLEAN /\ l.accept \in BOOLEAN
      /\ l.restarted \in BOOLEAN /\ l.attached \in BOOLEAN /\ l.prebuffered \in BOOLEAN
      /\ l.released \in BOOLEAN /\ l.eos \in Epoch \cup {-1} /\ External \in BOOLEAN
  BY Constants DEF LoadType
<1>2. Retired(l) \in LoadType /\ Loaded(l) \in LoadType
  <2>1. l.gen + 1 \in Nat /\ (~External) \in BOOLEAN  BY <1>1
  <2> QED  BY <2>1 DEF Retired, Loaded, LoadType
<1>3. Prebuffered(l) \in LoadType  BY <1>1 DEF Prebuffered, MaybeReleased, LoadType
<1>4. MaybeReleased([l EXCEPT !.restarted = TRUE]) \in LoadType
  BY <1>1 DEF MaybeReleased, LoadType
<1>5. MaybeReleased([l EXCEPT !.attached = TRUE]) \in LoadType
  BY <1>1 DEF MaybeReleased, LoadType
<1>6. \A e \in Epoch : [l EXCEPT !.eos = e] \in LoadType
  BY <1>1 DEF LoadType
<1> QED  BY <1>2, <1>3, <1>4, <1>5, <1>6

LEMMA Releases ==
  ASSUME NEW l \in LoadType
  PROVE  LET p == Prebuffered(l)
             r == MaybeReleased([l EXCEPT !.restarted = TRUE])
             a == MaybeReleased([l EXCEPT !.attached = TRUE])
         IN /\ p.gen = l.gen /\ p.reloading = l.reloading /\ p.accept = l.accept
            /\ p.restarted = l.restarted /\ p.attached = l.attached /\ p.eos = l.eos
            /\ p.released => l.released \/ (l.restarted /\ l.attached)
            /\ r.gen = l.gen /\ r.reloading = l.reloading /\ r.accept = l.accept
            /\ r.restarted /\ r.attached = l.attached /\ r.eos = l.eos
            /\ r.released => l.released \/ l.attached
            /\ a.gen = l.gen /\ a.reloading = l.reloading /\ a.accept = l.accept
            /\ a.restarted = l.restarted /\ a.attached /\ a.eos = l.eos
            /\ a.released => l.released \/ l.restarted
BY DEF Prebuffered, MaybeReleased, LoadType

(* mpv and its event thread.                                               *)
LEMMA MpvSteps ==
  ASSUME PlayerInv, MpvRestarts \/ MpvEnds \/ \E g \in Generation : Attach(g)
  PROVE  PlayerInv'
<1>1. TypesOK /\ StreamInv /\ LoadInv /\ EndInv /\ LoadsInv  BY DEF PlayerInv
<1>2. /\ UNCHANGED <<epoch, networkVars, receiver, queueVars, buffer, played, consumer, load, outcome>>
      /\ UNCHANGED <<items, queue_closed>>
  BY DEF MpvRestarts, MpvEnds, Attach, queueVars
<1>3. /\ NetworkOK' /\ ReceiverOK' /\ BufferOK' /\ PlayedInv' /\ BufferInv' /\ ConsumerInv'
      /\ ReceiverInv' /\ WayInv' /\ LoadsInv' /\ Chunks' = Chunks
  BY <1>2, Aside
<1>4. QueueOK' /\ ConsumerOK' /\ LoadOK'  BY <1>1, <1>2, SameTypes
<1>5. mpv \in MpvType /\ load.gen \in Nat /\ signals \subseteq SignalType /\ attaching \subseteq Nat
      /\ load \in LoadType
  BY <1>1 DEF TypesOK, MpvOK, LoadOK, LoadType, SignalsOK
<1>6. mpv' \in MpvType /\ mpv'.file = mpv.file /\ (mpv.restarted => mpv'.restarted)
      /\ (mpv.attached => mpv'.attached)
  BY <1>5 DEF MpvRestarts, MpvEnds, Attach, MpvType
<1>7. failures' \in 0..MaxFailures
  <2>1. failures \in 0..MaxFailures  BY <1>1 DEF TypesOK, PlayedOK
  <2>2. failures' = failures \/ (failures' = failures + 1 /\ failures < MaxFailures)
    BY DEF MpvRestarts, MpvEnds, Attach, Failure
  <2> QED  BY <2>1, <2>2, Constants
<1>8. PlayedOK'  BY <1>1, <1>2, <1>7 DEF TypesOK, PlayedOK
<1>9. CASE MpvRestarts
  <2>1. attaching' = attaching /\ mpv'.restarted /\ mpv.file = load.gen
    BY <1>5, <1>9 DEF MpvRestarts, Plays, MpvType
  <2>2. signals' = signals \/ signals' = signals \cup {[kind |-> "restarted", gen |-> load.gen]}
    BY <1>9 DEF MpvRestarts
  <2>3. [kind |-> "restarted", gen |-> load.gen] \in SignalType  BY <1>5 DEF SignalType
  <2>4. SignalsOK'  BY <1>5, <2>1, <2>2, <2>3 DEF SignalsOK
  <2>5. LoadInv'
    <3>1. CASE signals' = signals
      BY <1>1, <1>2, <1>5, <1>6, <2>1, <3>1 DEF LoadInv, Said, Shown
    <3>2. CASE signals' = signals \cup {[kind |-> "restarted", gen |-> load.gen]}
      BY <1>1, <1>2, <1>5, <1>6, <2>1, <3>2 DEF LoadInv, Said, Shown
    <3> QED  BY <2>2, <3>1, <3>2
  <2>6. EndInv'
    BY <1>1, <1>2, <1>3, <2>2 DEF EndInv, AllGiven, Said
  <2> QED  BY <1>3, <1>4, <1>6, <1>8, <2>4, <2>5, <2>6, PartsNext DEF MpvOK
<1>10. CASE MpvEnds
  <2>1. attaching' = attaching  BY <1>10 DEF MpvEnds
  <2>2. PICK kind \in {"ended", "broken"} :
          /\ \/ kind = "broken"
             \/ /\ buffer[1].chunks = <<>> /\ buffer # <<>>
                /\ kind = IF load.eos = epoch THEN "ended" ELSE "broken"
          /\ signals' = IF load.reloading THEN signals
                        ELSE signals \cup {[kind |-> kind, gen |-> load.gen]}
    BY <1>10 DEF MpvEnds, Plays
  <2>3. [kind |-> kind, gen |-> load.gen] \in SignalType  BY <1>5 DEF SignalType
  <2>4. SignalsOK'  BY <1>5, <2>1, <2>2, <2>3 DEF SignalsOK
  <2>5. LoadInv'
    <3>1. CASE signals' = signals
      BY <1>1, <1>2, <1>5, <1>6, <2>1, <3>1 DEF LoadInv, Said, Shown
    <3>2. CASE signals' = signals \cup {[kind |-> kind, gen |-> load.gen]}
      <4>1. kind # "attached" /\ kind # "restarted"  BY <2>2
      <4> QED  BY <1>1, <1>2, <1>5, <1>6, <2>1, <3>2, <4>1 DEF LoadInv, Said, Shown
    <3> QED  BY <2>2, <3>1, <3>2
  <2>6. EndInv'
    BY <1>1, <1>2, <1>3, <2>2 DEF EndInv, AllGiven, Said, Chunks
  <2> QED  BY <1>3, <1>4, <1>6, <1>8, <2>4, <2>5, <2>6, PartsNext DEF MpvOK
<1>11. ASSUME NEW g \in Generation, Attach(g) PROVE PlayerInv'
  <2>1. attaching' \subseteq attaching  BY <1>11 DEF Attach
  <2>2. \/ signals' = signals
        \/ /\ signals' = signals \cup {[kind |-> "attached", gen |-> load.gen]}
           /\ mpv'.attached /\ load.gen \in attaching
        \/ signals' = signals \cup {[kind |-> "broken", gen |-> load.gen]}
    BY <1>5, <1>11 DEF Attach, MpvType
  <2>3. /\ [kind |-> "attached", gen |-> load.gen] \in SignalType
        /\ [kind |-> "broken", gen |-> load.gen] \in SignalType
    BY <1>5 DEF SignalType
  <2>4. SignalsOK'  BY <1>5, <2>1, <2>2, <2>3 DEF SignalsOK
  <2>5. LoadInv'
    <3>1. CASE signals' = signals
      BY <1>1, <1>2, <1>5, <1>6, <2>1, <3>1 DEF LoadInv, Said, Shown
    <3>2. CASE /\ signals' = signals \cup {[kind |-> "attached", gen |-> load.gen]}
               /\ mpv'.attached /\ load.gen \in attaching
      BY <1>1, <1>2, <1>5, <1>6, <2>1, <3>2 DEF LoadInv, Said, Shown
    <3>3. CASE signals' = signals \cup {[kind |-> "broken", gen |-> load.gen]}
      BY <1>1, <1>2, <1>5, <1>6, <2>1, <3>3 DEF LoadInv, Said, Shown
    <3> QED  BY <2>2, <3>1, <3>2, <3>3
  <2>6. EndInv'
    BY <1>1, <1>2, <1>3, <2>2 DEF EndInv, AllGiven, Said
  <2> QED  BY <1>3, <1>4, <1>6, <1>8, <2>4, <2>5, <2>6, PartsNext DEF MpvOK
<1> QED  BY <1>9, <1>10, <1>11

(* Signals that have reached the event loop.                               *)
LEMMA SignalSteps ==
  ASSUME PlayerInv, NEW g \in Generation, OnRestarted(g) \/ OnAttached(g) \/ OnTerminal(g)
  PROVE  PlayerInv'
<1>1. TypesOK /\ StreamInv /\ LoadInv /\ EndInv /\ LoadsInv  BY DEF PlayerInv
<1>2. /\ UNCHANGED <<epoch, networkVars, receiver, queueVars, buffer, played, consumer, mpv, failures>>
      /\ UNCHANGED <<items, queue_closed>> /\ signals' \subseteq signals
  BY DEF OnRestarted, OnAttached, OnTerminal, Terminal, Handle, queueVars
<1>3. /\ mpv \in MpvType /\ load \in LoadType /\ load.gen \in Nat
      /\ signals \subseteq SignalType /\ attaching \subseteq Nat
      /\ outcome \in {"playing", "finished", "failed"}
  BY <1>1 DEF TypesOK, MpvOK, LoadOK, LoadType, SignalsOK, PlayedOK
<1>4. /\ load' \in LoadType /\ load'.gen = load.gen /\ load'.reloading = load.reloading
      /\ load'.eos = load.eos /\ load'.accept = load.accept
  BY <1>3, Updates, Releases DEF OnRestarted, OnAttached, OnTerminal, Terminal
<1>5. /\ NetworkOK' /\ ReceiverOK' /\ BufferOK' /\ PlayedInv' /\ BufferInv' /\ ConsumerInv'
      /\ ReceiverInv' /\ WayInv' /\ LoadsInv' /\ Chunks' = Chunks
  BY <1>2, <1>4, Aside
<1>6. QueueOK' /\ ConsumerOK' /\ MpvOK'  BY <1>1, <1>2, SameTypes
<1>7. CASE OnRestarted(g)
  <2>1. outcome' = outcome  BY <1>7 DEF OnRestarted
  <2>2. [kind |-> "restarted", gen |-> g] \in signals  BY <1>7 DEF OnRestarted, Handle
  <2>3. \/ load' = load /\ attaching' = attaching
        \/ /\ g = load.gen /\ load.accept /\ attaching' \in {attaching, attaching \cup {g}}
           /\ load' = MaybeReleased([load EXCEPT !.restarted = TRUE])
    BY <1>7 DEF OnRestarted
  <2>4. SignalsOK'  BY <1>2, <1>3, <2>3 DEF SignalsOK
  <2>5. PlayedOK'  BY <1>1, <1>2, <2>1 DEF TypesOK, PlayedOK
  <2>6. EndInv'  BY <1>1, <1>2, <1>4, <1>5, <2>1 DEF EndInv, AllGiven, Said
  <2>7. LoadInv'
    <3>1. CASE load' = load /\ attaching' = attaching
      BY <1>1, <1>2, <3>1 DEF LoadInv, Said, Shown
    <3>2. CASE /\ g = load.gen /\ load.accept /\ attaching' \in {attaching, attaching \cup {g}}
               /\ load' = MaybeReleased([load EXCEPT !.restarted = TRUE])
      <4>1. /\ load'.restarted /\ load'.attached = load.attached
            /\ load'.released => load.released \/ load.attached
        BY <1>3, <3>2, Releases
      <4>2. Shown /\ ~load.reloading  BY <1>1, <2>2, <3>2 DEF LoadInv, Said
      <4>3. Shown'  BY <1>2, <1>4, <4>2 DEF Shown
      <4>4. /\ \A h \in attaching' : h <= load'.gen
            /\ \A s \in signals' : s.gen <= load'.gen
            /\ mpv'.file <= load'.gen
        BY <1>1, <1>2, <1>3, <1>4, <3>2 DEF LoadInv
      <4>5. Said("attached")' => Said("attached")  BY <1>2, <1>4 DEF Said
      <4> QED  BY <1>1, <1>2, <1>4, <4>1, <4>2, <4>3, <4>4, <4>5 DEF LoadInv
    <3> QED  BY <2>3, <3>1, <3>2
  <2> QED  BY <1>4, <1>5, <1>6, <2>4, <2>5, <2>6, <2>7, PartsNext DEF LoadOK
<1>8. CASE OnAttached(g)
  <2>1. outcome' = outcome /\ attaching' = attaching  BY <1>8 DEF OnAttached
  <2>2. [kind |-> "attached", gen |-> g] \in signals  BY <1>8 DEF OnAttached, Handle
  <2>3. \/ load' = load
        \/ g = load.gen /\ load' = MaybeReleased([load EXCEPT !.attached = TRUE])
    BY <1>8 DEF OnAttached
  <2>4. SignalsOK'  BY <1>2, <1>3, <2>1 DEF SignalsOK
  <2>5. PlayedOK'  BY <1>1, <1>2, <2>1 DEF TypesOK, PlayedOK
  <2>6. EndInv'  BY <1>1, <1>2, <1>4, <1>5, <2>1 DEF EndInv, AllGiven, Said
  <2>7. LoadInv'
    <3>1. CASE load' = load
      BY <1>1, <1>2, <2>1, <3>1 DEF LoadInv, Said, Shown
    <3>2. CASE g = load.gen /\ load' = MaybeReleased([load EXCEPT !.attached = TRUE])
      <4>1. /\ load'.restarted = load.restarted /\ load'.attached
            /\ load'.released => load.released \/ load.restarted
        BY <1>3, <3>2, Releases
      <4>2. mpv.file = load.gen /\ mpv.attached  BY <1>1, <2>2, <3>2 DEF LoadInv, Said
      <4>3. /\ \A h \in attaching' : h <= load'.gen
            /\ \A s \in signals' : s.gen <= load'.gen
            /\ mpv'.file <= load'.gen
        BY <1>1, <1>2, <1>3, <1>4, <2>1 DEF LoadInv
      <4>4. Said("restarted")' => Said("restarted")  BY <1>2, <1>4 DEF Said
      <4>5. Shown' <=> Shown  BY <1>2, <1>4 DEF Shown
      <4> QED  BY <1>1, <1>2, <1>4, <2>1, <4>1, <4>2, <4>3, <4>4, <4>5 DEF LoadInv
    <3> QED  BY <2>3, <3>1, <3>2
  <2> QED  BY <1>4, <1>5, <1>6, <2>4, <2>5, <2>6, <2>7, PartsNext DEF LoadOK
<1>9. CASE OnTerminal(g)
  <2>1. load' = load /\ attaching' = attaching  BY <1>9 DEF OnTerminal, Terminal
  <2>2. PICK kind \in {"ended", "broken"} :
          /\ [kind |-> kind, gen |-> g] \in signals
          /\ IF g = load.gen /\ ~load.reloading
               THEN outcome' = IF outcome = "playing"
                                 THEN IF kind = "ended" THEN "finished" ELSE "failed"
                                 ELSE outcome
               ELSE outcome' = outcome
    BY <1>9 DEF OnTerminal, Terminal, Handle, Outcome
  <2>3. outcome' \in {"playing", "finished", "failed"}  BY <1>3, <2>2
  <2>4. SignalsOK'  BY <1>2, <1>3, <2>1 DEF SignalsOK
  <2>5. PlayedOK'  BY <1>1, <1>2, <2>3 DEF TypesOK, PlayedOK
  <2>6. LoadInv'  BY <1>1, <1>2, <2>1 DEF LoadInv, Said, Shown
  <2>7. outcome' = "finished" => AllGiven
    BY <1>1, <2>2 DEF EndInv, Said
  <2>8. EndInv'  BY <1>1, <1>2, <1>5, <2>1, <2>7 DEF EndInv, AllGiven, Said
  <2> QED  BY <1>4, <1>5, <1>6, <2>4, <2>5, <2>6, <2>8, PartsNext DEF LoadOK
<1> QED  BY <1>7, <1>8, <1>9

-----------------------------------------------------------------------------
(* The connection and the receiver thread                                  *)

LEMMA Behind ==
  ASSUME PlayerInv, UNCHANGED <<epoch, buffer, played, consumer, playerVars>>
  PROVE  /\ ConsumerOK' /\ BufferOK' /\ LoadOK' /\ MpvOK' /\ SignalsOK'
         /\ PlayedInv' /\ BufferInv' /\ ConsumerInv' /\ LoadInv' /\ EndInv' /\ LoadsInv'
         /\ Consumed' = Consumed /\ (UNCHANGED failures => PlayedOK')
<1>1. TypesOK /\ StreamInv /\ LoadInv /\ EndInv /\ LoadsInv  BY DEF PlayerInv
<1>2. UNCHANGED <<load, mpv, attaching, signals, outcome>>  BY DEF playerVars
<1>3. Consumed' = Consumed /\ Chunks' = Chunks  BY <1>2, SamePlace
<1>4. ConsumerOK' /\ BufferOK' /\ LoadOK' /\ MpvOK' /\ SignalsOK'  BY <1>1, <1>2, SameTypes
<1>5. UNCHANGED failures => PlayedOK'  BY <1>1, <1>2, SameTypes
<1>6. PlayedInv' /\ BufferInv' /\ ConsumerInv'  BY <1>1, <1>2, SameStream
<1>7. LoadInv' /\ EndInv' /\ LoadsInv'  BY <1>1, <1>2, <1>3, SameLoad
<1> QED  BY <1>3, <1>4, <1>5, <1>6, <1>7

(* The places behind the queue, if what the consumer took is the same.     *)
LEMMA Places ==
  ASSUME Consumed' = Consumed, epoch' = epoch
  PROVE  /\ items' = items => Queued' = Queued
         /\ items' = items /\ receiver'.out = receiver.out => Published' = Published
         /\ items' = items /\ receiver' = receiver => Received' = Received
<1>1. items' = items => Queued' = Queued  BY DEF Queued
<1>2. items' = items /\ receiver'.out = receiver.out => Published' = Published
  BY <1>1 DEF Published
<1>3. items' = items /\ receiver' = receiver => Received' = Received
  BY <1>2 DEF Received
<1> QED  BY <1>1, <1>2, <1>3

LEMMA ServerSteps ==
  ASSUME PlayerInv, ServerSeek \/ LinkLost \/ CloseQueue
  PROVE  PlayerInv'
<1>1. TypesOK /\ StreamInv /\ LoadInv /\ EndInv /\ LoadsInv  BY DEF PlayerInv
<1>2. UNCHANGED <<epoch, buffer, played, consumer, playerVars, receiver, available>>
  BY DEF ServerSeek, LinkLost, CloseQueue, queueVars
<1>3. /\ ConsumerOK' /\ BufferOK' /\ LoadOK' /\ MpvOK' /\ SignalsOK'
      /\ PlayedInv' /\ BufferInv' /\ ConsumerInv' /\ LoadInv' /\ EndInv' /\ LoadsInv'
      /\ Consumed' = Consumed
  BY <1>2, Behind
<1>4. ReceiverOK'  BY <1>1, <1>2, SameTypes
<1>5. failures' \in 0..MaxFailures
  <2>1. failures \in 0..MaxFailures  BY <1>1 DEF TypesOK, PlayedOK
  <2>2. failures' = failures \/ (failures' = failures + 1 /\ failures < MaxFailures)
    BY DEF ServerSeek, LinkLost, CloseQueue, Failure
  <2> QED  BY <2>1, <2>2, Constants
<1>6. PlayedOK'  BY <1>1, <1>2, <1>5 DEF TypesOK, PlayedOK, playerVars
<1>7. /\ epoch \in Epoch /\ server.epoch \in Epoch /\ epoch \in Nat /\ server.epoch \in Nat
      /\ server.epoch <= epoch /\ epoch <= MaxEpoch
  BY <1>1, Fields, Constants DEF Epoch
<1>8. server' \in [epoch : Epoch, next : Header..EOS + 1] /\ server'.epoch <= epoch
  <2>1. CASE ServerSeek
    <3>1. server.epoch + 1 \in Epoch /\ server.epoch + 1 <= epoch /\ Header \in Header..EOS + 1
      BY <1>7, <2>1, Constants DEF ServerSeek, Epoch
    <3>2. server' = [epoch |-> server.epoch + 1, next |-> Header]  BY <2>1 DEF ServerSeek
    <3> QED  BY <3>1, <3>2
  <2>2. CASE LinkLost \/ CloseQueue
    <3>1. EOS + 1 \in Header..EOS + 1  BY Constants
    <3>2. server' = [epoch |-> server.epoch, next |-> EOS + 1]
      BY <2>2 DEF LinkLost, CloseQueue, Silent
    <3> QED  BY <1>7, <3>1, <3>2
  <2> QED  BY <2>1, <2>2
<1>9. NetworkOK'
  <2>1. link' \in {"up", "lost"}  BY <1>1 DEF ServerSeek, LinkLost, CloseQueue, TypesOK, NetworkOK
  <2> QED  BY <1>2, <1>7, <1>8, <2>1 DEF NetworkOK
<1>10. /\ queue_closed => items = <<>>
       /\ Chained(items, Consumed, epoch)
       /\ ~queue_closed => Chained(receiver.out, Queued, epoch)
                           /\ Chained(receiver.batch, Published, epoch)
       /\ link = "up" /\ ~queue_closed /\ server.epoch < epoch => Received = Header
  BY <1>1 DEF StreamInv, WayInv
<1>11. CASE ServerSeek
  <2>1. UNCHANGED <<link, items, waking, queue_closed, items, link>>
    BY <1>11 DEF ServerSeek, queueVars
  <2>2. QueueOK'  BY <1>1, <1>2, <2>1, SameTypes DEF queueVars
  <2>3. ReceiverInv'  BY <1>1, <1>2, <2>1, SameStream
  <2>4. Queued' = Queued /\ Published' = Published /\ Received' = Received
    BY <1>2, <1>3, <2>1, Places
  <2>5. server'.next = Header /\ Received = Header /\ link = "up" /\ ~queue_closed
    BY <1>10, <1>11 DEF ServerSeek
  <2>6. WayInv'  BY <1>2, <1>3, <1>10, <2>1, <2>4, <2>5 DEF WayInv
  <2> QED  BY <1>3, <1>4, <1>6, <1>9, <2>2, <2>3, <2>6, PartsNext
<1>12. CASE LinkLost
  <2>1. UNCHANGED <<items, waking, queue_closed, items>> /\ link' = "lost"
    BY <1>12 DEF LinkLost, queueVars
  <2>2. QueueOK'  BY <1>1, <1>2, <2>1, SameTypes DEF queueVars
  <2>3. ReceiverInv'  BY <1>1, <1>2, <2>1 DEF StreamInv, ReceiverInv
  <2>4. Queued' = Queued /\ Published' = Published /\ Received' = Received
    BY <1>2, <1>3, <2>1, Places
  <2>5. server'.next = EOS + 1  BY <1>12 DEF LinkLost, Silent
  <2>6. ~(server'.next <= EOS)  BY <2>5, Constants
  <2>7. WayInv'  BY <1>2, <1>3, <1>10, <2>1, <2>4, <2>6 DEF WayInv
  <2> QED  BY <1>3, <1>4, <1>6, <1>9, <2>2, <2>3, <2>7, PartsNext
<1>13. CASE CloseQueue
  <2>1. items' = <<>> /\ queue_closed' = TRUE /\ waking' = TRUE /\ link' = link
    BY <1>13 DEF CloseQueue
  <2>2. <<>> \in Ways /\ Len(<<>>) = 0  BY Nothing DEF Ways
  <2>3. available' \in BOOLEAN /\ 0 <= BridgeRoom
    BY <1>1, <1>2, Constants DEF TypesOK, QueueOK
  <2>4. QueueOK'  BY <2>1, <2>2, <2>3 DEF QueueOK
  <2>5. ReceiverInv'  BY <1>1, <1>2, <2>1, <2>2 DEF StreamInv, ReceiverInv
  <2>6. server'.next = EOS + 1  BY <1>13 DEF CloseQueue, Silent
  <2>7. ~(server'.next <= EOS)  BY <2>6, Constants
  <2>8. Chained(items', Consumed', epoch')  BY <2>1, EmptyChain
  <2>9. WayInv'  BY <2>1, <2>7, <2>8 DEF WayInv
  <2> QED  BY <1>3, <1>4, <1>6, <1>9, <2>4, <2>5, <2>9, PartsNext
<1> QED  BY <1>11, <1>12, <1>13

(* A batch from which the stale packets are dropped goes on as before, and *)
(* what is left of it is of the newest epoch.                              *)
LEMMA CurrentBatch ==
  ASSUME PlayerInv, ~queue_closed
  PROVE  LET b == Current(receiver.batch)
         IN /\ b \in Batches /\ b \in Ways /\ Len(b) < DownBatch
            /\ Chained(b, Published, epoch) /\ After(b, Published, epoch) = Received
            /\ \A i \in 1..Len(b) : b[i] # None /\ b[i].epoch = epoch
<1> DEFINE q == receiver.batch
           b == Current(q)
<1>1. TypesOK /\ StreamInv  BY DEF PlayerInv
<1>2. q \in Batches /\ q \in Ways /\ epoch \in Nat /\ Len(q) < DownBatch
  BY <1>1, Fields DEF TypesOK, ReceiverOK
<1>3. /\ Chained(q, Published, epoch)
      /\ \A i \in 1..Len(q), j \in 1..Len(q) : q[i].epoch = q[j].epoch
      /\ \A i \in 1..Len(q) : q[i] # None
  BY <1>1 DEF StreamInv, WayInv, ReceiverInv
<1>4. /\ Len(q) \in Nat /\ (q = <<>> <=> Len(q) = 0)
      /\ \A i \in 1..Len(q) : q[i] \in Packet /\ q[i].epoch \in Nat
  BY <1>2, Members, Packets DEF Batches
<1>5. \A i \in 1..Len(q) : q[i].epoch <= epoch  BY <1>3 DEF Chained
<1> HIDE DEF q
<1>6. CASE q # <<>> /\ Head(q).epoch < epoch
  <2>1. b = <<>>  BY <1>6 DEF Current
  <2>2. Head(q) = q[1] /\ 1 \in 1..Len(q)  BY <1>2, <1>4, <1>6, Shrunk DEF Ways
  <2>3. \A i \in 1..Len(q) : q[i].epoch < epoch /\ (q[i] = None => i = Len(q))
    BY <1>3, <1>6, <2>2
  <2>4. After(q, Published, epoch) = Published
    BY <1>2, <2>3, NoneOfIt, Zenon DEF Ways
  <2>5. Received = Published  BY <2>4 DEF Received, q
  <2>6. Chained(<<>>, Published, epoch) /\ After(<<>>, Published, epoch) = Published
    BY EmptyChain, Zenon
  <2>7. <<>> \in Batches /\ <<>> \in Ways /\ Len(<<>>) = 0  BY Nothing DEF Batches, Ways
  <2>8. 0 < DownBatch  BY Constants
  <2> QED  BY <2>1, <2>5, <2>6, <2>7, <2>8 DEF q
<1>7. CASE ~(q # <<>> /\ Head(q).epoch < epoch)
  <2>1. b = q  BY <1>7, Zenon DEF Current
  <2>2. \A i \in 1..Len(q) : q[i].epoch = epoch
    <3> SUFFICES ASSUME NEW i \in 1..Len(q) PROVE q[i].epoch = epoch  OBVIOUS
    <3>1. Head(q) = q[1] /\ 1 \in 1..Len(q) /\ q # <<>>
      <4>1. q # <<>> /\ Len(q) > 0  BY <1>4
      <4> QED  BY <1>2, <1>4, <4>1, Shrunk DEF Ways
    <3>2. q[i].epoch = q[1].epoch /\ q[1].epoch <= epoch /\ q[1].epoch \in Nat
      BY <1>3, <1>4, <1>5, <3>1
    <3>3. ~(q[1].epoch < epoch)  BY <1>7, <3>1
    <3> QED  BY <1>2, <3>2, <3>3
  <2>3. After(q, Published, epoch) = Received  BY DEF Received, q
  <2> QED  BY <1>2, <1>3, <2>1, <2>2, <2>3 DEF q
<1> QED  BY <1>6, <1>7

LEMMA ReceiveStep ==
  ASSUME PlayerInv, Receive
  PROVE  PlayerInv'
<1> DEFINE pkt == [epoch |-> server.epoch, item |-> server.next]
           b == Current(receiver.batch)
           grown == Append(b, pkt)
<1>1. TypesOK /\ StreamInv  BY DEF PlayerInv
<1>2. /\ UNCHANGED <<epoch, link, queueVars, consumer, buffer, playerVars, played, failures>>
      /\ UNCHANGED <<items, queue_closed>>
      /\ receiver.pc = "reading" /\ server.next <= EOS
  BY DEF Receive, ReceiveUpTo, queueVars
<1>3. server' = [server EXCEPT !.next = IF @ = Header THEN Target[server.epoch] ELSE @ + 1]
  BY DEF Receive, ReceiveUpTo
<1>4. /\ pkt.epoch < epoch => receiver' = [receiver EXCEPT !.batch = b]
      /\ ~(pkt.epoch < epoch) /\ pkt.item = Header =>
           receiver' = [pc |-> "putting", batch |-> <<>>, out |-> <<pkt>>]
      /\ ~(pkt.epoch < epoch) /\ pkt.item # Header =>
           \/ receiver' = [pc |-> "putting", batch |-> <<>>, out |-> grown]
           \/ receiver' = [receiver EXCEPT !.batch = grown] /\ Len(grown) # DownBatch
  BY DEF Receive, ReceiveUpTo, Discontinuity
<1>5. /\ ConsumerOK' /\ BufferOK' /\ LoadOK' /\ MpvOK' /\ SignalsOK' /\ PlayedOK'
      /\ PlayedInv' /\ BufferInv' /\ ConsumerInv' /\ LoadInv' /\ EndInv' /\ LoadsInv'
      /\ Consumed' = Consumed
  BY <1>2, Behind
<1>6. QueueOK'  BY <1>1, <1>2, SameTypes
<1>7. /\ epoch \in Nat /\ server.epoch \in Epoch /\ server.epoch \in Nat /\ server.epoch <= epoch
      /\ server.next \in 0..EOS + 1 /\ epoch \in Epoch
      /\ server \in [epoch : Epoch, next : Header..EOS + 1] /\ receiver \in ReceiverType
  BY <1>1, Fields DEF TypesOK, NetworkOK, ReceiverOK
<1>8. /\ pkt \in Packet /\ pkt.epoch = server.epoch /\ pkt.item = server.next
      /\ NextItem(pkt) \in 1..EOS + 1
  <2>1. server.next \in Header..EOS  BY <1>2, <1>7, Constants
  <2> QED  BY <1>7, <2>1, Packets DEF Packet
<1>9. server'.epoch = server.epoch /\ server'.next = NextItem(pkt)
      /\ server' \in [epoch : Epoch, next : Header..EOS + 1]
  <2>1. server'.epoch = server.epoch /\ server'.next = NextItem(pkt)
    BY <1>3, <1>7, <1>8 DEF NextItem
  <2>2. NextItem(pkt) \in Header..EOS + 1  BY <1>8, Constants
  <2>3. server' = [epoch |-> server.epoch, next |-> NextItem(pkt)]
    BY <1>3, <1>7, <1>8 DEF NextItem
  <2> QED  BY <1>7, <2>1, <2>2, <2>3
<1> HIDE DEF pkt
<1>10. NetworkOK'  BY <1>1, <1>2, <1>7, <1>9 DEF TypesOK, NetworkOK
<1>11. /\ link = "up" /\ ~queue_closed
       /\ Chained(items, Consumed, epoch)
       /\ server.epoch < epoch => Received = Header
       /\ ~(server.epoch < epoch) => Received = server.next
  BY <1>1, <1>2 DEF StreamInv, WayInv
<1>12. /\ receiver.out = <<>> /\ receiver.out \in Ways
       /\ \A i \in 1..Len(items) : items[i] = None => receiver.pc = "ended"
       /\ \A i \in 1..Len(items) : items[i] # None
  BY <1>1, <1>2, Fields DEF StreamInv, ReceiverInv
<1>13. /\ b \in Batches /\ b \in Ways /\ Len(b) < DownBatch
       /\ Chained(b, Published, epoch) /\ After(b, Published, epoch) = Received
       /\ \A i \in 1..Len(b) : b[i] # None /\ b[i].epoch = epoch
  BY <1>11, CurrentBatch
<1> HIDE DEF b
<1>14. Queued' = Queued /\ Published = Queued
  <2>1. Queued' = Queued  BY <1>2, <1>5, Places
  <2>2. Published = After(<<>>, Queued, epoch)  BY <1>12 DEF Published
  <2> QED  BY <2>1, <2>2, EmptyChain, Zenon
<1>15. CASE pkt.epoch < epoch
  <2>1. receiver' = [receiver EXCEPT !.batch = b]  BY <1>4, <1>15
  <2>2. receiver'.pc = "reading" /\ receiver'.batch = b /\ receiver'.out = <<>>
        /\ receiver' \in ReceiverType
    BY <1>2, <1>7, <1>12, <1>13, <2>1 DEF ReceiverType
  <2>3. ReceiverOK'  BY <1>13, <2>2 DEF ReceiverOK
  <2>4. Len(<<>>) = 0  OBVIOUS
  <2>5. ReceiverInv'  BY <1>2, <1>12, <1>13, <2>2, <2>4 DEF ReceiverInv
  <2>6. Published' = Published  BY <1>2, <1>5, <1>12, <2>2, Places
  <2>7. Received' = Header  BY <1>2, <1>8, <1>11, <1>13, <1>15, <2>2, <2>6 DEF Received
  <2>8. Chained(receiver'.out, Queued', epoch') /\ Chained(receiver'.batch, Published', epoch')
    BY <1>2, <1>13, <2>2, <2>6, EmptyChain
  <2>9. WayInv'  BY <1>2, <1>5, <1>8, <1>9, <1>11, <1>15, <2>7, <2>8 DEF WayInv
  <2> QED  BY <1>5, <1>6, <1>10, <2>3, <2>5, <2>9, PartsNext
<1>16. ASSUME ~(pkt.epoch < epoch)
       PROVE  pkt.epoch = epoch /\ pkt.item = Received
  BY <1>7, <1>8, <1>11, <1>16
<1>17. ASSUME ~(pkt.epoch < epoch), NEW o \in Ways, NEW c \in Batches, Len(c) < DownBatch,
              receiver' \in ReceiverType, receiver'.out = o, receiver'.batch = c,
              \/ receiver'.pc = "putting" /\ c = <<>>
              \/ receiver'.pc = "reading" /\ o = <<>>,
              \A i \in 1..Len(c) : c[i] # None /\ c[i].epoch = epoch,
              \A i \in 1..Len(o) : o[i] # None,
              Chained(o, Queued, epoch), Chained(c, After(o, Queued, epoch), epoch),
              After(c, After(o, Queued, epoch), epoch) = NextItem(pkt)
       PROVE  PlayerInv'
  <2>1. ReceiverOK'  BY <1>17 DEF ReceiverOK
  <2>2. ReceiverInv'  BY <1>2, <1>12, <1>17 DEF ReceiverInv
  <2>3. Published' = After(o, Queued, epoch)  BY <1>2, <1>14, <1>17 DEF Published
  <2>4. Received' = NextItem(pkt)  BY <1>2, <1>17, <2>3 DEF Received
  <2>5. WayInv'
    BY <1>2, <1>5, <1>8, <1>9, <1>11, <1>14, <1>16, <1>17, <2>3, <2>4 DEF WayInv
  <2> QED  BY <1>5, <1>6, <1>10, <2>1, <2>2, <2>5, PartsNext
<1>18. <<>> \in Batches /\ <<>> \in Ways /\ Len(<<>>) = 0 /\ 0 < DownBatch
  BY Nothing, Constants DEF Batches, Ways
<1>19. pkt # None /\ pkt \in Delivered  BY <1>8, Packets DEF Delivered
<1>20. CASE ~(pkt.epoch < epoch) /\ pkt.item = Header
  <2>1. receiver' = [pc |-> "putting", batch |-> <<>>, out |-> <<pkt>>]  BY <1>4, <1>20
  <2>2. <<pkt>> \in Ways /\ Len(<<pkt>>) = 1 /\ <<pkt>>[1] = pkt
    BY <1>19, Single DEF Ways
  <2>3. \A i \in 1..Len(<<pkt>>) : i = 1 /\ <<pkt>>[i] # None  BY <1>19, <2>2
  <2>4. Queued = Header
    <3>1. After(b, Queued, epoch) = Header  BY <1>13, <1>14, <1>16, <1>20
    <3>2. CASE Len(b) > 0 /\ b[Len(b)].epoch = epoch
      <4>1. b[Len(b)] \in Packet
        <5>1. Len(b) \in Nat /\ \A i \in 1..Len(b) : b[i] \in Packet
          BY <1>13, Members DEF Batches
        <5>2. Len(b) \in 1..Len(b)  BY <3>2, <5>1
        <5> QED  BY <5>1, <5>2
      <4>2. NextItem(b[Len(b)]) # Header  BY <4>1, Packets, Constants
      <4> QED  BY <3>1, <3>2, <4>2 DEF After
    <3> QED  BY <3>1, <3>2 DEF After
  <2>5. Chained(<<pkt>>, Queued, epoch)
    BY <1>7, <1>16, <1>20, <2>2, <2>3, <2>4 DEF Chained
  <2>6. After(<<pkt>>, Queued, epoch) = NextItem(pkt)
    BY <1>16, <1>20, <2>2, ShortChain
  <2>7. Chained(<<>>, NextItem(pkt), epoch) /\ After(<<>>, NextItem(pkt), epoch) = NextItem(pkt)
    BY EmptyChain, Zenon
  <2>8. /\ receiver' \in ReceiverType /\ receiver'.pc = "putting" /\ receiver'.batch = <<>>
        /\ receiver'.out = <<pkt>>
    BY <1>18, <2>1, <2>2 DEF ReceiverType
  <2>9. \A i \in 1..Len(<<>>) : <<>>[i] # None /\ <<>>[i].epoch = epoch  BY <1>18
  <2> QED
    BY <1>17, <1>18, <1>20, <2>2, <2>3, <2>5, <2>6, <2>7, <2>8, <2>9
<1>21. CASE ~(pkt.epoch < epoch) /\ pkt.item # Header
  <2>1. Chained(grown, Queued, epoch) /\ After(grown, Queued, epoch) = NextItem(pkt)
    BY <1>7, <1>8, <1>13, <1>14, <1>16, <1>21, ChainGrown DEF Ways
  <2>2. grown \in Batches /\ Len(grown) = Len(b) + 1
        /\ (\A i \in 1..Len(b) : grown[i] = b[i]) /\ grown[Len(b) + 1] = pkt
    BY <1>8, <1>13, Grown DEF Batches
  <2>3. Len(b) \in Nat  BY <1>13, Members DEF Batches
  <2> HIDE DEF grown
  <2>4. \A i \in 1..Len(grown) : grown[i] # None /\ grown[i].epoch = epoch
    <3> SUFFICES ASSUME NEW i \in 1..Len(b) + 1
                 PROVE  grown[i] # None /\ grown[i].epoch = epoch
      BY <2>2
    <3>1. CASE i \in 1..Len(b)  BY <1>13, <2>2, <3>1
    <3>2. CASE i = Len(b) + 1  BY <1>16, <1>19, <1>21, <2>2, <3>2
    <3> QED  BY <2>3, <3>1, <3>2
  <2>5. grown \in Ways
    <3>1. grown \in Seq(Packet) /\ Packet \subseteq Delivered  BY <2>2 DEF Batches, Delivered
    <3> QED  BY <3>1, SeqMonotonic DEF Ways
  <2>6. Chained(<<>>, Queued, epoch) /\ After(<<>>, Queued, epoch) = Queued
    BY EmptyChain, Zenon
  <2>7. Chained(<<>>, NextItem(pkt), epoch) /\ After(<<>>, NextItem(pkt), epoch) = NextItem(pkt)
    BY EmptyChain, Zenon
  <2>8. CASE receiver' = [pc |-> "putting", batch |-> <<>>, out |-> grown]
    <3>1. /\ receiver' \in ReceiverType /\ receiver'.pc = "putting" /\ receiver'.batch = <<>>
          /\ receiver'.out = grown
      BY <1>18, <2>5, <2>8 DEF ReceiverType
    <3>2. \A i \in 1..Len(<<>>) : <<>>[i] # None /\ <<>>[i].epoch = epoch  BY <1>18
    <3> QED  BY <1>17, <1>18, <1>21, <2>1, <2>4, <2>5, <2>7, <3>1, <3>2
  <2>9. CASE receiver' = [receiver EXCEPT !.batch = grown] /\ Len(grown) # DownBatch
    <3>1. /\ receiver' \in ReceiverType /\ receiver'.pc = "reading" /\ receiver'.batch = grown
          /\ receiver'.out = <<>>
      BY <1>2, <1>7, <1>12, <2>2, <2>9 DEF ReceiverType
    <3>2. Len(grown) < DownBatch  BY <1>13, <2>2, <2>3, <2>9, Constants
    <3>3. \A i \in 1..Len(<<>>) : <<>>[i] # None  BY <1>18
    <3> QED  BY <1>17, <1>18, <1>21, <2>1, <2>2, <2>4, <2>6, <3>1, <3>2, <3>3
  <2> QED  BY <1>4, <1>21, <2>8, <2>9 DEF grown
<1> QED  BY <1>15, <1>20, <1>21

LEMMA ReceiveEndStep ==
  ASSUME PlayerInv, ReceiveEnd
  PROVE  PlayerInv'
<1> DEFINE b == Current(receiver.batch)
           last == Append(b, None)
<1>1. TypesOK /\ StreamInv  BY DEF PlayerInv
<1>2. /\ UNCHANGED <<epoch, networkVars, queueVars, consumer, buffer, playerVars, played, failures>>
      /\ UNCHANGED <<items, queue_closed, server, link>>
      /\ receiver.pc = "reading" /\ link = "lost"
      /\ receiver' = [pc |-> "last", batch |-> <<>>, out |-> last]
  BY DEF ReceiveEnd, queueVars, networkVars
<1>3. /\ ConsumerOK' /\ BufferOK' /\ LoadOK' /\ MpvOK' /\ SignalsOK' /\ PlayedOK'
      /\ PlayedInv' /\ BufferInv' /\ ConsumerInv' /\ LoadInv' /\ EndInv' /\ LoadsInv'
      /\ Consumed' = Consumed
  BY <1>2, Behind
<1>4. QueueOK' /\ NetworkOK'  BY <1>1, <1>2, SameTypes
<1>5. /\ receiver.out = <<>> /\ receiver.batch \in Batches /\ epoch \in Nat
      /\ \A i \in 1..Len(items) : items[i] # None
      /\ \A i \in 1..Len(receiver.batch) : receiver.batch[i] # None
  BY <1>1, <1>2, Fields DEF StreamInv, ReceiverInv
<1>6. /\ Chained(items, Consumed, epoch) /\ (queue_closed => items = <<>>)
      /\ server.next <= EOS => link = "up" /\ ~queue_closed
  BY <1>1 DEF StreamInv, WayInv
<1>7. b \in Ways /\ \A i \in 1..Len(b) : b[i] # None
  <2>1. <<>> \in Ways /\ Len(<<>>) = 0  BY Nothing DEF Ways
  <2>2. receiver.batch \in Ways  BY <1>1, Fields
  <2> QED  BY <1>5, <2>1, <2>2 DEF Current
<1>8. /\ last \in Ways /\ Len(last) = Len(b) + 1
      /\ \A i \in 1..Len(b) : last[i] = b[i]
      /\ last[Len(b) + 1] = None
  <2>1. None \in Delivered  BY DEF Delivered
  <2> QED  BY <1>7, <2>1, Grown DEF Ways
<1>9. ~queue_closed => Chained(last, Queued, epoch)
  <2> SUFFICES ASSUME ~queue_closed PROVE Chained(last, Queued, epoch)  OBVIOUS
  <2>1. Chained(b, Published, epoch)  BY CurrentBatch
  <2>2. Published = After(<<>>, Queued, epoch)  BY <1>5 DEF Published
  <2>3. Published = Queued  BY <2>2, EmptyChain, Zenon
  <2> QED  BY <1>5, <1>7, <2>1, <2>3, ChainEnded DEF Ways
<1> HIDE DEF b, last
<1>10. <<>> \in Batches /\ Len(<<>>) = 0 /\ 0 < DownBatch  BY Nothing, Constants DEF Batches
<1>11. receiver'.pc = "last" /\ receiver'.batch = <<>> /\ receiver'.out = last
  BY <1>2
<1>12. ReceiverOK'  BY <1>2, <1>8, <1>10, <1>11 DEF ReceiverOK, ReceiverType
<1>13. ReceiverInv'  BY <1>2, <1>5, <1>10, <1>11 DEF ReceiverInv
<1>14. Queued' = Queued  BY <1>2, <1>3, Places
<1>15. Chained(receiver'.batch, Published', epoch')  BY <1>11, EmptyChain
<1>16. WayInv'  BY <1>2, <1>3, <1>6, <1>9, <1>11, <1>14, <1>15 DEF WayInv
<1> QED  BY <1>3, <1>4, <1>12, <1>13, <1>16, PartsNext

LEMMA PublishStep ==
  ASSUME PlayerInv, Publish
  PROVE  PlayerInv'
<1>1. TypesOK /\ StreamInv  BY DEF PlayerInv
<1>2. /\ UNCHANGED <<epoch, networkVars, available, queue_closed, consumer, buffer, playerVars, played,
                     failures>>
      /\ UNCHANGED <<queue_closed, server, link>>
      /\ receiver.pc \in {"putting", "last"}
  BY DEF Publish, PublishInto, networkVars
<1>3. /\ ConsumerOK' /\ BufferOK' /\ LoadOK' /\ MpvOK' /\ SignalsOK' /\ PlayedOK'
      /\ PlayedInv' /\ BufferInv' /\ ConsumerInv' /\ LoadInv' /\ EndInv' /\ LoadsInv'
      /\ Consumed' = Consumed
  BY <1>2, Behind
<1>4. NetworkOK'  BY <1>1, <1>2, SameTypes
<1>5. /\ receiver.batch = <<>> /\ epoch \in Nat
      /\ receiver.pc = "last" => link = "lost" \/ queue_closed
      /\ \A i \in 1..Len(items) : items[i] # None
      /\ \A i \in 1..Len(receiver.out) : receiver.out[i] = None => receiver.pc = "last"
  BY <1>1, <1>2, Fields DEF StreamInv, ReceiverInv
<1>6. /\ Chained(items, Consumed, epoch) /\ (queue_closed => items = <<>>)
      /\ ~queue_closed => Chained(receiver.out, Queued, epoch)
      /\ server.next <= EOS => link = "up" /\ ~queue_closed
      /\ link = "up" /\ ~queue_closed =>
           IF server.epoch < epoch THEN Received = Header
           ELSE server.next <= EOS => Received = server.next
  BY <1>1 DEF StreamInv, WayInv
<1>7. /\ receiver.out \in Ways /\ items \in Ways /\ receiver \in ReceiverType
      /\ Len(items) <= BridgeRoom /\ Len(items) \in Nat /\ Len(receiver.out) \in Nat
      /\ available \in BOOLEAN /\ waking \in BOOLEAN /\ queue_closed \in BOOLEAN
  <2>1. receiver.out \in Ways /\ items \in Ways  BY <1>1, Fields
  <2>2. Len(items) \in Nat /\ Len(receiver.out) \in Nat  BY <2>1, Members DEF Ways
  <2> QED  BY <1>1, <2>1, <2>2 DEF TypesOK, ReceiverOK, QueueOK
<1>8. <<>> \in Batches /\ <<>> \in Ways /\ Len(<<>>) = 0 /\ 0 < DownBatch
  BY Nothing, Constants DEF Batches, Ways
<1>9. CASE queue_closed
  <2>1. /\ receiver' = [pc |-> "ended", batch |-> <<>>, out |-> <<>>]
        /\ UNCHANGED <<items, waking>>
    BY <1>9 DEF Publish, PublishInto
  <2>2. receiver'.pc = "ended" /\ receiver'.batch = <<>> /\ receiver'.out = <<>>  BY <2>1
  <2>3. ReceiverOK'  BY <1>8, <2>1, <2>2 DEF ReceiverOK, ReceiverType
  <2>4. QueueOK'  BY <1>2, <1>7, <2>1 DEF QueueOK
  <2>5. ReceiverInv'  BY <1>2, <1>8, <1>9, <2>1, <2>2 DEF ReceiverInv
  <2>6. WayInv'  BY <1>2, <1>3, <1>6, <1>9, <2>1 DEF WayInv
  <2> QED  BY <1>3, <1>4, <2>3, <2>4, <2>5, <2>6, PartsNext
<1>10. CASE ~queue_closed
  <2> DEFINE room == BridgeRoom - Len(items)
  <2>1. PICK n : n = IF Len(receiver.out) < room THEN Len(receiver.out) ELSE room
    OBVIOUS
  <2>2. room > 0 /\ n \in 0..Len(receiver.out) /\ n <= room /\ n \in Nat
    <3>1. room > 0  BY <1>10 DEF Publish, PublishInto
    <3>2. room \in Int  BY <1>7, Constants
    <3> HIDE DEF room
    <3> QED  BY <1>7, <2>1, <3>1, <3>2
  <2> DEFINE a == SubSeq(receiver.out, 1, n)
             rest == SubSeq(receiver.out, n + 1, Len(receiver.out))
  <2>3. /\ items' = items \o a /\ waking' = TRUE
        /\ receiver' = [receiver EXCEPT !.out = rest,
             !.pc = IF rest # <<>> THEN @ ELSE IF @ = "last" THEN "ended" ELSE "reading"]
    BY <1>10, <2>1 DEF Publish, PublishInto
  <2>4. /\ a \in Ways /\ Len(a) = n /\ (\A i \in 1..n : a[i] = receiver.out[i])
        /\ rest \in Ways /\ Len(rest) = Len(receiver.out) - n
        /\ \A i \in 1..Len(receiver.out) - n : rest[i] = receiver.out[n + i]
    BY <1>7, <2>2, Parted DEF Ways
  <2>5. Cut(receiver.out, n, a, rest)  BY DEF Cut
  <2> HIDE DEF a, rest
  <2>6. /\ Chained(a, Queued, epoch) /\ Chained(rest, After(a, Queued, epoch), epoch)
        /\ (\A i \in 1..Len(receiver.out) : receiver.out[i] # None) =>
             After(rest, After(a, Queued, epoch), epoch) = Published
    BY <1>5, <1>6, <1>7, <1>10, <2>2, <2>4, <2>5, ChainParted DEF Ways, Published
  <2>7. /\ items' \in Ways /\ Len(items') = Len(items) + n
        /\ \A i \in 1..Len(items) : items'[i] = items[i]
        /\ \A i \in 1..n : items'[Len(items) + i] = a[i]
    BY <1>7, <2>3, <2>4, Joined, SMTT(20) DEF Ways
  <2>8. /\ Chained(items', Consumed, epoch)
        /\ (\A i \in 1..n : a[i] # None) => After(items', Consumed, epoch) = After(a, Queued, epoch)
    BY <1>5, <1>6, <1>7, <2>3, <2>4, <2>6, ChainJoined DEF Ways, Queued
  <2>9. (\A i \in 1..n : a[i] # None) => Queued' = After(a, Queued, epoch)
    BY <1>2, <1>3, <2>8 DEF Queued
  <2>10. rest = <<>> <=> Len(rest) = 0  BY <2>4, Members DEF Ways
  <2>11. /\ receiver'.out = rest /\ receiver'.batch = <<>> /\ receiver' \in ReceiverType
         /\ rest # <<>> => receiver'.pc = receiver.pc
         /\ rest = <<>> => receiver'.pc = IF receiver.pc = "last" THEN "ended" ELSE "reading"
    BY <1>5, <1>7, <2>3, <2>4 DEF ReceiverType
  <2>12. ReceiverOK'  BY <1>8, <2>11 DEF ReceiverOK
  <2>13. QueueOK'
    <3>1. Len(items') <= BridgeRoom  BY <1>7, <2>2, <2>7, Constants
    <3> QED  BY <1>2, <1>7, <2>3, <2>7, <3>1 DEF QueueOK
  (* The end is the last: with it everything is published.                 *)
  <2>14. ASSUME NEW i \in 1..n, a[i] = None
         PROVE  rest = <<>> /\ receiver.pc = "last"
    <3>1. i \in 1..Len(receiver.out) /\ receiver.out[i] = None  BY <1>7, <2>2, <2>4, <2>14
    <3>2. i = Len(receiver.out)  BY <1>6, <1>10, <3>1 DEF Chained
    <3>3. Len(rest) = 0  BY <1>7, <2>2, <2>4, <3>2
    <3> QED  BY <1>5, <2>10, <3>1, <3>3
  <2>15. ReceiverInv'
    <3>1. \A i \in 1..Len(rest) : rest[i] = None => receiver.pc = "last" /\ rest # <<>>
      <4> SUFFICES ASSUME NEW i \in 1..Len(rest), rest[i] = None
                   PROVE  receiver.pc = "last" /\ rest # <<>>
        OBVIOUS
      <4>1. n + i \in 1..Len(receiver.out) /\ rest[i] = receiver.out[n + i] /\ Len(rest) # 0
        BY <1>7, <2>2, <2>4
      <4> QED  BY <1>5, <2>10, <4>1
    <3>2. \A i \in 1..Len(items') : items'[i] = None => receiver'.pc = "ended"
      <4> SUFFICES ASSUME NEW i \in 1..Len(items) + n, items'[i] = None
                   PROVE  receiver'.pc = "ended"
        BY <2>7
      <4>1. i \notin 1..Len(items)  BY <1>5, <2>7
      <4>2. PICK k \in 1..n : i = Len(items) + k
        <5>1. i - Len(items) \in 1..n /\ i = Len(items) + (i - Len(items))
          BY <1>7, <2>2, <4>1
        <5> QED  BY <5>1
      <4>3. a[k] = None  BY <2>7, <4>2
      <4> QED  BY <2>11, <2>14, <4>3
    <3> QED  BY <1>2, <1>5, <1>8, <2>11, <3>1, <3>2 DEF ReceiverInv
  <2>16. Chained(rest, Queued', epoch)
    <3>1. CASE \A i \in 1..n : a[i] # None  BY <2>6, <2>9, <3>1
    <3>2. CASE \E i \in 1..n : a[i] = None
      <4>1. rest = <<>>  BY <2>14, <3>2
      <4> QED  BY <4>1, EmptyChain
    <3> QED  BY <3>1, <3>2
  <2>17. Chained(receiver'.batch, Published', epoch)  BY <2>11, EmptyChain
  <2>18. ASSUME link = "up" PROVE Received' = Received
    <3>1. \A i \in 1..Len(receiver.out) : receiver.out[i] # None  BY <1>5, <1>10, <2>18
    <3>2. \A i \in 1..n : a[i] # None
      <4>1. \A i \in 1..n : i \in 1..Len(receiver.out)  BY <1>7, <2>2
      <4> QED  BY <2>4, <3>1, <4>1
    <3>3. Published' = Published
      <4>1. Published' = After(rest, Queued', epoch)  BY <1>2, <2>11 DEF Published
      <4> QED  BY <2>6, <2>9, <3>1, <3>2, <4>1
    <3>4. Received' = After(<<>>, Published', epoch)  BY <1>2, <2>11 DEF Received
    <3>5. Received = After(<<>>, Published, epoch)  BY <1>5 DEF Received
    <3> QED  BY <3>3, <3>4, <3>5
  <2>19. WayInv'  BY <1>2, <1>3, <1>6, <1>10, <2>8, <2>11, <2>16, <2>17, <2>18 DEF WayInv
  <2> QED  BY <1>3, <1>4, <2>12, <2>13, <2>15, <2>19, PartsNext
<1> QED  BY <1>9, <1>10

-----------------------------------------------------------------------------
(* The loopback's sender                                                   *)

(* How far mpv has come with the newest epoch.                             *)
LEMMA GivenSoFar ==
  ASSUME TypesOK, PlayedInv
  PROVE  /\ played.epoch = epoch /\ Len(played.data) > 0 =>
              Given = Target[epoch] + Len(played.data) - 1 /\ Given \in 1..EOS
         /\ ~(played.epoch = epoch /\ Len(played.data) > 0) => Given = Header
<1>1. Len(played.data) \in Nat /\ played.epoch \in Epoch  BY Fields
<1>2. ASSUME played.epoch = epoch, Len(played.data) > 0
      PROVE  Given = Target[epoch] + Len(played.data) - 1 /\ Given \in 1..EOS
  <2>1. PICK t \in Nat : t = Target[epoch] /\ t >= 1  BY <1>1, <1>2, Constants
  <2>2. Given = t + Len(played.data) - 1  BY <1>2, <2>1 DEF Given
  <2>3. t + Len(played.data) - 2 <= Trailer  BY <1>2, <2>1 DEF PlayedInv, Beginning
  <2>4. Given \in 1..EOS  BY <1>1, <1>2, <2>1, <2>2, <2>3, Constants
  <2> QED  BY <2>1, <2>2, <2>4
<1> QED  BY <1>2 DEF Given

LEMMA SendChunkStep ==
  ASSUME PlayerInv, SendChunk
  PROVE  PlayerInv'
<1>1. TypesOK /\ StreamInv /\ LoadInv /\ EndInv /\ LoadsInv  BY DEF PlayerInv
<1>2. /\ UNCHANGED <<epoch, networkVars, receiver, queueVars, consumer, playerVars, failures>>
      /\ UNCHANGED <<server, link, items, queue_closed, load, mpv, attaching, signals, outcome>>
      /\ buffer # <<>> /\ Chunks # <<>>
  BY DEF SendChunk, Chunks, networkVars, queueVars, playerVars
<1>3. PICK b \in Loopback : buffer = <<b>>  BY <1>1, <1>2 DEF TypesOK, BufferOK
<1>4. buffer[1] = b /\ Chunks = b.chunks  BY <1>2, <1>3, Single DEF Chunks
<1> DEFINE pkt == Head(Chunks)
<1>5. /\ buffer' = <<[b EXCEPT !.chunks = Tail(Chunks)]>>
      /\ played' = [epoch |-> pkt.epoch,
                    data |-> Append(IF pkt.epoch = played.epoch THEN played.data ELSE <<>>,
                                    pkt.item)]
  BY <1>4 DEF SendChunk
<1>6. /\ Chunks \in Batches /\ Chunks \in Ways /\ epoch \in Nat /\ epoch \in Epoch
      /\ played.epoch \in Epoch /\ Len(played.data) \in Nat /\ played.data \in Seq(Header..Trailer)
  BY <1>1, Fields
<1>7. /\ pkt = Chunks[1] /\ pkt \in Packet /\ Len(Chunks) > 0 /\ Tail(Chunks) \in Batches
      /\ Len(Tail(Chunks)) = Len(Chunks) - 1
      /\ \A i \in 1..Len(Chunks) - 1 : Tail(Chunks)[i] = Chunks[i + 1]
  BY <1>2, <1>6, Shrunk DEF Batches
<1>8. /\ Len(Chunks) \in Nat /\ \A i \in 1..Len(Chunks) : Chunks[i] \in Packet /\ Chunks[i] # None
  BY <1>6, Members, Packets DEF Batches
<1>9. /\ \A i \in 1..Len(Chunks) : Chunks[i].epoch = epoch /\ Chunks[i].item # EOS
      /\ Chained(Chunks, Given, epoch)
      /\ load.eos <= epoch /\ (load.eos = epoch => Buffered = EOS)
      /\ buffer[1].finished => load.eos = epoch
      /\ ~load.reloading
  BY <1>1, <1>2 DEF StreamInv, BufferInv
<1>10. pkt.epoch = epoch /\ pkt.item # EOS  BY <1>7, <1>8, <1>9
<1>11. /\ pkt.item = Given /\ Chained(Tail(Chunks), NextItem(pkt), epoch)
       /\ After(Tail(Chunks), NextItem(pkt), epoch) = Buffered
  <2>1. 1 \in 1..Len(Chunks) /\ Len(Chunks) \in 1..Len(Chunks)  BY <1>7, <1>8
  <2>2. Chunks[1] # None /\ Chunks[Len(Chunks)] # None /\ Chunks[1].epoch = epoch
    BY <1>8, <1>9, <2>1
  <2> QED  BY <1>2, <1>6, <1>7, <1>9, <2>2, ChainTaken DEF Ways, Buffered
<1>12. /\ buffer' # <<>> /\ buffer'[1].finished = b.finished /\ Chunks' = Tail(Chunks)
       /\ \E c \in Loopback : buffer' = <<c>>
  <2>1. PICK c : c = [b EXCEPT !.chunks = Tail(Chunks)]  OBVIOUS
  <2>2. c \in Loopback /\ c.chunks = Tail(Chunks) /\ c.finished = b.finished
    BY <1>7, <2>1 DEF Loopback
  <2>3. buffer' = <<c>>  BY <1>5, <2>1
  <2>4. buffer' # <<>> /\ buffer'[1] = c  BY <2>3, Single
  <2>5. Chunks' = buffer'[1].chunks  BY <2>4 DEF Chunks
  <2> QED  BY <2>2, <2>3, <2>4, <2>5
<1> HIDE DEF pkt
<1>13. PICK t \in Nat, k \in Nat : t = Target[epoch] /\ 1 <= t /\ t <= Trailer /\ k = Len(played.data)
  BY <1>6, Constants
<1>14. PlayedInv  BY <1>1 DEF StreamInv
<1>15. /\ pkt.item \in Header..Trailer
       /\ played' = [epoch |-> epoch,
                     data |-> Append(IF played.epoch = epoch THEN played.data ELSE <<>>, pkt.item)]
  <2>1. PICK i : i = pkt.item /\ i \in 0..EOS  BY <1>7, Packets
  <2>2. i \in Header..Trailer  BY <1>10, <2>1, Constants
  <2>3. (pkt.epoch = played.epoch) <=> (played.epoch = epoch)  BY <1>10
  <2>4. (IF pkt.epoch = played.epoch THEN played.data ELSE <<>>)
          = (IF played.epoch = epoch THEN played.data ELSE <<>>)
    BY <2>3, Zenon
  <2>5. played' = [epoch |-> epoch,
                   data |-> Append(IF played.epoch = epoch THEN played.data ELSE <<>>, pkt.item)]
    BY <1>5, <1>10, <2>4, Zenon
  <2> QED  BY <2>1, <2>2, <2>5, Zenon
(* The stream of the epoch goes on, or it begins.                          *)
<1>16. /\ played' \in PlayedType /\ Beginning(epoch, played'.data)
       /\ Len(played'.data) > 0 /\ t + Len(played'.data) - 1 = NextItem(pkt)
  <2>1. CASE played.epoch = epoch /\ k > 0
    <3>1. Given = t + k - 1 /\ Given # Header
      BY <1>1, <1>13, <1>14, <2>1, GivenSoFar, Constants
    <3>2. played' = [epoch |-> epoch, data |-> Append(played.data, pkt.item)]
      BY <1>15, <2>1
    <3>3. /\ Append(played.data, pkt.item) \in Seq(Header..Trailer)
          /\ Len(Append(played.data, pkt.item)) = k + 1
          /\ \A i \in 1..k : Append(played.data, pkt.item)[i] = played.data[i]
          /\ Append(played.data, pkt.item)[k + 1] = pkt.item
      BY <1>6, <1>13, <1>15, Grown
    <3> DEFINE d == Append(played.data, pkt.item)
    <3> HIDE DEF d
    <3>4. played'.data = d /\ d \in Seq(Header..Trailer) /\ Len(d) = k + 1
          /\ (\A i \in 1..k : d[i] = played.data[i]) /\ d[k + 1] = t + k - 1
          /\ t + k - 1 <= Trailer
      BY <1>11, <1>13, <1>15, <3>1, <3>2, <3>3, Constants DEF d
    <3>5. \A i \in 1..k : played.data[i] = IF i = 1 THEN Header ELSE t + i - 2
      BY <1>13, <1>14, <2>1 DEF PlayedInv, Beginning
    <3>6. Beginning(epoch, d)
      <4>1. ASSUME NEW i \in 1..k + 1 PROVE d[i] = IF i = 1 THEN Header ELSE t + i - 2
        <5>1. CASE i \in 1..k  BY <3>4, <3>5, <5>1
        <5>2. CASE i = k + 1  BY <2>1, <3>4, <5>2
        <5> QED  BY <5>1, <5>2
      <4>2. t + (k + 1) - 2 <= Trailer  BY <3>4
      <4> QED  BY <1>13, <3>4, <4>1, <4>2 DEF Beginning
    <3>7. NextItem(pkt) = t + k  BY <1>11, <3>1 DEF NextItem
    <3> QED  BY <1>6, <3>2, <3>4, <3>6, <3>7 DEF PlayedType, d
  <2>2. CASE ~(played.epoch = epoch /\ k > 0)
    <3>1. pkt.item = Header  BY <1>1, <1>11, <1>13, <1>14, <2>2, GivenSoFar
    <3>2. (IF played.epoch = epoch THEN played.data ELSE <<>>) = <<>>
      <4>1. played.epoch = epoch => k = 0  BY <2>2
      <4>2. k = 0 => played.data = <<>>  BY <1>6, <1>13, Members
      <4> QED  BY <4>1, <4>2
    <3>3. played' = [epoch |-> epoch, data |-> Append(<<>>, Header)]  BY <1>15, <3>1, <3>2
    <3>4. <<>> \in Seq(Header..Trailer) /\ Len(<<>>) = 0 /\ Header \in Header..Trailer
      BY Nothing, Constants
    <3>5. /\ Append(<<>>, Header) \in Seq(Header..Trailer) /\ Len(Append(<<>>, Header)) = 1
          /\ Append(<<>>, Header)[1] = Header
      BY <3>4, Grown
    <3> DEFINE d == Append(<<>>, Header)
    <3> HIDE DEF d
    <3>6. played'.data = d /\ d \in Seq(Header..Trailer) /\ Len(d) = 1 /\ d[1] = Header
      BY <3>3, <3>5 DEF d
    <3>7. Beginning(epoch, d)  BY <1>13, <3>6, Constants DEF Beginning
    <3>8. NextItem(pkt) = t  BY <1>10, <1>13, <3>1 DEF NextItem
    <3> QED  BY <1>6, <1>13, <3>3, <3>6, <3>7, <3>8 DEF PlayedType, d
  <2> QED  BY <2>1, <2>2
<1>17. Given' = NextItem(pkt)
  BY <1>2, <1>13, <1>15, <1>16 DEF Given
<1>18. Buffered' = Buffered  BY <1>2, <1>11, <1>12, <1>17 DEF Buffered
<1>19. Consumed' = Consumed  BY <1>2, <1>18 DEF Consumed
<1>20. /\ NetworkOK' /\ ReceiverOK' /\ QueueOK' /\ ConsumerOK' /\ LoadOK' /\ MpvOK' /\ SignalsOK'
  BY <1>1, <1>2, SameTypes
<1>21. BufferOK'  BY <1>12 DEF BufferOK
<1>22. PlayedOK'  BY <1>1, <1>2, <1>16 DEF TypesOK, PlayedOK
<1>23. PlayedInv'
  <2>1. played'.epoch = epoch  BY <1>15
  <2> QED  BY <1>2, <1>6, <1>16, <2>1 DEF PlayedInv, Beginning
<1>24. BufferInv'
  <2>1. \A i \in 1..Len(Chunks') : Chunks'[i].epoch = epoch /\ Chunks'[i].item # EOS
    <3>1. \A i \in 1..Len(Chunks) - 1 : i + 1 \in 1..Len(Chunks)  BY <1>8
    <3> QED  BY <1>7, <1>9, <1>12, <3>1
  <2>2. Chained(Chunks', Given', epoch)  BY <1>11, <1>12, <1>17
  <2> QED  BY <1>2, <1>4, <1>9, <1>12, <1>18, <2>1, <2>2 DEF BufferInv
<1>25. ConsumerInv'  BY <1>1, <1>2, <1>12 DEF StreamInv, ConsumerInv
<1>26. ReceiverInv'  BY <1>1, <1>2, SameStream
<1>27. WayInv'  BY <1>1, <1>2, <1>19, SameStream
<1>28. LoadInv'  BY <1>1, <1>2, SameLoad
<1>29. EndInv'  BY <1>1, <1>2 DEF EndInv, AllGiven, Said
<1>30. LoadsInv'  BY <1>1, <1>2, <1>12, <1>19 DEF LoadsInv, Loads
<1> QED
  BY <1>20, <1>21, <1>22, <1>23, <1>24, <1>25, <1>26, <1>27, <1>28, <1>29, <1>30, PartsNext

-----------------------------------------------------------------------------
(* The consumer                                                            *)

(* The consumer takes the first packet of the queue: it is stale, or it is *)
(* the one that comes next.                                                *)
LEMMA Taken ==
  ASSUME PlayerInv, Take
  PROVE  /\ items \in Ways /\ items # <<>> /\ Head(items) = items[1] /\ Head(items) \in Packet
         /\ ~queue_closed /\ consumer.pc = "getting" /\ Head(items).epoch <= epoch
         /\ Head(items).epoch = epoch => Head(items).item = Consumed
         /\ QueueOK' /\ ReceiverInv' /\ NetworkOK' /\ ReceiverOK'
<1>1. TypesOK /\ StreamInv  BY DEF PlayerInv
<1>2. /\ consumer.pc = "getting" /\ items # <<>> /\ Head(items) # None /\ items' = Tail(items)
      /\ available' = (available /\ Tail(items) # <<>>)
      /\ UNCHANGED <<epoch, networkVars, receiver, waking, queue_closed, link>>
  BY DEF Take, networkVars
<1>3. items \in Ways /\ epoch \in Nat  BY <1>1, Fields
<1>4. /\ Head(items) = items[1] /\ Head(items) \in Packet /\ Len(items) \in Nat /\ Len(items) > 0
      /\ Tail(items) \in Ways /\ Len(Tail(items)) = Len(items) - 1
      /\ \A i \in 1..Len(items) - 1 : Tail(items)[i] = items[i + 1]
  <2>1. /\ Head(items) = items[1] /\ Head(items) \in Delivered /\ Len(items) > 0
        /\ Tail(items) \in Ways /\ Len(Tail(items)) = Len(items) - 1
        /\ \A i \in 1..Len(items) - 1 : Tail(items)[i] = items[i + 1]
    BY <1>2, <1>3, Shrunk DEF Ways
  <2>2. Len(items) \in Nat  BY <1>3, Members DEF Ways
  <2>3. Head(items) \in Packet  BY <1>2, <2>1, Packets
  <2> QED  BY <2>1, <2>2, <2>3
<1>5. /\ Chained(items, Consumed, epoch) /\ (queue_closed => items = <<>>)
  BY <1>1 DEF StreamInv, WayInv
<1>6. 1 \in 1..Len(items)  BY <1>4
<1>7. Head(items).epoch <= epoch /\ (Head(items).epoch = epoch => Head(items).item = Consumed)
  BY <1>4, <1>5, <1>6 DEF Chained
<1>8. QueueOK'
  <2>1. Len(items) <= BridgeRoom /\ available \in BOOLEAN /\ waking \in BOOLEAN
        /\ queue_closed \in BOOLEAN
    BY <1>1 DEF TypesOK, QueueOK
  <2>2. Len(Tail(items)) <= BridgeRoom  BY <1>4, <2>1, Constants
  <2> QED  BY <1>2, <1>4, <2>1, <2>2 DEF QueueOK
<1>9. ReceiverInv'
  <2>1. \A i \in 1..Len(items') : items'[i] = None => receiver.pc = "ended"
    <3>1. \A i \in 1..Len(items) : items[i] = None => receiver.pc = "ended"
      BY <1>1 DEF StreamInv, ReceiverInv
    <3>2. \A i \in 1..Len(items) - 1 : i + 1 \in 1..Len(items)  BY <1>4
    <3> QED  BY <1>2, <1>4, <3>1, <3>2
  <2> QED  BY <1>1, <1>2, <2>1 DEF StreamInv, ReceiverInv
<1>10. NetworkOK' /\ ReceiverOK'  BY <1>1, <1>2, SameTypes
<1> QED  BY <1>2, <1>3, <1>4, <1>5, <1>7, <1>8, <1>9, <1>10

(* What it leaves goes on behind what it took.                             *)
LEMMA WayTaken ==
  ASSUME PlayerInv, Take,
         Consumed' = IF Head(items).epoch = epoch THEN NextItem(Head(items)) ELSE Consumed
  PROVE  WayInv'
<1>1. TypesOK /\ StreamInv  BY DEF PlayerInv
<1>2. /\ items # <<>> /\ Head(items) = items[1] /\ Head(items) # None /\ ~queue_closed
      /\ items' = Tail(items) /\ items \in Ways
      /\ UNCHANGED <<epoch, server, link, receiver, queue_closed>>
  BY Taken DEF Take, networkVars
<1>3. epoch \in Nat /\ Len(items) \in Nat /\ Len(items) > 0
  <2>1. epoch \in Nat  BY <1>1, Fields
  <2> QED  BY <1>2, <2>1, Members, Shrunk DEF Ways
<1>4. /\ Chained(items, Consumed, epoch)
      /\ Chained(receiver.out, Queued, epoch) /\ Chained(receiver.batch, Published, epoch)
      /\ server.next <= EOS => link = "up" /\ ~queue_closed
      /\ link = "up" /\ ~queue_closed =>
           IF server.epoch < epoch THEN Received = Header
           ELSE server.next <= EOS => Received = server.next
  BY <1>1, <1>2 DEF StreamInv, WayInv
<1>5. /\ Chained(Tail(items), Consumed', epoch)
      /\ items[Len(items)] # None => After(Tail(items), Consumed', epoch) = Queued
  <2>1. CASE items[1].epoch = epoch
    <3>1. Consumed' = NextItem(items[1])  BY <1>2, <2>1
    <3>2. /\ Chained(Tail(items), NextItem(items[1]), epoch)
          /\ items[Len(items)] # None =>
               After(Tail(items), NextItem(items[1]), epoch) = After(items, Consumed, epoch)
      BY <1>2, <1>3, <1>4, <2>1, ChainTaken DEF Ways
    <3> QED  BY <3>1, <3>2 DEF Queued
  <2>2. CASE items[1].epoch # epoch
    <3>1. Consumed' = Consumed  BY <1>2, <2>2
    <3>2. /\ Chained(Tail(items), Consumed, epoch)
          /\ After(Tail(items), Consumed, epoch) = After(items, Consumed, epoch)
      BY <1>2, <1>3, <1>4, <2>2, ChainTaken DEF Ways
    <3> QED  BY <3>1, <3>2 DEF Queued
  <2> QED  BY <2>1, <2>2
<1>6. CASE items[Len(items)] # None
  <2>1. Queued' = Queued  BY <1>2, <1>5, <1>6 DEF Queued
  <2>2. Published' = Published  BY <1>2, <2>1 DEF Published
  <2>3. Received' = Received  BY <1>2, <2>2 DEF Received
  <2> QED  BY <1>2, <1>4, <1>5, <2>1, <2>2, <2>3 DEF WayInv
<1>7. CASE items[Len(items)] = None
  <2>1. Len(items) \in 1..Len(items)  BY <1>3
  <2>2. /\ receiver.out = <<>> /\ receiver.batch = <<>> /\ (link = "lost" \/ queue_closed)
    BY <1>1, <1>7, <2>1 DEF StreamInv, ReceiverInv
  <2>3. Chained(receiver'.out, Queued', epoch) /\ Chained(receiver'.batch, Published', epoch)
    BY <1>2, <2>2, EmptyChain
  <2>4. link # "up"  BY <1>2, <2>2
  <2> QED  BY <1>2, <1>4, <1>5, <2>3, <2>4 DEF WayInv
<1> QED  BY <1>6, <1>7

LEMMA ConsumeEndStep ==
  ASSUME PlayerInv, ConsumeEnd
  PROVE  PlayerInv'
<1>1. TypesOK /\ StreamInv /\ LoadInv /\ EndInv /\ LoadsInv  BY DEF PlayerInv
<1>2. /\ UNCHANGED <<epoch, networkVars, receiver, waking, queue_closed, buffer, load,
                     mpv, attaching, signals, played, failures>>
      /\ UNCHANGED <<link, server>>
      /\ consumer.pc = "getting" /\ consumer' = [consumer EXCEPT !.pc = "ended"]
      /\ outcome' = IF outcome = "playing" THEN "failed" ELSE outcome
      /\ available' = (available /\ (items' # <<>> \/ items = <<>>))
  BY DEF ConsumeEnd, Outcome, networkVars
<1>3. \/ items # <<>> /\ Head(items) = None /\ items' = Tail(items)
      \/ items = <<>> /\ items' = items
  BY DEF ConsumeEnd
<1>4. /\ consumer' \in ConsumerType /\ consumer'.held = consumer.held
      /\ consumer'.first = consumer.first /\ consumer'.pc = "ended"
  <2>1. consumer \in ConsumerType  BY <1>1 DEF TypesOK, ConsumerOK
  <2> QED  BY <1>2, <2>1 DEF ConsumerType
<1>5. Consumed' = Consumed /\ Chunks' = Chunks  BY <1>2, <1>4, SamePlace
<1>6. /\ items \in Ways /\ Len(items) \in Nat /\ Len(items) <= BridgeRoom
      /\ available \in BOOLEAN /\ waking \in BOOLEAN /\ queue_closed \in BOOLEAN
  <2>1. items \in Ways  BY <1>1, Fields
  <2> QED  BY <1>1, <2>1, Members DEF TypesOK, QueueOK, Ways
<1>7. items' = <<>>
  <2> SUFFICES ASSUME items # <<>>, Head(items) = None, items' = Tail(items) PROVE items' = <<>>
    BY <1>3
  <2>1. Head(items) = items[1] /\ Len(items) > 0 /\ Tail(items) \in Ways
        /\ Len(Tail(items)) = Len(items) - 1
    BY <1>6, Shrunk DEF Ways
  <2>2. Chained(items, Consumed, epoch)  BY <1>1 DEF StreamInv, WayInv
  <2>3. 1 \in 1..Len(items) /\ items[1] = None  BY <1>6, <2>1
  <2>4. Len(items) = 1  BY <2>2, <2>3 DEF Chained
  <2>5. Len(Tail(items)) = 0  BY <2>1, <2>4
  <2> QED  BY <2>1, <2>5, Members DEF Ways
<1>8. <<>> \in Ways /\ Len(<<>>) = 0 /\ 0 <= BridgeRoom  BY Nothing, Constants DEF Ways
<1>9. QueueOK'  BY <1>2, <1>6, <1>7, <1>8 DEF QueueOK
<1>10. ReceiverInv'  BY <1>1, <1>2, <1>7, <1>8 DEF StreamInv, ReceiverInv
<1>11. WayInv'
  <2>1. CASE items = <<>>
    <3>1. items' = items  BY <1>7, <2>1
    <3> QED  BY <1>1, <1>2, <1>5, <3>1, SameStream
  <2>2. CASE items # <<>>
    <3>1. Head(items) = items[1] /\ items[1] = None /\ 1 \in 1..Len(items)
      BY <1>3, <1>6, <2>2, Shrunk DEF Ways
    <3>2. /\ receiver.out = <<>> /\ receiver.batch = <<>> /\ (link = "lost" \/ queue_closed)
      BY <1>1, <3>1 DEF StreamInv, ReceiverInv
    <3>3. server.next <= EOS => link = "up" /\ ~queue_closed  BY <1>1 DEF StreamInv, WayInv
    <3>4. /\ Chained(items', Consumed', epoch') /\ Chained(receiver'.out, Queued', epoch')
          /\ Chained(receiver'.batch, Published', epoch')
      BY <1>2, <1>7, <3>2, EmptyChain
    <3>5. link = "up" => queue_closed  BY <3>2
    <3> QED  BY <1>2, <1>7, <3>3, <3>4, <3>5 DEF WayInv
  <2> QED  BY <2>1, <2>2
<1>12. NetworkOK' /\ ReceiverOK' /\ BufferOK' /\ LoadOK' /\ MpvOK' /\ SignalsOK'
  BY <1>1, <1>2, SameTypes
<1>13. PlayedOK'  BY <1>1, <1>2 DEF TypesOK, PlayedOK
<1>14. PlayedInv' /\ BufferInv'  BY <1>1, <1>2, SameStream
<1>15. ConsumerInv'  BY <1>1, <1>2, <1>4 DEF StreamInv, ConsumerInv
<1>16. LoadInv'  BY <1>1, <1>2, SameLoad
<1>17. EndInv'  BY <1>1, <1>2, <1>5 DEF EndInv, AllGiven, Said
<1>18. LoadsInv'  BY <1>1, <1>2, <1>4, <1>5 DEF LoadsInv, Loads
<1> QED
  BY <1>4, <1>9, <1>10, <1>11, <1>12, <1>13, <1>14, <1>15, <1>16, <1>17, <1>18, PartsNext
     DEF ConsumerOK

(* With nothing in its hands the consumer is where the loopback's stream   *)
(* stops, and without a loopback the stream has not begun.                 *)
LEMMA AtTheBuffer ==
  ASSUME PlayerInv, consumer.pc = "getting"
  PROVE  /\ consumer.held = None
         /\ Consumed = IF load.eos = epoch THEN EOS + 1 ELSE Buffered
         /\ buffer = <<>> => load.eos # epoch /\ Consumed = Header /\ load.reloading
         /\ buffer # <<>> => ~load.reloading
         /\ load.eos = epoch => Consumed = EOS + 1 /\ buffer # <<>> /\ Buffered = EOS
         /\ buffer # <<>> /\ buffer[1].finished => load.eos = epoch
<1>1. TypesOK /\ StreamInv  BY DEF PlayerInv
<1>2. consumer.held = None  BY <1>1 DEF StreamInv, ConsumerInv
<1>3. consumer.held.epoch # epoch
  <2>1. epoch \in Nat  BY <1>1, Fields
  <2> QED  BY <1>2, <2>1, Packets
<1>4. Consumed = IF load.eos = epoch THEN EOS + 1 ELSE Buffered  BY <1>3 DEF Consumed
<1>5. /\ load.eos = epoch => Buffered = EOS
      /\ buffer # <<>> /\ buffer[1].finished => load.eos = epoch
      /\ buffer = <<>> => Given = Header
      /\ buffer = <<>> <=> load.reloading
  BY <1>1 DEF StreamInv, BufferInv
<1>6. ASSUME buffer = <<>> PROVE Buffered = Header
  <2>1. Buffered = After(<<>>, Given, epoch)  BY <1>6 DEF Buffered, Chunks
  <2> QED  BY <1>5, <1>6, <2>1, EmptyChain
<1>7. EOS # Header  BY Constants
<1> QED  BY <1>2, <1>4, <1>5, <1>6, <1>7

LEMMA ConsumePacketStep ==
  ASSUME PlayerInv, ConsumePacket
  PROVE  PlayerInv'
<1> DEFINE pkt == Head(items)
<1>1. TypesOK /\ StreamInv /\ LoadInv /\ EndInv /\ LoadsInv  BY DEF PlayerInv
<1>2. Take  BY DEF ConsumePacket, ConsumeFresh
<1>3. /\ pkt \in Packet /\ ~queue_closed /\ consumer.pc = "getting"
      /\ pkt.epoch = epoch => pkt.item = Consumed
      /\ QueueOK' /\ ReceiverInv' /\ NetworkOK' /\ ReceiverOK'
  BY <1>2, Taken
<1>4. UNCHANGED <<epoch, mpv, attaching, signals, outcome, played, failures>>  BY <1>2 DEF Take
<1>5. \/ pkt.epoch # epoch /\ UNCHANGED <<consumer, buffer, load>>
      \/ /\ pkt.epoch = epoch /\ pkt.item = EOS /\ UNCHANGED consumer
         /\ buffer' = IF buffer = <<>> THEN <<>> ELSE <<[buffer[1] EXCEPT !.finished = TRUE]>>
         /\ load' = Prebuffered([load EXCEPT !.eos = epoch])
      \/ /\ pkt.epoch = epoch /\ pkt.item # EOS
         /\ pkt.item # Header \/ (consumer.first /\ buffer # <<>>)
         /\ consumer' = [consumer EXCEPT !.first = FALSE]
         /\ IF buffer = <<>> THEN UNCHANGED <<buffer, load>>
            ELSE buffer' = Fed(buffer, pkt) /\ load' = Prebuffered(load)
  BY DEF ConsumePacket, ConsumeFresh, Discontinuity
<1> HIDE DEF pkt
<1>6. MpvOK' /\ SignalsOK' /\ PlayedOK' /\ PlayedInv'  BY <1>1, <1>4, SameTypes, SameStream
<1>7. /\ consumer.held = None
      /\ Consumed = IF load.eos = epoch THEN EOS + 1 ELSE Buffered
      /\ buffer = <<>> => load.eos # epoch /\ Consumed = Header /\ load.reloading
      /\ buffer # <<>> => ~load.reloading
      /\ load.eos = epoch => Consumed = EOS + 1 /\ buffer # <<>> /\ Buffered = EOS
      /\ buffer # <<>> /\ buffer[1].finished => load.eos = epoch
  BY <1>3, AtTheBuffer
<1>8. /\ pkt.item \in 0..EOS /\ NextItem(pkt) \in 1..EOS + 1 /\ epoch \in Nat /\ epoch \in Epoch
      /\ load \in LoadType /\ consumer \in ConsumerType
  BY <1>1, <1>3, Packets, Fields DEF TypesOK, LoadOK, ConsumerOK
<1>9. consumer.held.epoch # epoch  BY <1>7, <1>8, Packets
<1>10. CASE pkt.epoch # epoch /\ UNCHANGED <<consumer, buffer, load>>
  <2>1. Consumed' = Consumed /\ Chunks' = Chunks  BY <1>4, <1>10, SamePlace
  <2>2. WayInv'  BY <1>2, <1>10, <2>1, WayTaken DEF pkt
  <2>3. ConsumerOK' /\ BufferOK' /\ LoadOK'  BY <1>1, <1>10, SameTypes
  <2>4. BufferInv' /\ ConsumerInv'  BY <1>1, <1>4, <1>10, SameStream
  <2>5. LoadInv' /\ EndInv' /\ LoadsInv'  BY <1>1, <1>4, <1>10, <2>1, SameLoad
  <2> QED  BY <1>3, <1>6, <2>2, <2>3, <2>4, <2>5, PartsNext
(* What comes next of the newest epoch: there is a loopback to take it.    *)
<1>11. ASSUME pkt.epoch = epoch
       PROVE  load.eos # epoch /\ pkt.item = Buffered
  <2>1. pkt.item = Consumed  BY <1>3, <1>11
  <2>2. pkt.item # EOS + 1  BY <1>8, Constants
  <2> QED  BY <1>7, <2>1, <2>2
<1>12. ASSUME NEW b \in Loopback, buffer = <<b>>, NEW c \in Loopback, buffer' = <<c>>,
              NEW l \in LoadType, load' = Prebuffered(l),
              l.gen = load.gen, l.reloading = load.reloading, l.accept = load.accept,
              l.restarted = load.restarted, l.attached = load.attached,
              l.released = load.released,
              consumer' = consumer \/ consumer' = [consumer EXCEPT !.first = FALSE],
              pkt.epoch = epoch, Consumed' = NextItem(pkt), BufferInv'
       PROVE  PlayerInv'
  <2>1. WayInv'  BY <1>2, <1>12, WayTaken DEF pkt
  <2>2. BufferOK'  BY <1>12 DEF BufferOK
  <2>3. /\ load'.gen = load.gen /\ load'.reloading = load.reloading
        /\ load'.accept = load.accept /\ load'.restarted = load.restarted
        /\ load'.attached = load.attached
        /\ load'.released => load.released \/ (load.restarted /\ load.attached)
    BY <1>12, Releases
  <2>4. LoadOK'  BY <1>12, Updates DEF LoadOK
  <2>5. /\ consumer' \in ConsumerType /\ consumer'.pc = consumer.pc
        /\ consumer'.held = consumer.held
    BY <1>8, <1>12 DEF ConsumerType
  <2>6. ConsumerInv'  BY <1>3, <1>7, <2>5 DEF ConsumerInv
  <2>7. LoadInv'  BY <1>1, <1>4, <2>3 DEF LoadInv, Said, Shown
  <2>8. ~AllGiven  BY <1>11, <1>12 DEF AllGiven
  <2>9. EndInv'  BY <1>1, <1>4, <2>3, <2>8 DEF EndInv, Said
  <2>10. LoadsInv'
    <3>1. Consumed' # Header  BY <1>8, <1>12, Constants
    <3>2. Loads' = load.gen
      <4>1. load.gen \in Nat  BY <1>8 DEF LoadType
      <4> QED  BY <1>3, <1>4, <2>3, <2>5, <3>1, <4>1 DEF Loads
    <3>3. Loads' <= Loads /\ Loads \in Nat /\ Loads' \in Nat
      BY <1>8, <3>2 DEF Loads, LoadType
    <3>4. Loads' <= 3 * epoch' + 1
      BY <1>1, <1>4, <1>8, <3>3 DEF LoadsInv
    <3> QED  BY <3>1, <3>4 DEF LoadsInv
  <2> QED
    BY <1>3, <1>6, <2>1, <2>2, <2>4, <2>5, <2>6, <2>7, <2>9, <2>10, <1>12, PartsNext
       DEF ConsumerOK
<1>13. ASSUME pkt.epoch = epoch, pkt.item # Header \/ buffer # <<>>
       PROVE  \E b \in Loopback : buffer = <<b>>
  <2>1. buffer # <<>>  BY <1>3, <1>7, <1>13
  <2> QED  BY <1>1, <2>1 DEF TypesOK, BufferOK
<1>14. /\ \A i \in 1..Len(Chunks) : Chunks[i].epoch = epoch /\ Chunks[i].item # EOS
       /\ Chained(Chunks, Given, epoch) /\ load.eos <= epoch
  BY <1>1 DEF StreamInv, BufferInv
<1>15. CASE /\ pkt.epoch = epoch /\ pkt.item = EOS /\ UNCHANGED consumer
            /\ buffer' = IF buffer = <<>> THEN <<>> ELSE <<[buffer[1] EXCEPT !.finished = TRUE]>>
            /\ load' = Prebuffered([load EXCEPT !.eos = epoch])
  <2>1. pkt.item # Header  BY <1>15, Constants
  <2>2. PICK b \in Loopback : buffer = <<b>>  BY <1>13, <1>15, <2>1
  <2>3. buffer # <<>> /\ buffer[1] = b /\ Chunks = b.chunks  BY <2>2, Single DEF Chunks
  <2>4. PICK c : c = [b EXCEPT !.finished = TRUE]  OBVIOUS
  <2>5. c \in Loopback /\ c.chunks = b.chunks /\ c.finished  BY <2>4 DEF Loopback
  <2>6. buffer' = <<c>>  BY <1>15, <2>3, <2>4
  <2>7. buffer' # <<>> /\ buffer'[1] = c  BY <2>6, Single
  <2>8. Chunks' = Chunks  BY <2>3, <2>5, <2>7 DEF Chunks
  <2>9. Given' = Given  BY <1>4 DEF Given
  <2>10. Buffered' = Buffered /\ Buffered = EOS
    BY <1>4, <1>11, <1>15, <2>8, <2>9 DEF Buffered
  <2>11. PICK l : l = [load EXCEPT !.eos = epoch]  OBVIOUS
  <2>12. /\ l \in LoadType /\ l.gen = load.gen /\ l.reloading = load.reloading
         /\ l.accept = load.accept /\ l.restarted = load.restarted
         /\ l.attached = load.attached /\ l.released = load.released /\ l.eos = epoch
    BY <1>8, <2>11 DEF LoadType
  <2>13. load' = Prebuffered(l)  BY <1>15, <2>11
  <2>14. load'.eos = epoch /\ load'.reloading = load.reloading  BY <2>12, <2>13, Releases
  <2>15. Consumed' = NextItem(pkt)
    <3>1. NextItem(pkt) = EOS + 1  BY <1>15, <2>1 DEF NextItem
    <3> QED  BY <1>4, <2>14, <3>1 DEF Consumed
  <2>16. BufferInv'
    <3>1. Chained(Chunks', Given', epoch')  BY <1>4, <1>14, <2>8, <2>9
    <3> QED  BY <1>4, <1>7, <1>8, <1>14, <2>3, <2>7, <2>8, <2>10, <2>14, <3>1 DEF BufferInv
  <2> QED  BY <1>12, <1>15, <2>2, <2>5, <2>6, <2>12, <2>13, <2>15, <2>16
<1>16. CASE /\ pkt.epoch = epoch /\ pkt.item # EOS
            /\ pkt.item # Header \/ (consumer.first /\ buffer # <<>>)
            /\ consumer' = [consumer EXCEPT !.first = FALSE]
            /\ IF buffer = <<>> THEN UNCHANGED <<buffer, load>>
               ELSE buffer' = Fed(buffer, pkt) /\ load' = Prebuffered(load)
  <2>2. PICK b \in Loopback : buffer = <<b>>  BY <1>13, <1>16
  <2>3. buffer # <<>> /\ buffer[1] = b /\ Chunks = b.chunks /\ Chunks \in Batches
        /\ Chunks \in Ways
    BY <1>1, <2>2, Single, Fields DEF Chunks
  <2>4. ~b.finished  BY <1>7, <1>11, <1>16, <2>3
  <2>5. PICK c : c = [b EXCEPT !.chunks = Append(Chunks, pkt)]  OBVIOUS
  <2>6. /\ Append(Chunks, pkt) \in Batches /\ Len(Append(Chunks, pkt)) = Len(Chunks) + 1
        /\ \A i \in 1..Len(Chunks) : Append(Chunks, pkt)[i] = Chunks[i]
        /\ Append(Chunks, pkt)[Len(Chunks) + 1] = pkt /\ Len(Chunks) \in Nat
        /\ \A i \in 1..Len(Chunks) : Chunks[i] # None
    BY <1>3, <2>3, Grown, Members, Packets DEF Batches
  <2>7. c \in Loopback /\ c.chunks = Append(Chunks, pkt) /\ c.finished = b.finished
    BY <2>5, <2>6 DEF Loopback
  <2>8. buffer' = <<c>> /\ load' = Prebuffered(load)
    <3>1. buffer' = Fed(buffer, pkt) /\ load' = Prebuffered(load)  BY <1>16, <2>3
    <3>2. Fed(buffer, pkt) = <<[b EXCEPT !.chunks = Append(@, pkt)]>>
      BY <2>3, <2>4 DEF Fed
    <3> QED  BY <2>3, <2>5, <3>1, <3>2
  <2>9. buffer' # <<>> /\ buffer'[1] = c  BY <2>8, Single
  <2>10. Chunks' = Append(Chunks, pkt)  BY <2>7, <2>9 DEF Chunks
  <2>11. Given' = Given  BY <1>4 DEF Given
  <2>12. /\ Chained(Append(Chunks, pkt), Given, epoch)
         /\ After(Append(Chunks, pkt), Given, epoch) = NextItem(pkt)
    BY <1>3, <1>8, <1>11, <1>14, <1>16, <2>3, <2>6, ChainGrown DEF Ways, Buffered
  <2>13. Buffered' = NextItem(pkt)  BY <1>4, <2>10, <2>11, <2>12 DEF Buffered
  <2>14. load'.eos = load.eos /\ load'.reloading = load.reloading  BY <1>8, <2>8, Releases
  <2>15. Consumed' = NextItem(pkt)
    <3>1. consumer'.held = consumer.held  BY <1>8, <1>16 DEF ConsumerType
    <3> QED  BY <1>4, <1>9, <1>11, <1>16, <2>13, <2>14, <3>1 DEF Consumed
  <2>16. BufferInv'
    <3>1. Chained(Chunks', Given', epoch')  BY <1>4, <2>10, <2>11, <2>12
    <3>2. \A i \in 1..Len(Chunks') : Chunks'[i].epoch = epoch /\ Chunks'[i].item # EOS
      <4>1. \A i \in 1..Len(Chunks) + 1 : i \in 1..Len(Chunks) \/ i = Len(Chunks) + 1
        BY <2>6
      <4> QED  BY <1>14, <1>16, <2>6, <2>10, <4>1
    <3> QED
      BY <1>4, <1>7, <1>11, <1>14, <1>16, <2>3, <2>4, <2>7, <2>9, <2>14, <3>1, <3>2 DEF BufferInv
  <2> QED  BY <1>8, <1>12, <1>16, <2>2, <2>7, <2>8, <2>15, <2>16
<1> QED  BY <1>5, <1>10, <1>15, <1>16

(* Where the newest epoch has not begun, nothing of it was given to mpv.   *)
LEMMA NotBegun ==
  ASSUME PlayerInv, Buffered = Header
  PROVE  Chunks = <<>> /\ Given = Header
<1>1. TypesOK /\ StreamInv  BY DEF PlayerInv
<1>2. Chunks \in Batches  BY <1>1, Fields
<1>3. /\ Len(Chunks) \in Nat /\ (Chunks = <<>> <=> Len(Chunks) = 0)
      /\ \A i \in 1..Len(Chunks) : Chunks[i] \in Packet
  BY <1>2, Members DEF Batches
<1>4. \A i \in 1..Len(Chunks) : Chunks[i].epoch = epoch  BY <1>1 DEF StreamInv, BufferInv
<1>5. ASSUME Chunks # <<>> PROVE FALSE
  <2>1. Len(Chunks) \in 1..Len(Chunks) /\ Len(Chunks) > 0  BY <1>3, <1>5
  <2>2. Buffered = NextItem(Chunks[Len(Chunks)])  BY <1>4, <2>1 DEF Buffered, After
  <2>3. NextItem(Chunks[Len(Chunks)]) # Header  BY <1>3, <2>1, Packets, Constants
  <2> QED  BY <2>2, <2>3
<1>6. Buffered = After(<<>>, Given, epoch)  BY <1>5 DEF Buffered
<1> QED  BY <1>5, <1>6, EmptyChain

LEMMA ConsumeDiscontinuityStep ==
  ASSUME PlayerInv, ConsumeDiscontinuity
  PROVE  PlayerInv'
<1> DEFINE pkt == Head(items)
<1>1. TypesOK /\ StreamInv /\ LoadInv /\ EndInv /\ LoadsInv  BY DEF PlayerInv
<1>2. Take  BY DEF ConsumeDiscontinuity
<1>3. /\ pkt \in Packet /\ ~queue_closed /\ consumer.pc = "getting"
      /\ pkt.epoch = epoch => pkt.item = Consumed
      /\ QueueOK' /\ ReceiverInv' /\ NetworkOK' /\ ReceiverOK'
  BY <1>2, Taken
<1>4. UNCHANGED <<epoch, mpv, attaching, signals, outcome, played, failures>>  BY <1>2 DEF Take
<1>5. /\ pkt.epoch = epoch /\ pkt.item = Header /\ (~consumer.first \/ buffer = <<>>)
      /\ load' = IF buffer = <<>> THEN load ELSE Retired(load)
      /\ buffer' = <<>>
      /\ consumer' = [consumer EXCEPT !.pc = "loading", !.held = pkt]
  BY DEF ConsumeDiscontinuity, Discontinuity
<1> HIDE DEF pkt
<1>6. MpvOK' /\ SignalsOK' /\ PlayedOK' /\ PlayedInv'  BY <1>1, <1>4, SameTypes, SameStream
<1>7. /\ Consumed = IF load.eos = epoch THEN EOS + 1 ELSE Buffered
      /\ buffer = <<>> => load.reloading
      /\ buffer # <<>> => ~load.reloading
      /\ load.eos = epoch => Consumed = EOS + 1
  BY <1>3, AtTheBuffer
<1>8. /\ epoch \in Nat /\ epoch \in Epoch /\ load \in LoadType /\ consumer \in ConsumerType
      /\ load.gen \in Nat /\ pkt # None /\ pkt \in Delivered
  BY <1>1, <1>3, Packets, Fields DEF TypesOK, LoadOK, ConsumerOK, Delivered
<1>9. load.eos # epoch /\ Buffered = Header /\ Consumed = Header
  BY <1>3, <1>5, <1>7, Constants
<1>10. Given = Header /\ Chunks = <<>>  BY <1>9, NotBegun
<1>11. Chunks' = <<>> /\ Given' = Header  BY <1>4, <1>5, <1>10 DEF Chunks, Given
<1>12. Buffered' = Header
  <2>1. Buffered' = After(<<>>, Given', epoch')  BY <1>11 DEF Buffered
  <2> QED  BY <1>11, <2>1, EmptyChain
<1>13. /\ load' \in LoadType /\ load'.eos # epoch /\ load'.reloading /\ load'.eos <= epoch
       /\ load' = load \/ (load'.gen = load.gen + 1 /\ buffer # <<>> /\ load' = Retired(load))
  <2>1. Retired(load) \in LoadType /\ Retired(load).eos = -1 /\ Retired(load).reloading
        /\ Retired(load).gen = load.gen + 1
    BY <1>8, Updates DEF Retired
  <2>2. load.eos <= epoch  BY <1>1 DEF StreamInv, BufferInv
  <2>3. CASE buffer = <<>>  BY <1>5, <1>7, <1>8, <1>9, <2>2, <2>3
  <2>4. CASE buffer # <<>>  BY <1>5, <1>8, <2>1, <2>4
  <2> QED  BY <2>3, <2>4
<1>14. /\ consumer' \in ConsumerType /\ consumer'.pc = "loading" /\ consumer'.held = pkt
       /\ consumer'.first = consumer.first
  BY <1>5, <1>8 DEF ConsumerType
<1>15. Consumed' = NextItem(pkt) /\ Consumed' = Target[epoch]
  <2>1. NextItem(pkt) = Target[epoch]  BY <1>5 DEF NextItem
  <2> QED  BY <1>4, <1>5, <1>13, <1>14, <2>1 DEF Consumed
<1>16. WayInv'  BY <1>2, <1>5, <1>15, WayTaken DEF pkt
<1>17. BufferInv'
  <2>1. Chained(Chunks', Given', epoch')  BY <1>11, EmptyChain
  <2>2. Len(<<>>) = 0  OBVIOUS
  <2> QED  BY <1>4, <1>5, <1>11, <1>13, <2>1, <2>2 DEF BufferInv
<1>18. ConsumerInv'  BY <1>4, <1>5, <1>8, <1>14 DEF ConsumerInv
<1>19. LoadInv'
  <2>1. CASE load' = load  BY <1>1, <1>4, <2>1, SameLoad
  <2>2. CASE load' = Retired(load)
    <3>1. /\ load'.gen = load.gen + 1 /\ load'.reloading /\ ~load'.accept /\ ~load'.restarted
          /\ ~load'.attached /\ ~load'.released
      BY <2>2 DEF Retired
    <3>2. /\ mpv.file \in Nat /\ mpv.file <= load.gen
          /\ (\A g \in attaching : g <= load.gen /\ g \in Nat)
          /\ \A s \in signals : s.gen <= load.gen /\ s.gen \in Nat
      BY <1>1, Fields DEF LoadInv, TypesOK, SignalsOK, SignalType
    <3>3. ~Said("restarted")' /\ ~Said("attached")' /\ load'.gen \notin attaching
      BY <1>4, <1>8, <3>1, <3>2 DEF Said
    <3> QED  BY <1>4, <1>8, <3>1, <3>2, <3>3 DEF LoadInv
  <2> QED  BY <1>13, <2>1, <2>2
<1>20. EndInv'
  <2>1. outcome # "finished"  BY <1>1, <1>9 DEF EndInv, AllGiven
  <2> QED  BY <1>4, <1>13, <2>1 DEF EndInv
<1>21. LoadsInv'
  <2>1. Consumed' # Header  BY <1>8, <1>15, Constants
  <2>2. Loads' = load'.gen + 1
    <3>1. load'.gen \in Nat  BY <1>13 DEF LoadType
    <3> QED  BY <1>14, <2>1, <3>1 DEF Loads
  <2>3. load'.gen + 1 <= 3 * epoch + 1
    <3>1. CASE epoch = 0
      <4>1. consumer.first /\ buffer # <<>>  BY <1>1, <1>3, <1>9, <3>1 DEF LoadsInv
      <4> QED  BY <1>5, <4>1
    <3>2. CASE epoch > 0
      <4>1. Loads = load.gen + 2  BY <1>3, <1>8, <1>9, <3>2 DEF Loads
      <4>2. load.gen + 2 <= 3 * epoch + 1  BY <1>1, <4>1 DEF LoadsInv
      <4>3. load'.gen = load.gen \/ load'.gen = load.gen + 1  BY <1>13
      <4> QED  BY <1>8, <4>2, <4>3
    <3> QED  BY <1>8, <3>1, <3>2
  <2> QED  BY <1>4, <2>1, <2>2, <2>3 DEF LoadsInv
<1>22. BufferOK' /\ ConsumerOK' /\ LoadOK'
  BY <1>5, <1>13, <1>14 DEF BufferOK, ConsumerOK, LoadOK
<1> QED
  BY <1>3, <1>6, <1>16, <1>17, <1>18, <1>19, <1>20, <1>21, <1>22, PartsNext

LEMMA LoadStreamStep ==
  ASSUME PlayerInv, LoadStream
  PROVE  PlayerInv'
<1> DEFINE pkt == consumer.held
           fresh == <<[chunks |-> <<>>, finished |-> FALSE]>>
           keep == pkt # None /\ pkt.epoch = epoch
<1>1. TypesOK /\ StreamInv /\ LoadInv /\ EndInv /\ LoadsInv  BY DEF PlayerInv
<1>2. /\ consumer.pc = "loading"
      /\ UNCHANGED <<epoch, networkVars, receiver, queueVars, attaching, signals, outcome,
                     played, failures>>
      /\ UNCHANGED <<items, queue_closed, link>>
      /\ mpv' = [file |-> load'.gen, restarted |-> FALSE, attached |-> FALSE, ended |-> FALSE]
  BY DEF LoadStream, queueVars, networkVars
<1>3. /\ buffer' = IF keep THEN Fed(fresh, pkt) ELSE fresh
      /\ load' = IF keep THEN Prebuffered(Loaded(load)) ELSE Loaded(load)
      /\ consumer' = [consumer EXCEPT !.pc = "getting", !.held = None,
                                      !.first = @ /\ ~keep]
  BY DEF LoadStream
<1>4. /\ epoch \in Nat /\ epoch \in Epoch /\ load \in LoadType /\ consumer \in ConsumerType
      /\ load.gen \in Nat /\ pkt \in Delivered /\ mpv.file \in Nat
  BY <1>1, Fields DEF TypesOK, LoadOK, ConsumerOK
<1>5. /\ buffer = <<>> /\ Given = Header /\ load.reloading
      /\ load.eos = epoch => Buffered = EOS
      /\ pkt # None => pkt.item = Header
  BY <1>1, <1>2 DEF StreamInv, BufferInv, ConsumerInv
<1>6. Chunks = <<>>  BY <1>5 DEF Chunks
<1>7. Buffered = Header
  <2>1. Buffered = After(<<>>, Given, epoch)  BY <1>6 DEF Buffered
  <2> QED  BY <1>5, <2>1, EmptyChain
<1>8. load.eos # epoch  BY <1>5, <1>7, Constants
<1>9. keep <=> pkt.epoch = epoch  BY <1>4, Packets
<1>10. Consumed = IF keep THEN Target[epoch] ELSE Header  BY <1>7, <1>8, <1>9 DEF Consumed
<1>11. keep => pkt \in Packet /\ NextItem(pkt) = Target[epoch] /\ pkt.item = Header
  BY <1>4, <1>5, Packets DEF NextItem
<1> HIDE DEF pkt, keep
<1>12. /\ consumer' \in ConsumerType /\ consumer'.pc = "getting" /\ consumer'.held = None
       /\ consumer'.first = (consumer.first /\ ~keep)
  <2>1. None \in Delivered  BY DEF Delivered
  <2>2. (consumer.first /\ ~keep) \in BOOLEAN  BY <1>4 DEF ConsumerType
  <2> QED  BY <1>3, <1>4, <2>1, <2>2 DEF ConsumerType
<1>13. PICK c \in Loopback : buffer' = <<c>> /\ ~c.finished
                             /\ c.chunks = IF keep THEN <<pkt>> ELSE <<>>
  <2> DEFINE e == [chunks |-> <<>>, finished |-> FALSE]
  <2>1. <<>> \in Batches  BY Nothing DEF Batches
  <2>2. e \in Loopback /\ e.chunks = <<>> /\ ~e.finished  BY <2>1 DEF Loopback
  <2>3. fresh = <<e>>  OBVIOUS
  <2> HIDE DEF e
  <2>4. fresh[1] = e  BY <2>3, Single
  <2>5. CASE ~keep
    <3>1. buffer' = <<e>>  BY <1>3, <2>3, <2>5
    <3> QED  BY <2>2, <2>5, <3>1
  <2>6. CASE keep
    <3>1. Fed(fresh, pkt) = <<[e EXCEPT !.chunks = Append(@, pkt)]>>
      BY <2>2, <2>4 DEF Fed
    <3>2. Append(e.chunks, pkt) = <<pkt>> /\ <<pkt>> \in Batches
      <4>1. pkt \in Packet  BY <1>11, <2>6
      <4>2. <<pkt>> \in Seq(Packet)  BY <4>1
      <4>3. Append(<<>>, pkt) = <<pkt>>  BY <4>1
      <4> QED  BY <2>2, <4>2, <4>3 DEF Batches
    <3> DEFINE c == [e EXCEPT !.chunks = <<pkt>>]
    <3>3. c \in Loopback /\ c.chunks = <<pkt>> /\ ~c.finished  BY <2>2, <3>2 DEF Loopback
    <3>4. buffer' = <<c>>  BY <1>3, <2>6, <3>1, <3>2
    <3> QED  BY <2>6, <3>3, <3>4
  <2> QED  BY <2>5, <2>6
<1> HIDE DEF fresh
<1>14. buffer' # <<>> /\ buffer'[1] = c /\ Chunks' = c.chunks
  <2>1. buffer' # <<>> /\ buffer'[1] = c  BY <1>13, Single
  <2> QED  BY <2>1 DEF Chunks
<1>15. Given' = Header  BY <1>2, <1>5 DEF Given
<1>16. /\ load' \in LoadType /\ load'.gen = load.gen + 1 /\ ~load'.reloading /\ load'.eos = -1
       /\ ~load'.restarted /\ ~load'.released /\ load'.attached = ~External
  <2> DEFINE l == Loaded(load)
  <2>1. /\ l \in LoadType /\ l.gen = load.gen + 1 /\ ~l.reloading /\ l.eos = -1
        /\ ~l.restarted /\ ~l.released /\ l.attached = ~External
    BY <1>4, Updates DEF Loaded
  <2>2. load' = l \/ load' = Prebuffered(l)  BY <1>3
  <2> HIDE DEF l
  <2> QED  BY <2>1, <2>2, Updates, Releases, ZenonT(30)
<1>17. /\ Chained(Chunks', Header, epoch) /\ After(Chunks', Header, epoch) = Consumed
       /\ \A i \in 1..Len(Chunks') : Chunks'[i].epoch = epoch /\ Chunks'[i].item # EOS
  <2>1. CASE keep
    <3>1. /\ Chunks' = <<pkt>> /\ Len(<<pkt>>) = 1 /\ <<pkt>>[1] = pkt /\ pkt # None
          /\ pkt.epoch = epoch /\ pkt.item = Header
      BY <1>9, <1>11, <1>13, <1>14, <2>1, Single, Packets
    <3>2. \A i \in 1..Len(<<pkt>>) : i = 1  BY <3>1
    <3>3. Chained(<<pkt>>, Header, epoch)  BY <1>4, <3>1, <3>2 DEF Chained
    <3>4. After(<<pkt>>, Header, epoch) = NextItem(pkt)  BY <3>1, ShortChain
    <3>5. Header # EOS  BY Constants
    <3> QED  BY <1>10, <1>11, <2>1, <3>1, <3>2, <3>3, <3>4, <3>5
  <2>2. CASE ~keep
    <3>1. Chunks' = <<>> /\ Len(<<>>) = 0  BY <1>13, <1>14, <2>2
    <3>2. Chained(<<>>, Header, epoch) /\ After(<<>>, Header, epoch) = Header
      BY EmptyChain, Zenon
    <3> QED  BY <1>10, <2>2, <3>1, <3>2
  <2> QED  BY <2>1, <2>2
<1>18. Consumed' = Consumed
  <2>1. Buffered' = Consumed  BY <1>2, <1>15, <1>17 DEF Buffered
  <2>2. load'.eos # epoch' /\ consumer'.held.epoch # epoch'
    BY <1>2, <1>4, <1>12, <1>16, Packets
  <2> QED  BY <2>1, <2>2 DEF Consumed
<1>19. NetworkOK' /\ ReceiverOK' /\ QueueOK' /\ SignalsOK' /\ PlayedOK'
  BY <1>1, <1>2, SameTypes
<1>20. BufferOK' /\ ConsumerOK' /\ LoadOK'
  BY <1>12, <1>13, <1>16 DEF BufferOK, ConsumerOK, LoadOK
<1>21. MpvOK'
  <2>1. load'.gen \in Nat  BY <1>16 DEF LoadType
  <2> QED  BY <1>2, <2>1 DEF MpvOK, MpvType
<1>22. PlayedInv' /\ ReceiverInv' /\ WayInv'  BY <1>1, <1>2, <1>18, SameStream
<1>23. BufferInv'
  <2>1. Chained(Chunks', Given', epoch')  BY <1>2, <1>15, <1>17
  <2> QED  BY <1>2, <1>4, <1>13, <1>14, <1>16, <1>17, <2>1 DEF BufferInv
<1>24. ConsumerInv'  BY <1>12 DEF ConsumerInv
<1>25. LoadInv'
  <2>1. /\ \A g \in attaching : g <= load.gen /\ g \in Nat
        /\ \A s \in signals : s.gen <= load.gen /\ s.gen \in Nat
    BY <1>1 DEF LoadInv, TypesOK, SignalsOK, SignalType
  <2>2. ~Said("restarted")' /\ ~Said("attached")' /\ load'.gen \notin attaching
    BY <1>2, <1>4, <1>16, <2>1 DEF Said
  <2>3. mpv'.file = load'.gen  BY <1>2
  <2>4. ~(External /\ load'.attached)  BY <1>16
  <2>5. /\ mpv'.file <= load'.gen
        /\ \A g \in attaching' : g <= load'.gen
        /\ \A s \in signals' : s.gen <= load'.gen
    BY <1>2, <1>4, <1>16, <2>1, <2>3
  <2>6. ~(Said("restarted")' \/ load'.restarted \/ load'.gen \in attaching')
    BY <1>2, <1>16, <2>2
  <2>7. ~(Said("attached")' \/ (External /\ load'.attached))  BY <2>2, <2>4
  <2> QED  BY <1>16, <2>3, <2>5, <2>6, <2>7 DEF LoadInv
<1>26. EndInv'
  <2>1. outcome # "finished"  BY <1>1, <1>8 DEF EndInv, AllGiven
  <2>2. \A s \in signals : s.gen <= load.gen /\ s.gen \in Nat
    BY <1>1 DEF LoadInv, TypesOK, SignalsOK, SignalType
  <2>3. ~Said("ended")'  BY <1>2, <1>4, <1>16, <2>2 DEF Said
  <2> QED  BY <1>2, <2>1, <2>3 DEF EndInv
<1>27. LoadsInv'
  <2>1. Loads' = Loads  BY <1>2, <1>4, <1>12, <1>16, <1>18 DEF Loads
  <2>2. epoch = 0 /\ Consumed = Header => consumer'.first
    <3>1. ASSUME epoch = 0, Consumed = Header PROVE ~keep
      BY <1>4, <1>10, <3>1, Constants
    <3> QED  BY <1>1, <1>12, <3>1 DEF LoadsInv
  <2> QED  BY <1>1, <1>2, <1>14, <1>18, <2>1, <2>2 DEF LoadsInv
<1> QED
  BY <1>19, <1>20, <1>21, <1>22, <1>23, <1>24, <1>25, <1>26, <1>27, PartsNext

-----------------------------------------------------------------------------
(* A seek: nothing that is on its way is of the new epoch.                 *)

LEMMA SeekStep ==
  ASSUME PlayerInv, Seek
  PROVE  PlayerInv'
<1> DEFINE new == epoch + 1
<1>1. TypesOK /\ StreamInv /\ LoadInv /\ EndInv /\ LoadsInv  BY DEF PlayerInv
<1>2. /\ epoch < MaxEpoch /\ epoch' = new /\ load' = Retired(load) /\ buffer' = <<>>
      /\ items' = <<>> /\ available' = (available /\ items = <<>>)
      /\ outcome = "playing" /\ outcome' = outcome
      /\ UNCHANGED <<networkVars, receiver, waking, queue_closed, consumer, mpv, attaching, signals,
                     played, failures>>
      /\ UNCHANGED <<server, link>>
  BY DEF Seek, networkVars
<1>3. /\ epoch \in Nat /\ server.epoch <= epoch /\ server.epoch \in Nat
      /\ server \in [epoch : Epoch, next : Header..EOS + 1]
      /\ receiver.batch \in Ways /\ receiver.out \in Ways
      /\ consumer.held \in Delivered /\ load \in LoadType /\ load.gen \in Nat
      /\ mpv.file \in Nat /\ played.epoch \in Nat /\ link \in {"up", "lost"}
  BY <1>1, Fields DEF TypesOK, LoadOK, NetworkOK
<1>4. new \in Epoch /\ new \in Nat /\ epoch < new
  BY <1>2, <1>3, Constants DEF Epoch
<1>5. /\ load' \in LoadType /\ load'.gen = load.gen + 1 /\ load'.reloading /\ ~load'.accept
      /\ ~load'.restarted /\ ~load'.attached /\ ~load'.released /\ load'.eos = -1
  BY <1>2, <1>3, Updates DEF Retired
<1>6. NetworkOK'  BY <1>2, <1>3, <1>4 DEF NetworkOK
<1>7. ReceiverOK' /\ ConsumerOK' /\ MpvOK' /\ SignalsOK'  BY <1>1, <1>2, SameTypes
<1>8. PlayedOK'  BY <1>1, <1>2 DEF TypesOK, PlayedOK
<1>9. QueueOK'
  <2>1. <<>> \in Ways /\ Len(<<>>) = 0 /\ 0 <= BridgeRoom  BY Nothing, Constants DEF Ways
  <2>2. available' \in BOOLEAN /\ waking' \in BOOLEAN /\ queue_closed' \in BOOLEAN
    BY <1>1, <1>2 DEF TypesOK, QueueOK
  <2> QED  BY <1>2, <2>1, <2>2 DEF QueueOK
<1>10. BufferOK' /\ LoadOK'  BY <1>2, <1>5 DEF BufferOK, LoadOK
<1>11. played.epoch <= epoch /\ Beginning(played.epoch, played.data)
  BY <1>1 DEF StreamInv, PlayedInv
<1>12. PlayedInv'  BY <1>2, <1>3, <1>4, <1>11 DEF PlayedInv, Beginning
<1>13. Given' = Header /\ Chunks' = <<>>
  <2>1. played.epoch # new  BY <1>3, <1>4, <1>11
  <2> QED  BY <1>2, <2>1 DEF Given, Chunks
<1>14. Buffered' = Header
  <2>1. Buffered' = After(<<>>, Given', epoch')  BY <1>13 DEF Buffered
  <2> QED  BY <1>13, <2>1, EmptyChain
<1>15. consumer.held # None => consumer.held.epoch <= epoch
  BY <1>1 DEF StreamInv, ConsumerInv
<1>16. Consumed' = Header
  <2>1. consumer.held.epoch # new
    <3>1. CASE consumer.held = None  BY <1>4, <3>1, Packets
    <3>2. CASE consumer.held # None
      <4>1. consumer.held.epoch \in Int  BY <1>3, Packets
      <4> QED  BY <1>3, <1>4, <1>15, <3>2, <4>1
    <3> QED  BY <3>1, <3>2
  <2>2. load'.eos # new  BY <1>4, <1>5
  <2> QED  BY <1>2, <1>14, <2>1, <2>2 DEF Consumed
<1>17. BufferInv'
  <2>1. Chained(Chunks', Given', epoch')  BY <1>13, EmptyChain
  <2>2. Len(<<>>) = 0 /\ -1 <= new /\ -1 # new  BY <1>4
  <2> QED  BY <1>2, <1>5, <1>13, <2>1, <2>2 DEF BufferInv
<1>18. ConsumerInv'
  <2>1. consumer.held # None => /\ consumer.pc = "loading" /\ consumer.held.item = Header
                                /\ consumer.held.epoch <= new
    <3>1. consumer.held # None => consumer.held.epoch \in Int  BY <1>3, Packets
    <3> QED  BY <1>1, <1>3, <1>4, <1>15, <3>1 DEF StreamInv, ConsumerInv
  <2> QED  BY <1>2, <2>1 DEF ConsumerInv
<1>19. ReceiverInv'
  <2>1. Len(<<>>) = 0  OBVIOUS
  <2> QED  BY <1>1, <1>2, <2>1 DEF StreamInv, ReceiverInv
<1>20. WayInv'
  <2>1. Chained(items', Consumed', epoch') /\ Queued' = Header
    <3>1. Queued' = After(<<>>, Consumed', epoch')  BY <1>2 DEF Queued
    <3> QED  BY <1>2, <1>16, <3>1, EmptyChain
  <2>2. server'.next <= EOS => link' = "up" /\ ~queue_closed'
    BY <1>1, <1>2 DEF StreamInv, WayInv
  <2>3. server'.epoch < epoch'  BY <1>2, <1>3, <1>4
  <2>4. ASSUME ~queue_closed
        PROVE  /\ Chained(receiver'.out, Queued', epoch')
               /\ Chained(receiver'.batch, Published', epoch') /\ Received' = Header
    <3>1. /\ Chained(receiver.out, Queued, epoch)
          /\ \A i \in 1..Len(receiver.batch) : receiver.batch[i] # None
          /\ Chained(receiver.batch, Published, epoch)
      BY <1>1, <2>4 DEF StreamInv, WayInv, ReceiverInv
    <3>2. ASSUME NEW q \in Ways, \A i \in 1..Len(q) : q[i].epoch <= epoch
          PROVE  \A i \in 1..Len(q) : q[i].epoch < new
      <4> SUFFICES ASSUME NEW i \in 1..Len(q) PROVE q[i].epoch < new  OBVIOUS
      <4>1. q[i].epoch \in Int /\ q[i].epoch <= epoch
        <5>1. q[i] \in Delivered  BY Members DEF Ways
        <5> QED  BY <3>2, <5>1, Packets
      <4> QED  BY <1>3, <4>1
    <3>3. /\ \A i \in 1..Len(receiver.out) :
               receiver.out[i].epoch < new /\ (receiver.out[i] = None => i = Len(receiver.out))
          /\ \A i \in 1..Len(receiver.batch) :
               receiver.batch[i].epoch < new /\ (receiver.batch[i] = None => i = Len(receiver.batch))
      <4>1. /\ \A i \in 1..Len(receiver.out) :
                 receiver.out[i].epoch <= epoch /\ (receiver.out[i] = None => i = Len(receiver.out))
            /\ \A i \in 1..Len(receiver.batch) : receiver.batch[i].epoch <= epoch
        BY <3>1 DEF Chained
      <4>2. \A i \in 1..Len(receiver.out) : receiver.out[i].epoch < new
        BY <1>3, <3>2, <4>1
      <4>3. \A i \in 1..Len(receiver.batch) : receiver.batch[i].epoch < new
        BY <1>3, <3>2, <4>1
      <4> QED  BY <3>1, <4>1, <4>2, <4>3
    <3> HIDE DEF new
    <3>4. Chained(receiver.out, Header, new) /\ After(receiver.out, Header, new) = Header
      BY <1>3, <1>4, <3>3, NoneOfIt DEF Ways
    <3>5. Published' = Header  BY <1>2, <2>1, <3>4 DEF Published
    <3>6. Chained(receiver.batch, Header, new) /\ After(receiver.batch, Header, new) = Header
      BY <1>3, <1>4, <3>3, NoneOfIt DEF Ways
    <3>7. Received' = Header  BY <1>2, <3>5, <3>6 DEF Received
    <3> QED  BY <1>2, <2>1, <3>4, <3>5, <3>6, <3>7
  <2> QED  BY <1>2, <2>1, <2>2, <2>3, <2>4 DEF WayInv
<1>21. LoadInv'
  <2>1. /\ \A g \in attaching : g <= load.gen /\ g \in Nat
        /\ \A s \in signals : s.gen <= load.gen /\ s.gen \in Nat
        /\ mpv.file <= load.gen
    BY <1>1 DEF LoadInv, TypesOK, SignalsOK, SignalType
  <2>2. ~Said("restarted")' /\ ~Said("attached")' /\ load'.gen \notin attaching'
    BY <1>2, <1>3, <1>5, <2>1 DEF Said
  <2>3. /\ mpv'.file <= load'.gen
        /\ \A g \in attaching' : g <= load'.gen
        /\ \A s \in signals' : s.gen <= load'.gen
    BY <1>2, <1>3, <1>5, <2>1
  <2> QED  BY <1>5, <2>2, <2>3 DEF LoadInv
<1>22. EndInv'  BY <1>2, <1>5 DEF EndInv
<1>23. LoadsInv'
  <2>1. Loads <= 3 * epoch + 1  BY <1>1 DEF LoadsInv
  <2>2. load.gen + (IF consumer.pc = "loading" THEN 1 ELSE 0) <= Loads
    BY <1>3 DEF Loads
  <2>3. Loads' = load.gen + 1 + (IF consumer.pc = "loading" THEN 1 ELSE 0) + 2
    BY <1>2, <1>3, <1>4, <1>5, <1>16 DEF Loads
  <2>4. Loads \in Nat /\ Loads' \in Nat  BY <1>3, <2>3 DEF Loads
  <2>5. Loads' <= 3 * new + 1  BY <1>3, <2>1, <2>2, <2>3, <2>4
  <2> QED  BY <1>2, <1>3, <1>4, <2>5 DEF LoadsInv
<1> QED
  BY <1>6, <1>7, <1>8, <1>9, <1>10, <1>12, <1>17, <1>18, <1>19, <1>20, <1>21, <1>22, <1>23,
     PartsNext

-----------------------------------------------------------------------------
(* The theorems                                                            *)

(* The inductive invariant: the four places between the connection and mpv *)
(* go on where the next one stops (client.py, _downlink_receiver_work,     *)
(* _consume; mpv_view.py, _LoopbackStream).                                *)
THEOREM PlayerInvariant == Spec => []PlayerInv
<1>1. Init => PlayerInv  BY Beginnings
<1>2. PlayerInv /\ [Next]_vars => PlayerInv'
  <2> SUFFICES ASSUME PlayerInv, [Next]_vars PROVE PlayerInv'  OBVIOUS
  <2>1. CASE ServerSeek \/ LinkLost \/ CloseQueue  BY <2>1, ServerSteps
  <2>2. CASE Receive  BY <2>2, ReceiveStep
  <2>3. CASE ReceiveEnd  BY <2>3, ReceiveEndStep
  <2>4. CASE Publish  BY <2>4, PublishStep
  <2>5. CASE Wake \/ ConsumeWait \/ ConsumeWoken  BY <2>5, QueueSteps
  <2>6. CASE ConsumeEnd  BY <2>6, ConsumeEndStep
  <2>7. CASE ConsumePacket  BY <2>7, ConsumePacketStep
  <2>8. CASE ConsumeDiscontinuity  BY <2>8, ConsumeDiscontinuityStep
  <2>9. CASE LoadStream  BY <2>9, LoadStreamStep
  <2>10. CASE SendChunk  BY <2>10, SendChunkStep
  <2>11. CASE MpvRestarts \/ MpvEnds \/ \E g \in Generation : Attach(g)  BY <2>11, MpvSteps
  <2>12. ASSUME NEW g \in Generation, OnRestarted(g) \/ OnAttached(g) \/ OnTerminal(g)
         PROVE  PlayerInv'
    BY <2>12, SignalSteps
  <2>13. CASE Seek  BY <2>13, SeekStep
  <2>14. CASE UNCHANGED vars
    <3>1. /\ UNCHANGED <<epoch, networkVars, receiver, queueVars, buffer, played, consumer,
                         playerVars, failures>>
          /\ UNCHANGED <<items, queue_closed>>
      BY <2>14 DEF vars, queueVars
    <3>2. TypesOK /\ StreamInv /\ LoadInv /\ EndInv /\ LoadsInv  BY DEF PlayerInv
    <3>3. /\ ConsumerOK' /\ BufferOK' /\ LoadOK' /\ MpvOK' /\ SignalsOK' /\ PlayedOK'
          /\ PlayedInv' /\ BufferInv' /\ ConsumerInv' /\ LoadInv' /\ EndInv' /\ LoadsInv'
          /\ Consumed' = Consumed
      BY <3>1, Behind
    <3>4. NetworkOK' /\ ReceiverOK' /\ QueueOK'  BY <3>1, <3>2, SameTypes
    <3>5. ReceiverInv' /\ WayInv'  BY <3>1, <3>2, <3>3, SameStream DEF networkVars
    <3> QED  BY <3>3, <3>4, <3>5, PartsNext
  <2> QED
    BY <2>1, <2>2, <2>3, <2>4, <2>5, <2>6, <2>7, <2>8, <2>9, <2>10, <2>11, <2>12, <2>13, <2>14
       DEF Next, Proceed, ReceiverStep, ConsumerStep, PlayerStep
<1> QED  BY <1>1, <1>2, PTL DEF Spec

(* Every variable has its type; in particular the generations of mpv's     *)
(* loads are bounded: at most three to an epoch (mpv_view.py).             *)
THEOREM TypeCorrect == Spec => []TypeOK
<1>1. PlayerInv => TypeOK  BY TypeParts DEF PlayerInv
<1> QED  BY <1>1, PlayerInvariant, PTL

(* Playback is released only for a load of which mpv has shown the first   *)
(* frame and into which the original file was attached                     *)
(* (mpv_view.py, _maybe_release_epoch).                                    *)
THEOREM ReleasedOwn == Spec => []ReleasedByItsOwn
<1>1. PlayerInv => ReleasedByItsOwn
  <2> SUFFICES ASSUME PlayerInv, load.released
               PROVE  /\ mpv.file = load.gen /\ mpv.restarted /\ (External => mpv.attached)
    BY DEF ReleasedByItsOwn
  <2>1. LoadInv  BY DEF PlayerInv
  <2>2. load.restarted /\ load.attached  BY <2>1 DEF LoadInv
  <2>3. Shown  BY <2>1, <2>2 DEF LoadInv
  <2>4. External => mpv.attached  BY <2>1, <2>2 DEF LoadInv
  <2> QED  BY <2>3, <2>4 DEF Shown
<1> QED  BY <1>1, PlayerInvariant, PTL

-----------------------------------------------------------------------------
(* What the abstract specification says of a stream                        *)

LEMMA Between ==
  ASSUME NEW T \in Nat, NEW k \in Nat, NEW m \in Nat, k <= m, NEW p \in Nat, p >= T,
         p < T + k - 2
  PROVE  \E j \in 2..m : T + j - 2 = p /\ j \in 1..k - 1
<1>1. p - T + 2 \in 2..m /\ T + (p - T + 2) - 2 = p /\ p - T + 2 \in 1..k - 1  OBVIOUS
<1> QED  BY <1>1

LEMMA StreamBegins ==
  ASSUME NEW e \in Epoch, NEW m \in Nat, NEW D, DOMAIN D = 1..m, m >= 1,
         D[1] = Header, \A k \in 2..m : D[k] = Target[e] + k - 2 /\ D[k] <= Length
  PROVE  Promise!BeginsStream(e, D)
<1> USE DEF Promise!Position, Promise!From
<1>1. PICK T \in Nat : T = Target[e] /\ T >= 1  BY Constants
<1>2. Length \in Nat /\ Header = 0  BY Constants
<1>3. \A k \in 1..m : IF k = 1 THEN D[k] = 0 ELSE D[k] \in 1..Length
  <2> SUFFICES ASSUME NEW k \in 1..m, k # 1 PROVE D[k] \in 1..Length  BY <1>2
  <2>1. k \in 2..m  OBVIOUS
  <2>2. D[k] = T + k - 2 /\ D[k] <= Length  BY <1>1, <2>1
  <2> QED  BY <1>1, <1>2, <2>1, <2>2
<1>4. Promise!InOrder(e, {}, D)  BY DEF Promise!InOrder
<1>5. Promise!InOrder(e, Promise!Video, D)
  <2> SUFFICES ASSUME NEW k \in 1..m, D[k] \in 1..Length
               PROVE  /\ D[k] >= Target[e]
                      /\ {D[j] : j \in 1..k - 1} \cap (1..Length)
                           = {p \in 1..Length : p >= Target[e] /\ p < D[k]}
    BY DEF Promise!InOrder, Promise!Video
  <2>1. k \in 2..m /\ D[k] = T + k - 2
    <3>1. k # 1  BY <1>2
    <3>2. k \in 2..m  BY <3>1
    <3> QED  BY <1>1, <3>2
  <2>2. ASSUME NEW j \in 1..k - 1, D[j] \in 1..Length
        PROVE  D[j] >= T /\ D[j] < D[k]
    <3>1. j # 1  BY <1>2, <2>2
    <3>2. j \in 2..m  BY <2>1, <3>1
    <3>3. D[j] = T + j - 2  BY <1>1, <3>2
    <3> QED  BY <1>1, <2>1, <3>2, <3>3
  <2>3. ASSUME NEW p \in 1..Length, p >= T, p < D[k]
        PROVE  \E j \in 1..k - 1 : D[j] = p
    <3>0. k \in Nat /\ k <= m /\ p \in Nat /\ p < T + k - 2  BY <1>2, <2>1, <2>3
    <3>1. PICK j \in 2..m : T + j - 2 = p /\ j \in 1..k - 1
      <4>1. p >= T  BY <2>3
      <4> HIDE DEF Promise!Position, Promise!From
      <4> QED  BY <3>0, <4>1, Between
    <3>2. D[j] = T + j - 2  BY <1>1
    <3> QED  BY <3>1, <3>2
  <2>4. D[k] >= T  BY <1>1, <2>1
  <2> QED  BY <1>1, <2>2, <2>3, <2>4
<1> QED  BY <1>2, <1>3, <1>4, <1>5 DEF Promise!BeginsStream, Promise!Header

LEMMA FrontOf ==
  ASSUME NEW m \in Nat, m > 0, NEW D, Len(D) = m
  PROVE  DOMAIN Promise!Front(D) = 1..m - 1 /\ \A k \in 1..m - 1 : Promise!Front(D)[k] = D[k]
BY DEF Promise!Front

(* What mpv was given is the beginning of the stream of its epoch; with    *)
(* the trailer it is all of it, and that can be its last item only.        *)
LEMMA WholeStream ==
  ASSUME NEW e \in Epoch, NEW m \in Nat, m > 0, NEW D, DOMAIN D = 1..m, Len(D) = m,
         Beginning(e, D)
  PROVE  /\ Promise!Last(D) = D[m]
         /\ D[m] = Trailer => Promise!Complete(e, D)
         /\ D[m] # Trailer => Promise!BeginsStream(e, D) /\ \A i \in 1..m : D[i] # Trailer
         /\ \A i \in 1..m - 1 : D[i] # Trailer
<1>1. PICK T \in Nat : T = Target[e] /\ T >= 1 /\ T <= Trailer  BY Constants
<1>2. Length \in Nat /\ Header = 0 /\ Trailer = Length + 1  BY Constants
<1>3. /\ \A i \in 1..m : D[i] = IF i = 1 THEN 0 ELSE T + i - 2
      /\ T + m - 2 <= Length + 1
  BY <1>1, <1>2 DEF Beginning
<1>4. D[1] = 0 /\ 1 \in 1..m /\ m \in 1..m
  <2>1. 1 \in 1..m /\ m \in 1..m  OBVIOUS
  <2> QED  BY <1>3, <2>1
<1>5. \A k \in 2..m : D[k] = T + k - 2
  <2> SUFFICES ASSUME NEW k \in 2..m PROVE D[k] = T + k - 2  OBVIOUS
  <2>1. k \in 1..m /\ k # 1  OBVIOUS
  <2> QED  BY <1>3, <2>1
<1>6. Promise!Last(D) = D[m]  BY DEF Promise!Last
<1>7. \A i \in 1..m - 1 : D[i] # Trailer
  <2> SUFFICES ASSUME NEW i \in 1..m - 1 PROVE D[i] # Length + 1  BY <1>2
  <2>1. CASE i = 1  BY <1>2, <1>4, <2>1
  <2>2. CASE i # 1
    <3>1. i \in 2..m  BY <2>2
    <3>2. D[i] = T + i - 2  BY <1>5, <3>1
    <3> QED  BY <1>2, <1>3, <3>2
  <2> QED  BY <2>1, <2>2
<1>8. ASSUME D[m] # Trailer
      PROVE  Promise!BeginsStream(e, D) /\ \A i \in 1..m : D[i] # Trailer
  <2>1. \A k \in 2..m : D[k] = Target[e] + k - 2 /\ D[k] <= Length
    <3> SUFFICES ASSUME NEW k \in 2..m PROVE T + k - 2 <= Length  BY <1>1, <1>5
    <3>1. m \in 2..m  OBVIOUS
    <3>2. D[m] = T + m - 2  BY <1>5, <3>1
    <3>3. T + m - 2 # Length + 1  BY <1>2, <1>8, <3>2
    <3>4. T + m - 2 <= Length  BY <1>1, <1>2, <1>3, <3>3
    <3>5. k <= m /\ k \in Nat  OBVIOUS
    <3> QED  BY <1>1, <1>2, <3>4, <3>5
  <2>2. \A i \in 1..m : D[i] # Trailer
    <3> SUFFICES ASSUME NEW i \in 1..m PROVE D[i] # Trailer  OBVIOUS
    <3>1. i = m \/ i \in 1..m - 1  OBVIOUS
    <3> QED  BY <1>7, <1>8, <3>1
  <2>3. D[1] = Header /\ m >= 1  BY <1>2, <1>4
  <2> QED  BY <2>1, <2>2, <2>3, StreamBegins
<1>9. ASSUME D[m] = Trailer
      PROVE  Promise!Complete(e, D)
  <2>1. m \in 2..m /\ T + m - 2 = Length + 1
    <3>1. m # 1  BY <1>2, <1>4, <1>9
    <3>2. m \in 2..m  BY <3>1
    <3>3. D[m] = T + m - 2  BY <1>5, <3>2
    <3> QED  BY <1>2, <1>9, <3>2, <3>3
  <2>2. PICK n \in Nat : n = m - 1 /\ n >= 1  BY <2>1
  <2> DEFINE F == Promise!Front(D)
  <2>3. DOMAIN F = 1..n /\ \A k \in 1..n : F[k] = D[k]  BY <2>2, FrontOf
  <2> HIDE DEF F
  <2>4. \A k \in 2..n : F[k] = Target[e] + k - 2 /\ F[k] <= Length
    <3> SUFFICES ASSUME NEW k \in 2..n PROVE F[k] = T + k - 2 /\ F[k] <= Length  BY <1>1
    <3>1. k \in 1..n /\ k \in 2..m  BY <2>2
    <3>2. F[k] = T + k - 2  BY <1>5, <2>3, <3>1
    <3> QED  BY <1>1, <1>2, <2>1, <2>2, <3>2
  <2>5. Promise!BeginsStream(e, F)
    <3>1. F[1] = Header  BY <1>2, <1>4, <2>2, <2>3
    <3> QED  BY <2>2, <2>3, <2>4, <3>1, StreamBegins
  <2>6. Promise!From(e) \subseteq {D[i] : i \in DOMAIN D}
    <3> SUFFICES ASSUME NEW p \in 1..Length, p >= T PROVE \E i \in DOMAIN D : D[i] = p
      BY <1>1 DEF Promise!From, Promise!Position
    <3>1. PICK k \in 2..m : T + k - 2 = p
      <4>1. p - T + 2 \in 2..m /\ T + (p - T + 2) - 2 = p  BY <1>1, <1>2, <2>1
      <4> QED  BY <4>1
    <3>2. D[k] = T + k - 2 /\ k \in DOMAIN D  BY <1>5
    <3> QED  BY <3>1, <3>2
  <2>7. Promise!Last(D) = Promise!Trailer
    BY <1>2, <1>6, <1>9 DEF Promise!Trailer
  <2> QED  BY <2>5, <2>6, <2>7 DEF Promise!Complete, F
<1> QED  BY <1>6, <1>7, <1>8, <1>9

(* "Finished" is said of the whole stream of the newest epoch              *)
(* (mpv_view.py, _on_playback_terminal).                                   *)
THEOREM FinishedWhole == Spec => []FinishedMeansPlayed
<1>1. PlayerInv => FinishedMeansPlayed
  <2> SUFFICES ASSUME PlayerInv, outcome = "finished"
               PROVE  played.epoch = epoch /\ Promise!Complete(epoch, played.data)
    BY DEF FinishedMeansPlayed
  <2>1. TypesOK /\ StreamInv /\ EndInv  BY DEF PlayerInv
  <2>2. load.eos = epoch /\ Chunks = <<>>  BY <2>1 DEF EndInv, AllGiven
  <2>3. Buffered = EOS  BY <2>1, <2>2 DEF StreamInv, BufferInv
  <2>4. Buffered = After(<<>>, Given, epoch)  BY <2>2 DEF Buffered
  <2>5. Given = EOS  BY <2>3, <2>4, EmptyChain
  <2>6. played.epoch = epoch /\ Len(played.data) > 0 /\ Target[epoch] + Len(played.data) - 1 = EOS
    BY <2>1, <2>5, GivenSoFar, Constants DEF StreamInv
  <2>7. /\ epoch \in Epoch /\ Len(played.data) \in Nat /\ DOMAIN played.data = 1..Len(played.data)
    <3>1. epoch \in Epoch /\ played.data \in Seq(Header..Trailer)  BY <2>1, Fields
    <3> QED  BY <3>1, Members
  <2>8. PICK m \in Nat, t \in Nat : m = Len(played.data) /\ t = Target[epoch] /\ t <= Trailer
    BY <2>7, Constants
  <2>9. Beginning(epoch, played.data)  BY <2>1, <2>6 DEF StreamInv, PlayedInv
  <2>10. played.data[m] = Trailer
    <3>1. PICK l \in Nat : l = Length /\ t + m - 1 = l + 2 /\ m > 0 /\ t <= l + 1
      BY <2>6, <2>8, Constants
    <3>2. m # 1 /\ m \in 1..m  BY <3>1
    <3>3. played.data[m] = t + m - 2  BY <2>8, <2>9, <3>2 DEF Beginning
    <3> QED  BY <3>1, <3>3, Constants
  <2>11. m > 0  BY <2>6, <2>8
  <2> QED  BY <2>6, <2>7, <2>8, <2>9, <2>10, <2>11, WholeStream
<1> QED  BY <1>1, PlayerInvariant, PTL

-----------------------------------------------------------------------------
(* The refinement                                                          *)

(* A seek asks for the next epoch, the loopback's sender delivers, and     *)
(* everything else is a stutter.                                           *)
LEMMA Steps ==
  ASSUME [Next]_vars
  PROVE  \/ Seek \/ SendChunk
         \/ UNCHANGED <<epoch, played>>
<1>1. CASE \/ ServerSeek \/ LinkLost \/ CloseQueue \/ Receive \/ ReceiveEnd \/ Publish \/ Wake
  BY <1>1 DEF ServerSeek, LinkLost, CloseQueue, Receive, ReceiveUpTo, ReceiveEnd, Publish,
              PublishInto, Wake
<1>2. CASE ConsumerStep
  BY <1>2 DEF ConsumerStep, ConsumeEnd, ConsumeWait, ConsumeWoken, ConsumePacket, ConsumeFresh, Take,
              ConsumeDiscontinuity, LoadStream
<1>3. CASE MpvRestarts \/ MpvEnds
  BY <1>3 DEF MpvRestarts, MpvEnds
<1>4. ASSUME NEW g \in Generation, Attach(g) \/ OnRestarted(g) \/ OnAttached(g) \/ OnTerminal(g)
      PROVE  UNCHANGED <<epoch, played>>
  BY <1>4 DEF Attach, OnRestarted, OnAttached, OnTerminal, Terminal, Handle
<1>5. CASE UNCHANGED vars
  BY <1>5 DEF vars
<1> QED
  BY <1>1, <1>2, <1>3, <1>4, <1>5 DEF Next, Proceed, ReceiverStep, PlayerStep

LEMMA PromisedInit == Init => Promise!Init
<1> SUFFICES ASSUME Init PROVE Promise!Init  OBVIOUS
<1>1. epoch = 0 /\ played.epoch = 0 /\ played.data = <<>>  BY DEF Init
<1>2. (Trailer \in {played.data[i] : i \in DOMAIN played.data}) = FALSE
  <2>1. DOMAIN played.data = {}  BY <1>1
  <2> QED  BY <2>1
<1> QED  BY <1>1, <1>2 DEF Promise!Init

(* A chunk goes on with the stream mpv was given, or begins a newer one.   *)
LEMMA StreamGrows ==
  ASSUME PlayerInv, SendChunk
  PROVE  /\ epoch' = epoch /\ played'.epoch = epoch
         /\ played.epoch # epoch => Len(played'.data) = 1
         /\ played.epoch = epoch => /\ Len(played'.data) = Len(played.data) + 1
                                    /\ \A i \in 1..Len(played.data) : played'.data[i] = played.data[i]
<1>1. TypesOK /\ StreamInv  BY DEF PlayerInv
<1>2. /\ epoch' = epoch /\ Chunks # <<>>
      /\ played' = [epoch |-> Head(Chunks).epoch,
                    data |-> Append(IF Head(Chunks).epoch = played.epoch THEN played.data ELSE <<>>,
                                    Head(Chunks).item)]
  BY DEF SendChunk, Chunks
<1>3. Chunks \in Batches /\ played.data \in Seq(Header..Trailer)  BY <1>1, Fields
<1>4. /\ Head(Chunks) = Chunks[1] /\ Len(Chunks) > 0 /\ Len(Chunks) \in Nat
      /\ Chunks[1] \in Packet
  <2>1. Head(Chunks) = Chunks[1] /\ Len(Chunks) > 0 /\ Head(Chunks) \in Packet
    BY <1>2, <1>3, Shrunk DEF Batches
  <2>2. Len(Chunks) \in Nat  BY <1>3, Members DEF Batches
  <2> QED  BY <2>1, <2>2
<1>5. Head(Chunks).epoch = epoch /\ Chunks[1].item # EOS
  <2>1. 1 \in 1..Len(Chunks)  BY <1>4
  <2> QED  BY <1>1, <1>4, <2>1 DEF StreamInv, BufferInv
<1>6. PICK x \in Header..Trailer : x = Head(Chunks).item
  <2>1. PICK i : i = Chunks[1].item /\ i \in 0..EOS  BY <1>4, Packets
  <2>2. i \in Header..Trailer  BY <1>5, <2>1, Constants
  <2> QED  BY <1>4, <2>1, <2>2
<1>7. CASE played.epoch = epoch
  <2>1. played' = [epoch |-> epoch, data |-> Append(played.data, x)]  BY <1>2, <1>5, <1>6, <1>7
  <2>2. /\ Len(Append(played.data, x)) = Len(played.data) + 1
        /\ \A i \in 1..Len(played.data) : Append(played.data, x)[i] = played.data[i]
    BY <1>3, Grown
  <2>3. played'.epoch = epoch /\ played'.data = Append(played.data, x)  BY <2>1
  <2> QED  BY <1>2, <1>7, <2>2, <2>3
<1>8. CASE played.epoch # epoch
  <2>1. played' = [epoch |-> epoch, data |-> Append(<<>>, x)]  BY <1>2, <1>5, <1>6, <1>8
  <2>2. Len(Append(<<>>, x)) = 1
    <3>1. <<>> \in Seq(Header..Trailer) /\ Len(<<>>) = 0  BY Nothing
    <3> QED  BY <3>1, Grown
  <2>3. played'.epoch = epoch /\ played'.data = Append(<<>>, x)  BY <2>1
  <2> QED  BY <1>2, <1>8, <2>2, <2>3
<1> QED  BY <1>7, <1>8

LEMMA PromisedStep ==
  ASSUME PlayerInv, PlayerInv', [Next]_vars
  PROVE  [Promise!Next]_<<epoch,
                          [epoch |-> played.epoch, data |-> played.data,
                           eos |-> Trailer \in {played.data[i] : i \in DOMAIN played.data}]>>
<1> DEFINE d == played.data
           eos == Trailer \in {d[i] : i \in DOMAIN d}
<1>1. CASE UNCHANGED <<epoch, played>>  BY <1>1
<1>2. CASE Seek
  <2>1. epoch < MaxEpoch /\ epoch' = epoch + 1 /\ played' = played  BY <1>2 DEF Seek
  <2> QED  BY <2>1 DEF Promise!Next, Promise!Ask
<1>3. CASE SendChunk
  <2>1. /\ epoch' = epoch /\ played'.epoch = epoch
        /\ played.epoch # epoch => Len(d') = 1
        /\ played.epoch = epoch => /\ Len(d') = Len(d) + 1
                                   /\ \A i \in 1..Len(d) : d'[i] = d[i]
    BY <1>3, StreamGrows
  <2>2. /\ epoch \in Epoch /\ epoch \in Nat /\ played.epoch \in Nat /\ played.epoch <= epoch
        /\ Len(d) \in Nat /\ DOMAIN d = 1..Len(d)
        /\ Len(d') \in Nat /\ DOMAIN d' = 1..Len(d') /\ (d' = <<>> <=> Len(d') = 0)
        /\ Beginning(played'.epoch, d')
    <3>1. TypesOK /\ StreamInv /\ played' \in PlayedType /\ PlayedInv'
      BY DEF PlayerInv, TypesOK, PlayedOK, StreamInv
    <3>2. d \in Seq(Header..Trailer) /\ d' \in Seq(Header..Trailer)
      BY <3>1, Fields DEF PlayedType
    <3>3. epoch \in Epoch /\ epoch \in Nat /\ played.epoch \in Nat  BY <3>1, Fields
    <3>4. played.epoch <= epoch  BY <3>1 DEF StreamInv, PlayedInv
    <3>5. Beginning(played'.epoch, d')  BY <3>1 DEF PlayedInv, Beginning
    <3>6. Len(d) \in Nat /\ DOMAIN d = 1..Len(d)  BY <3>2, Members, Zenon
    <3>7. Len(d') \in Nat /\ DOMAIN d' = 1..Len(d') /\ (d' = <<>> <=> Len(d') = 0)
      BY <3>2, Members, Zenon
    <3> QED  BY <3>3, <3>4, <3>5, <3>6, <3>7
  <2>3. PICK n \in Nat, m \in Nat : n = Len(d) /\ m = Len(d')  BY <2>2
  <2>4. m > 0 /\ (played.epoch = epoch => m = n + 1)  BY <2>1, <2>3
  <2>5. /\ Promise!Last(d') = d'[m]
        /\ d'[m] = Trailer => Promise!Complete(epoch, d')
        /\ d'[m] # Trailer => Promise!BeginsStream(epoch, d') /\ \A i \in 1..m : d'[i] # Trailer
        /\ \A i \in 1..m - 1 : d'[i] # Trailer
    <3>1. Beginning(epoch, d')  BY <2>1, <2>2
    <3> QED  BY <2>2, <2>3, <2>4, <3>1, WholeStream
  <2>6. eos' = (d'[m] = Trailer)
    <3>1. m \in 1..m  BY <2>4
    <3>2. d'[m] = Trailer => eos'  BY <2>2, <2>3, <3>1
    <3>3. d'[m] # Trailer => ~eos'  BY <2>2, <2>3, <2>5
    <3> QED  BY <3>2, <3>3
  <2>7. ASSUME played.epoch = epoch
        PROVE  ~eos /\ Promise!IsPrefix(d, d')
    <3>1. m - 1 = n  BY <2>4, <2>7
    <3>2. \A i \in 1..n : d[i] # Trailer  BY <2>1, <2>3, <2>5, <2>7, <3>1
    <3>3. ~eos  BY <2>2, <2>3, <3>2
    <3>4. Len(d) <= Len(d') /\ \A i \in 1..Len(d) : d[i] = d'[i]  BY <2>1, <2>2, <2>7
    <3> QED  BY <3>3, <3>4 DEF Promise!IsPrefix
  <2>8. Trailer = Promise!Trailer  BY DEF Trailer, Promise!Trailer
  <2>9. d' # <<>> /\ epoch \in played.epoch .. epoch  BY <2>2, <2>3, <2>4
  <2> HIDE DEF d, eos
  <2> DEFINE stream == [epoch |-> played.epoch, data |-> d, eos |-> eos]
  <2>10. /\ stream.epoch = played.epoch /\ stream.data = d /\ stream.eos = eos
         /\ stream'.epoch = played'.epoch /\ stream'.data = d' /\ stream'.eos = eos'
    OBVIOUS
  <2> HIDE DEF stream
  <2>11. /\ stream'.epoch \in stream.epoch .. epoch
         /\ stream'.epoch = stream.epoch => /\ ~stream.eos
                                            /\ Promise!IsPrefix(stream.data, stream'.data)
         /\ stream'.data # <<>>
         /\ IF Promise!Last(stream'.data) = Promise!Trailer
              THEN Promise!Complete(stream'.epoch, stream'.data)
              ELSE Promise!BeginsStream(stream'.epoch, stream'.data) /\ ~stream'.eos
    <3>1. played'.epoch = played.epoch => ~eos /\ Promise!IsPrefix(d, d')  BY <2>1, <2>7
    <3>2. IF Promise!Last(d') = Promise!Trailer THEN Promise!Complete(epoch, d')
          ELSE Promise!BeginsStream(epoch, d') /\ ~eos'
      BY <2>5, <2>6, <2>8
    <3> QED  BY <2>1, <2>9, <2>10, <3>1, <3>2, Zenon
  <2> QED  BY <2>1, <2>11, Zenon DEF Promise!Next, Promise!Deliver, stream, d, eos
<1> QED  BY <1>1, <1>2, <1>3, Steps

(* mpv is given what EpochStream promises: the player implements the       *)
(* abstract specification step by step, under the mapping of Promise,      *)
(* through partial batches, drained queues and seeks that come while a     *)
(* load is under way (_downlink_receiver_work, _consume, _load_stream).    *)
THEOREM PlayerRefines == Spec => MpvStreams
<1>1. Init => Promise!Init  BY PromisedInit
<1>2. PlayerInv /\ PlayerInv' /\ [Next]_vars =>
        [Promise!Next]_<<epoch,
                         [epoch |-> played.epoch, data |-> played.data,
                          eos |-> Trailer \in {played.data[i] : i \in DOMAIN played.data}]>>
  BY PromisedStep
<1> QED  BY <1>1, <1>2, PlayerInvariant, PTL DEF Spec, MpvStreams, Promise!Spec

=============================================================================
