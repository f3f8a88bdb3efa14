--------------------------- MODULE DownloadProofs ---------------------------
(***************************************************************************)
(* Proofs about Download, for any images, memory and number of retries.    *)
(***************************************************************************)
EXTENDS Download, TLAPS

(* A block before the n-th one has the n-th among those that follow it.     *)
LEMMA Earlier ==
    ASSUME NEW l \in Nat, NEW n \in 1..l, NEW k \in 1..n, k # n
    PROVE  k \in 1..(n - 1) /\ n \in (k + 1)..l /\ n <= n + 1 /\ n <= (n - 1) + 1
  OBVIOUS

USE DownloadAssumption

(* Which message is the next (ezusb_write_image).                          *)
LEMMA MessageType ==
    ASSUME DownloadTypeOK, sending, sent < Messages
    PROVE  \/ sent = 0 /\ Message(sent + 1) = ezusb_cpucs(FALSE)
           \/ sent \in 1..Len(image) /\ Message(sent + 1) = ezusb_poke(sent)
           \/ sent = Len(image) + 1 /\ Message(sent + 1) = ezusb_cpucs(TRUE)
  <1>1. Len(image) \in Nat /\ sent \in Nat
    BY DEF DownloadTypeOK, Messages
  <1>2. (sent + 1) - 1 = sent
    BY <1>1
  <1>3. CASE sent = 0
    BY <1>1, <1>3 DEF Message
  <1>4. CASE sent \in 1..Len(image)
    <2>1. sent + 1 # 1 /\ sent + 1 # Len(image) + 2
      BY <1>1, <1>4
    <2>2. QED
      BY <1>2, <1>4, <2>1, Zenon DEF Message
  <1>5. CASE sent = Len(image) + 1
    <2>1. sent + 1 # 1 /\ sent + 1 = Len(image) + 2
      BY <1>1, <1>5
    <2>2. QED
      BY <1>5, <2>1, Zenon DEF Message
  <1>6. sent = 0 \/ sent \in 1..Len(image) \/ sent = Len(image) + 1
    BY <1>1 DEF Messages
  <1>7. QED
    BY <1>3, <1>4, <1>5, <1>6, Zenon

(* What each message does if it arrives.                                   *)
LEMMA Effect ==
    ASSUME DownloadTypeOK, sending, sent < Messages, Arrives(Message(sent + 1))
    PROVE  \/ sent = 0 /\ running' = FALSE /\ ram' = ram /\ loaded' = loaded
           \/ sent \in 1..Len(image) /\ ram' = Poked(image[sent]) /\ loaded' = image /\ running' = running
           \/ sent = Len(image) + 1 /\ running' = TRUE /\ ram' = ram /\ loaded' = loaded
  BY MessageType DEF Arrives, ezusb_cpucs, ezusb_poke

(* The controller's memory keeps its type whatever message arrives.        *)
LEMMA BoardType ==
    ASSUME DownloadTypeOK, sending, sent < Messages, Arrives(Message(sent + 1))
    PROVE  /\ running' \in BOOLEAN
           /\ loaded' \in Images \cup {<<>>}
           /\ ram' = [a \in DOMAIN Ram |-> ram'[a]]
  <1>1. image \in Images
    BY DEF DownloadTypeOK
  <1>2. CASE running' = FALSE /\ ram' = ram /\ loaded' = loaded
    BY <1>2, Zenon DEF DownloadTypeOK
  <1>3. CASE ram' = Poked(image[sent]) /\ loaded' = image /\ running' = running
    <2>1. DOMAIN ram = DOMAIN Ram
      BY DEF DownloadTypeOK
    <2>2. ram' = [a \in DOMAIN Ram |-> ram'[a]]
      BY <1>3, <2>1 DEF Poked
    <2>3. QED
      BY <1>1, <1>3, <2>2, Zenon DEF DownloadTypeOK
  <1>4. CASE running' = TRUE /\ ram' = ram /\ loaded' = loaded
    BY <1>4, Zenon DEF DownloadTypeOK
  <1>5. QED
    BY <1>2, <1>3, <1>4, Effect

(* So do the counters when ezusb_write returns, whatever it returns.       *)
LEMMA ReturnType ==
    ASSUME DownloadTypeOK, sending, sent < Messages, NEW m, NEW ret, Returns(m, ret)
    PROVE  /\ sending' \in BOOLEAN /\ image' = image
           /\ sent' \in 0..Messages /\ tries' \in 0..MaxRetry
  <1>1. Len(image) \in Nat /\ sent \in Nat
    BY DEF DownloadTypeOK, Messages
  <1>2. sending' \in BOOLEAN /\ image' = image
    BY DEF DownloadTypeOK, Returns
  <1>3. sent' = sent \/ sent' = sent + 1
    BY DEF Returns
  <1>4. sent' \in 0..Messages
    BY <1>1, <1>3 DEF Messages
  <1>5. tries \in 0..MaxRetry
    BY DEF DownloadTypeOK
  <1>6. tries' \in 0..MaxRetry
    <2>1. tries' = 0 \/ (tries < MaxRetry /\ tries' = tries + 1)
      BY Zenon DEF Returns, Again
    <2>2. QED
      BY <1>5, <2>1
  <1>7. QED
    BY <1>2, <1>4, <1>6

(* The registers keep their types; the retries of a poke are bounded       *)
(* (ezusb_poke).                                                           *)
THEOREM DownloadTypes == DownloadSpec => []DownloadTypeOK
  <1>1. DownloadInit => DownloadTypeOK
    <2> SUFFICES ASSUME DownloadInit
                 PROVE  DownloadTypeOK
      OBVIOUS
    <2>1. sent \in 0..Messages /\ tries \in 0..MaxRetry
      BY DEF DownloadInit, Messages
    <2>2. ram = [a \in DOMAIN Ram |-> ram[a]]
      <3>1. Ram = [a \in DOMAIN Ram |-> Ram[a]]
        BY DownloadAssumption
      <3>2. QED
        BY <3>1, Zenon DEF DownloadInit
    <2>3. sending \in BOOLEAN /\ ~sending /\ running \in BOOLEAN
      BY Zenon DEF DownloadInit
    <2>4. image \in Images \cup {<<>>} /\ loaded \in Images \cup {<<>>}
      BY Zenon DEF DownloadInit
    <2>5. QED
      BY <2>1, <2>2, <2>3, <2>4, Zenon DEF DownloadTypeOK
  <1>2. DownloadTypeOK /\ [DownloadNext]_downloadvars => DownloadTypeOK'
    <2> SUFFICES ASSUME DownloadTypeOK, [DownloadNext]_downloadvars
                 PROVE  DownloadTypeOK'
      OBVIOUS
    <2>1. ASSUME NEW i \in Images, Begin(i)
          PROVE  DownloadTypeOK'
      BY <2>1 DEF DownloadTypeOK, Begin, board, Messages
    <2>2. CASE SendOk
      BY <2>2, BoardType, ReturnType DEF SendOk, DownloadTypeOK, Messages
    <2>3. CASE SendFails
      BY <2>3, BoardType, ReturnType DEF SendFails, DownloadTypeOK, board, Messages
    <2>4. CASE Ended
      BY <2>4 DEF Ended, DownloadTypeOK, board, Messages
    <2>5. CASE Killed
      <3>1. sent' \in 0..Messages' /\ tries' \in 0..MaxRetry
        BY <2>5 DEF Killed, DownloadTypeOK, board, Messages
      <3>2. QED
        BY <2>5, <3>1, Zenon DEF Killed, DownloadTypeOK, board
    <2>6. CASE UNCHANGED downloadvars
      BY <2>6 DEF downloadvars, progress, board, DownloadTypeOK, Messages
    <2>7. QED
      BY <2>1, <2>2, <2>3, <2>4, <2>5, <2>6 DEF DownloadNext
  <1>3. QED
    BY <1>1, <1>2, PTL DEF DownloadSpec

-----------------------------------------------------------------------------
(***************************************************************************)
(* RunsWhole says nothing while the processor stands, so it is             *)
(* strengthened by what has been done when a number of messages is: the    *)
(* processor is stopped from the first to the last, and the blocks before  *)
(* the one being sent are in the memory, except where that one, which may  *)
(* have arrived without its answer, has been written over them.            *)
(***************************************************************************)
DownloadInv ==
    /\ RunsWhole
    /\ sending /\ sent \in 1..(Len(image) + 1) => ~running /\ Held(image, sent - 1)
    /\ sending /\ sent \in 2..(Len(image) + 1) => loaded = image

(* A block written keeps what was held, and is held itself once it is       *)
(* answered for.                                                            *)
LEMMA PokeHolds ==
    ASSUME DownloadTypeOK, sending, NEW n \in 1..Len(image), Held(image, n - 1),
           ram' = Poked(image[n]), image' = image
    PROVE  Held(image, n - 1)' /\ Held(image, n)'
  <1>1. image \in Seq([off : Nat, bytes : Seq(Nat)]) /\ Len(image) \in Nat
    BY DEF DownloadTypeOK
  <1>2. DOMAIN ram = DOMAIN Ram
    BY DEF DownloadTypeOK
  <1>3. \A a \in DOMAIN Ram : ram'[a] = IF Covers(image[n], a) THEN ByteAt(image[n], a) ELSE ram[a]
    BY <1>2 DEF Poked
  <1>4. Held(image, n - 1)'
    <2> SUFFICES ASSUME NEW k \in 1..(n - 1), NEW a \in DOMAIN Ram, Covers(image[k], a),
                        \A j \in (k + 1)..Len(image) : j <= (n - 1) + 1 => ~Covers(image[j], a)
                 PROVE  ram'[a] = ByteAt(image[k], a)
      BY <1>1 DEF Held, Covers, ByteAt
    <2>1. n \in (k + 1)..Len(image) /\ n <= (n - 1) + 1
      BY <1>1
    <2>2. ~Covers(image[n], a)
      BY <2>1
    <2>3. ram[a] = ByteAt(image[k], a)
      BY <1>1 DEF Held
    <2>4. QED
      BY <1>3, <2>2, <2>3
  <1>5. Held(image, n)'
    <2> SUFFICES ASSUME NEW k \in 1..n, NEW a \in DOMAIN Ram, Covers(image[k], a),
                        \A j \in (k + 1)..Len(image) : j <= n + 1 => ~Covers(image[j], a)
                 PROVE  ram'[a] = ByteAt(image[k], a)
      BY <1>1 DEF Held, Covers, ByteAt
    <2>1. CASE k = n
      BY <2>1, <1>3
    <2>2. CASE k # n
      <3>1. k \in 1..(n - 1) /\ n \in (k + 1)..Len(image) /\ n <= n + 1
        BY <1>1, <2>2, Earlier, Zenon
      <3>2. ~Covers(image[n], a)
        BY <3>1
      <3>3. ASSUME NEW j \in (k + 1)..Len(image), j <= (n - 1) + 1
            PROVE  ~Covers(image[j], a)
        <4>1. j <= n + 1
          BY <1>1, <3>3
        <4>2. QED
          BY <4>1
      <3>4. ram[a] = ByteAt(image[k], a)
        BY <3>1, <3>3 DEF Held
      <3>5. QED
        BY <1>3, <3>2, <3>4
    <2>3. QED
      BY <2>1, <2>2
  <1>6. QED
    BY <1>4, <1>5

(* What a message that arrives leaves, answered for or not.                 *)
LEMMA ArrivalHolds ==
    ASSUME DownloadTypeOK, DownloadInv, sending, sent < Messages,
           Arrives(Message(sent + 1)), image' = image, NEW n, n = sent
    PROVE  /\ RunsWhole'
           /\ n = 0 => ~running' /\ Held(image, 0)'
           /\ n \in 1..Len(image) =>
                /\ ~running' /\ loaded' = image'
                /\ Held(image, n - 1)' /\ Held(image, n)'
  <1>1. image \in Images /\ Len(image) \in Nat /\ Len(image) > 0 /\ n \in Nat /\ n <= Len(image) + 1
    BY DEF DownloadTypeOK, Messages
  <1>2. image # <<>>
    BY <1>1
  <1>3. \/ n = 0 /\ running' = FALSE /\ ram' = ram /\ loaded' = loaded
        \/ n \in 1..Len(image) /\ ram' = Poked(image[n]) /\ loaded' = image /\ running' = running
        \/ n = Len(image) + 1 /\ running' = TRUE /\ ram' = ram /\ loaded' = loaded
    BY Effect
  <1>4. CASE n = 0
    <2>1. running' = FALSE
      BY <1>1, <1>3, <1>4
    <2>2. Held(image, 0)'
      BY DEF Held
    <2>3. QED
      BY <1>4, <2>1, <2>2 DEF RunsWhole
  <1>5. CASE n \in 1..Len(image)
    <2>1. ~running /\ Held(image, n - 1)
      BY <1>1, <1>5 DEF DownloadInv
    <2>2. ram' = Poked(image[n]) /\ loaded' = image /\ running' = running
      BY <1>1, <1>3, <1>5
    <2>3. Held(image, n - 1)' /\ Held(image, n)'
      BY <1>5, <2>1, <2>2, PokeHolds
    <2>4. ~running'
      BY <2>1, <2>2
    <2>5. QED
      BY <1>1, <1>5, <2>2, <2>3, <2>4 DEF RunsWhole
  <1>6. CASE n = Len(image) + 1
    <2>1. ram' = ram /\ loaded' = loaded
      BY <1>1, <1>3, <1>6
    <2>2. loaded = image /\ Held(image, Len(image))
      BY <1>1, <1>6 DEF DownloadInv
    <2>3. loaded' = image /\ Held(image, Len(image))'
      BY <2>1, <2>2 DEF Held, Covers, ByteAt
    <2>4. QED
      BY <1>1, <1>2, <1>6, <2>3 DEF RunsWhole, Whole
  <1>7. QED
    BY <1>1, <1>4, <1>5, <1>6

(* The processor never runs part of a program (ezusb_write_image), whatever *)
(* messages fail, with or without effect, and whenever the program is       *)
(* killed.                                                                  *)
THEOREM NeverRunsPart == DownloadSpec => []RunsWhole
  <1>1. DownloadInit => DownloadInv
    <2> SUFFICES ASSUME DownloadInit
                 PROVE  DownloadInv
      OBVIOUS
    <2>1. RunsWhole
      BY DEF DownloadInit, RunsWhole
    <2>2. ~sending
      BY DEF DownloadInit
    <2>3. QED
      BY <2>1, <2>2 DEF DownloadInv
  <1>2. DownloadTypeOK /\ DownloadTypeOK' /\ DownloadInv /\ [DownloadNext]_downloadvars => DownloadInv'
    <2> SUFFICES ASSUME DownloadTypeOK, DownloadTypeOK', DownloadInv, [DownloadNext]_downloadvars
                 PROVE  DownloadInv'
      OBVIOUS
    <2>a. Len(image) \in Nat /\ sent \in Nat /\ sent <= Len(image) + 2
      BY DEF DownloadTypeOK, Messages
    <2>b. ASSUME UNCHANGED board, ~sending' \/ UNCHANGED <<sending, image, sent>> \/ sent' = 0
          PROVE  DownloadInv'
      <3>1. RunsWhole'
        BY <2>b DEF board, DownloadInv, RunsWhole, Whole, Held
      <3>2. CASE ~sending' \/ sent' = 0
        BY <3>1, <3>2 DEF DownloadInv
      <3>3. CASE UNCHANGED <<sending, image, sent>>
        BY <2>b, <3>1, <3>3 DEF board, DownloadInv, Held
      <3>4. QED
        BY <2>b, <3>2, <3>3
    <2>1. ASSUME NEW i \in Images, Begin(i)
          PROVE  DownloadInv'
      BY <2>1, <2>b DEF Begin
    <2>2. CASE SendOk
      <3>1. PICK n : n = sent
        OBVIOUS
      <3>2. /\ sending /\ sent < Messages /\ Arrives(Message(sent + 1))
            /\ sent' = sent + 1 /\ image' = image /\ sending' = sending
        BY <2>2, Zenon DEF SendOk, Returns
      <3>3. /\ RunsWhole'
            /\ n = 0 => ~running' /\ Held(image, 0)'
            /\ n \in 1..Len(image) => ~running' /\ loaded' = image' /\ Held(image, n)'
        BY <3>1, <3>2, ArrivalHolds
      <3>4. sent' = n + 1 /\ n \in Nat /\ sent' - 1 = n
        BY <2>a, <3>1, <3>2
      <3>5. ASSUME sent' \in 1..(Len(image') + 1)
            PROVE  ~running' /\ Held(image, sent - 1)'
        <4>1. n = 0 \/ n \in 1..Len(image)
          BY <2>a, <3>2, <3>4, <3>5
        <4>2. ~running' /\ Held(image, n)'
          BY <3>3, <4>1
        <4>3. QED
          BY <3>4, <4>2 DEF Held
      <3>6. ASSUME sent' \in 2..(Len(image') + 1)
            PROVE  loaded' = image'
        BY <2>a, <3>2, <3>3, <3>4, <3>6
      <3>7. QED
        BY <3>3, <3>5, <3>6 DEF DownloadInv
    <2>3. CASE SendFails
      <3>1. PICK n : n = sent
        OBVIOUS
      <3>2. PICK ret \in {-1, -2} : Returns(Message(sent + 1), ret)
        BY <2>3 DEF SendFails
      <3>3. ret # 0
        BY <3>2
      <3>4. /\ image' = image /\ sent' = sent
            /\ ~sending' \/ (Message(sent + 1).msg = "poke" /\ sending' = sending)
        BY <3>2, <3>3, Zenon DEF Returns, Again
      <3>5. CASE UNCHANGED board
        BY <2>b, <3>4, <3>5
      <3>6. CASE Arrives(Message(sent + 1))
        <4>1. sending /\ sent < Messages
          BY <2>3 DEF SendFails
        <4>2. /\ RunsWhole'
              /\ n \in 1..Len(image) => ~running' /\ loaded' = image' /\ Held(image, n - 1)'
          BY <3>1, <3>4, <3>6, <4>1, ArrivalHolds
        <4>3. CASE ~sending'
          BY <4>2, <4>3 DEF DownloadInv
        <4>4. CASE Message(sent + 1).msg = "poke"
          <5>1. sent \in 1..Len(image)
            BY <4>1, <4>4, MessageType DEF ezusb_cpucs, ezusb_poke
          <5>2. sent' = n /\ n \in 1..Len(image)
            BY <3>1, <3>4, <5>1
          <5>3. ~running' /\ loaded' = image' /\ Held(image, sent - 1)'
            BY <4>2, <5>2 DEF Held
          <5>4. QED
            BY <4>2, <5>3 DEF DownloadInv
        <4>5. QED
          BY <3>4, <4>3, <4>4
      <3>7. QED
        BY <2>3, <3>5, <3>6 DEF SendFails
    <2>4. CASE Ended
      BY <2>4, <2>b DEF Ended
    <2>5. CASE Killed
      BY <2>5, <2>b DEF Killed
    <2>6. CASE UNCHANGED downloadvars
      BY <2>6, <2>b DEF downloadvars, progress
    <2>7. QED
      BY <2>1, <2>2, <2>3, <2>4, <2>5, <2>6 DEF DownloadNext
  <1>3. DownloadInv => RunsWhole
    BY DEF DownloadInv
  <1>4. QED
    BY <1>1, <1>2, <1>3, DownloadTypes, PTL DEF DownloadSpec
=============================================================================
