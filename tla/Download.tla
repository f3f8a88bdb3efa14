------------------------------ MODULE Download ------------------------------
(***************************************************************************)
(* software/src/ezusb.c, ezusb_write_image: the blocks of an image are     *)
(* written into the memory of the USB controller by control messages, its  *)
(* processor stopped meanwhile. A message may fail, done or not done; the  *)
(* program may be killed, and another download may follow.                 *)
(***************************************************************************)
EXTENDS Integers, Sequences

CONSTANTS Images,        \* an image is a sequence of blocks: an address and bytes
          Ram,           \* the memory before
          MaxRetry       \* 5

ASSUME DownloadAssumption ==
    /\ Images \subseteq Seq([off : Nat, bytes : Seq(Nat)]) \ {<<>>}
    /\ DOMAIN Ram \subseteq Nat /\ Ram \in [DOMAIN Ram -> Nat]
    /\ MaxRetry \in Nat

VARIABLES sending,       \* ezusb_write_image has not returned
          image, sent,   \* what it writes, and how many of its messages are done
          tries,         \* retry, of the poke being sent
          ram, running,  \* the controller: its memory, its processor
          loaded         \* history: the image last written to it, even in part
progress == <<sending, image, sent, tries>>
board == <<ram, running, loaded>>
downloadvars == <<progress, board>>

DownloadInit ==
    /\ sending = FALSE /\ image = <<>> /\ sent = 0 /\ tries = 0
    /\ ram = Ram /\ running = TRUE /\ loaded = <<>>

(* The messages: stop the processor, the blocks, start it.                  *)
ezusb_cpucs(run) == [msg |-> "cpucs", run |-> run, block |-> 0]
ezusb_poke(k) == [msg |-> "poke", run |-> FALSE, block |-> k]
MessageRunning(i) ==                 \* faulty: the processor is not stopped
    IF i \in 2..(Len(image) + 1) THEN ezusb_poke(i - 1) ELSE ezusb_cpucs(TRUE)
Message(i) ==
    IF i = 1 THEN ezusb_cpucs(FALSE)
    ELSE IF i = Len(image) + 2 THEN ezusb_cpucs(TRUE) ELSE ezusb_poke(i - 1)
Messages == Len(image) + 2

(* What a message does to the controller.                                   *)
Covers(b, a) == a - b.off \in 0..(Len(b.bytes) - 1)
ByteAt(b, a) == b.bytes[a - b.off + 1]
Poked(b) == [a \in DOMAIN ram |-> IF Covers(b, a) THEN ByteAt(b, a) ELSE ram[a]]
Arrives(m) ==
    \/ m.msg = "cpucs" /\ running' = m.run /\ UNCHANGED <<ram, loaded>>
    \/ m.msg = "poke" /\ ram' = Poked(image[m.block]) /\ loaded' = image /\ UNCHANGED running

(* ezusb_write returns; a poke that returned -1 is sent again, anything     *)
(* else that is negative ends the download.                                 *)
AgainOnceMore(m, ret) == m.msg = "poke" /\ ret = -1 /\ tries <= MaxRetry    \* faulty
Again(m, ret) == m.msg = "poke" /\ ret = -1 /\ tries < MaxRetry
ReturnsWrapped(m, ret) ==            \* faulty: retry begins again before it is at its limit
    \/ ret = 0 /\ sent' = sent + 1 /\ tries' = 0 /\ UNCHANGED <<sending, image>>
    \/ ret # 0 /\ Again(m, ret) /\ tries' = (tries + 1) % MaxRetry /\ UNCHANGED <<sending, image, sent>>
    \/ ret # 0 /\ ~Again(m, ret) /\ sending' = FALSE /\ tries' = 0 /\ UNCHANGED <<image, sent>>
Returns(m, ret) ==
    \/ ret = 0 /\ sent' = sent + 1 /\ tries' = 0 /\ UNCHANGED <<sending, image>>
    \/ ret # 0 /\ Again(m, ret) /\ tries' = tries + 1 /\ UNCHANGED <<sending, image, sent>>
    \/ ret # 0 /\ ~Again(m, ret) /\ sending' = FALSE /\ tries' = 0 /\ UNCHANGED <<image, sent>>

Begin(i) ==
    /\ ~sending /\ sending' = TRUE
    /\ image' = i /\ sent' = 0 /\ tries' = 0 /\ UNCHANGED board
SendOk ==
    /\ sending /\ sent < Messages
    /\ Arrives(Message(sent + 1)) /\ Returns(Message(sent + 1), 0)
SendFails ==
    /\ sending /\ sent < Messages
    /\ Arrives(Message(sent + 1)) \/ UNCHANGED board
    /\ \E ret \in {-1, -2} : Returns(Message(sent + 1), ret)
Ended ==
    /\ sending /\ sent = Messages
    /\ sending' = FALSE /\ UNCHANGED <<image, sent, tries, board>>
Killed ==
    /\ sending /\ sending' = FALSE /\ tries' = 0 /\ UNCHANGED <<image, sent, board>>

DownloadNext == (\E i \in Images : Begin(i)) \/ SendOk \/ SendFails \/ Ended \/ Killed
DownloadSpec == DownloadInit /\ [][DownloadNext]_downloadvars

-----------------------------------------------------------------------------
DownloadTypeOK ==
    /\ sending \in BOOLEAN /\ running \in BOOLEAN
    /\ image \in Images \cup {<<>>} /\ loaded \in Images \cup {<<>>}
    /\ sending => image \in Images
    /\ sent \in 0..Messages /\ tries \in 0..MaxRetry
    /\ ram = [a \in DOMAIN Ram |-> ram[a]]

(* The first n blocks are in the memory, where the next has not been        *)
(* written over them: of two blocks for an address the later one counts.    *)
Held(im, n) ==
    \A k \in 1..n : \A a \in DOMAIN Ram :
        /\ Covers(im[k], a)
        /\ \A j \in (k + 1)..Len(im) : j <= n + 1 => ~Covers(im[j], a)
        => ram[a] = ByteAt(im[k], a)
Whole(im) == Held(im, Len(im))

(* The processor never runs a program that is there only in part: what a    *)
(* failed, repeated or killed download leaves behind is not started.        *)
RunsWhole == running => IF loaded = <<>> THEN ram = Ram ELSE Whole(loaded)
=============================================================================
