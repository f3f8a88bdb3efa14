------------------------------- MODULE FwBoot -------------------------------
(***************************************************************************)
(* software/src/fw.c with -b, from its arguments to the processor of the   *)
(* board: getopt takes the options one by one, ezusb.c reads the file and  *)
(* sends it (Download), one control message a step. The program may be     *)
(* killed, and another run may follow.                                     *)
(***************************************************************************)
EXTENDS Getopt, Ezusb, Download

CONSTANTS Scenarios,     \* records: runs, the arguments of each; posix; faults
          Files,         \* [names -> sequences of lines]
          MaxKills

VARIABLES runs,          \* the runs left, the present one first
          posix, faults, \* of the scenario: POSIXLY_CORRECT is set; messages may fail
          g, seen, op, bfn,         \* getopt and what it has given
          pc, kills
vars == <<runs, posix, faults, g, seen, op, bfn, pc, kills, downloadvars>>
scenario == <<posix, faults>>
getoptvars == <<g, seen, op, bfn>>

Init == \E s \in Scenarios :
    /\ runs = s.runs /\ posix = s.posix /\ faults = s.faults
    /\ g = _getopt_initialize(<<(<<"fw">>)>> \o Head(s.runs), s.posix)
    /\ seen = <<>> /\ op = {"DO_HELP"} /\ bfn = NULL
    /\ pc = "options" /\ kills = 0 /\ DownloadInit

(***************************************************************************)
(* main's loop over the options: some add to what is to be done, others    *)
(* replace it.                                                             *)
(***************************************************************************)
Adds == [b |-> "BOOT_USB", f |-> "BOOT_FPGA", r |-> "READ_FIFO", w |-> "WRITE_FIFO"]
Replaces == [h |-> "DO_HELP", t |-> "DO_TEST", S |-> "DO_STATUS", E |-> "DO_EXEC", P |-> "DO_PCI"]
OpAfterAdds(c) ==                    \* faulty: -h, -t, -S, -E and -P add as well
    CASE c \in DOMAIN Adds     -> op \cup {Adds[c]}
      [] c \in DOMAIN Replaces -> op \cup {Replaces[c]}
      [] OTHER                 -> op
OpAfter(c) ==
    CASE c \in DOMAIN Adds     -> op \cup {Adds[c]}
      [] c \in DOMAIN Replaces -> {Replaces[c]}
      [] OTHER                 -> op

Option ==
    /\ pc = "options"
    /\ \E h \in {getopt(g)} :
         /\ g' = h
         /\ \/ /\ h.ret # NoMore
               /\ seen' = Append(seen, <<h.ret, h.optarg>>)
               /\ op' = OpAfter(h.ret)
               /\ bfn' = IF h.ret = "b" THEN h.optarg ELSE bfn
               /\ UNCHANGED pc
            \/ /\ h.ret = NoMore
               /\ pc' = IF "BOOT_USB" \in op THEN "load" ELSE "over"
               /\ UNCHANGED <<seen, op, bfn>>
    /\ UNCHANGED <<runs, scenario, kills, downloadvars>>

(* A file that is refused ends the program.                                 *)
Load ==
    /\ pc = "load"
    /\ \E file \in {ezusb_load_image(Files, bfn)} :
         \/ file.ret # 0 /\ pc' = "over" /\ UNCHANGED downloadvars
         \/ file.ret = 0 /\ pc' = "send" /\ Begin(file.blocks)
    /\ UNCHANGED <<runs, scenario, getoptvars, kills>>

(* What ezusb_write_image returns is not looked at.                         *)
Send ==
    /\ pc = "send" /\ (SendOk \/ (faults /\ SendFails) \/ Ended)
    /\ pc' = IF sending' THEN "send" ELSE "over"
    /\ UNCHANGED <<runs, scenario, getoptvars, kills>>

(* At any time while it sends. Then, or when it is over, the next run.      *)
Kill ==
    /\ faults /\ pc = "send" /\ kills < MaxKills /\ Killed
    /\ kills' = kills + 1 /\ pc' = "over"
    /\ UNCHANGED <<runs, scenario, getoptvars>>
NextRun ==
    /\ pc = "over" /\ Len(runs) > 1
    /\ runs' = Tail(runs) /\ g' = _getopt_initialize(<<(<<"fw">>)>> \o runs[2], posix)
    /\ seen' = <<>> /\ op' = {"DO_HELP"} /\ bfn' = NULL /\ pc' = "options"
    /\ UNCHANGED <<scenario, kills, downloadvars>>

Next == Option \/ Load \/ Send \/ Kill \/ NextRun
Spec == Init /\ [][Next]_vars
FairSpec == Spec /\ WF_vars(Option \/ Load \/ Send \/ NextRun)

-----------------------------------------------------------------------------
(***************************************************************************)
(* Properties; RunsWhole is in Download.                                   *)
(***************************************************************************)
TypeOK ==
    /\ DownloadTypeOK
    /\ op \subseteq {"DO_HELP", "BOOT_USB", "BOOT_FPGA", "READ_FIFO", "WRITE_FIFO", "DO_TEST",
                     "DO_STATUS", "DO_EXEC", "DO_PCI"}
    /\ 1 <= g.first_nonopt /\ g.first_nonopt <= g.last_nonopt /\ g.last_nonopt <= argc(g)
    /\ g.optind \in 1..argc(g)
    /\ pc \in {"options", "load", "send", "over"}

Meant == Meaning(Head(runs), g.ordering)
AllTaken == g.ret = NoMore

(* The options are taken in the order they stand, each with its own         *)
(* argument, whatever operands stand between them.                          *)
OptionsMeant == AllTaken => seen = Meant.seen

(* When they are, the operands are left, none lost and in their order,      *)
(* behind everything that was used; optind is at the first of them.         *)
OperandsLast ==
    AllTaken => /\ Tail(g.argv) = Meant.used \o Meant.operands
                /\ g.optind = 1 + Len(Meant.used)

(* So the arguments mean what they are meant to, wherever they stand.       *)
ArgumentsMeant == TypeOK /\ OptionsMeant /\ OperandsLast

(* The image that is sent gives every address the byte the file gives it,   *)
(* however the lines of the file were put together into blocks.  What a     *)
(* stub of a line loads is not the file's; no other address suffers.        *)
BytesFor(im, a) ==
    {ByteAt(im[k], a) : k \in {k \in DOMAIN im : Covers(im[k], a) /\ \A j \in DOMAIN im : j > k => ~Covers(im[j], a)}}
ReadsFile ==
    sending => \A a \in DOMAIN Ram :
                   IF CutOff(Files[bfn], a) THEN BytesFor(image, a) # {}
                   ELSE BytesFor(image, a) = Gives(Files[bfn], a)

(* A file with a line before its end that lacks data is not sent: "not      *)
(* enough data on line".  This does not hold: a stub is.                    *)
RefusesCut ==
    sending => \A i \in DOMAIN Files[bfn] :
        (\A j \in 1..i : Files[bfn][j].kind # "eof") => Files[bfn][i].kind \notin {"short", "stub"}

(* Only the file named by the last -b changes the memory, and only if no    *)
(* option behind it asks for something else.                                *)
LastAsked ==
    [][ram' # ram => \E i \in DOMAIN Meant.seen :
          /\ Meant.seen[i] = <<"b", bfn>>
          /\ \A j \in DOMAIN Meant.seen : j > i => Meant.seen[j][1] \notin {"b"} \cup DOMAIN Replaces]_vars

(* Every run ends, even if no message ever arrives.                         *)
Ends == <>[](pc = "over" /\ Len(runs) = 1)
=============================================================================
