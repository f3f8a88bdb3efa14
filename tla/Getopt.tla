------------------------------- MODULE Getopt -------------------------------
(***************************************************************************)
(* software/src/getopt.c, as fw.c uses it: getopt, without long options.   *)
(* It keeps its place in static variables between two calls: the record g. *)
(* An argument is a sequence of characters; argv is indexed from 0.        *)
(***************************************************************************)
EXTENDS Integers, Sequences, SequencesExt

CONSTANTS Takes        \* [option characters -> "none" or "required"], the optstring

PERMUTE == "PERMUTE"
REQUIRE_ORDER == "REQUIRE_ORDER"
NULL == <<"NULL">>
Unknown == "?"
NoMore == "-1"
DashDash == <<"-", "-">>

argc(g) == Len(g.argv)
Arg(g, i) == g.argv[i + 1]
NONOPTION_P(g) == LET a == Arg(g, g.optind) IN Len(a) < 2 \/ a[1] # "-"

(* _getopt_initialize: the environment variable POSIXLY_CORRECT keeps the   *)
(* order.                                                                   *)
_getopt_initialize(argv, posixly_correct) ==
    [argv |-> argv, optind |-> 1, first_nonopt |-> 1, last_nonopt |-> 1, nextchar |-> <<>>,
     ordering |-> IF posixly_correct THEN REQUIRE_ORDER ELSE PERMUTE,
     optarg |-> NULL, ret |-> ""]

(***************************************************************************)
(* exchange: the non-options [first_nonopt, last_nonopt) and the options   *)
(* [last_nonopt, optind) change places, the shorter of them by swaps with  *)
(* the far end of the longer, until one is empty.                          *)
(***************************************************************************)
Swapped(v, a, b, len) ==
    [i \in DOMAIN v |-> CASE i - 1 \in a..(a + len - 1) -> v[b + i - a]
                          [] i - 1 \in b..(b + len - 1) -> v[a + i - b]
                          [] OTHER                      -> v[i]]
RECURSIVE Rotated(_, _, _, _)
Rotated(v, bottom, middle, top) ==
    LET low == middle - bottom
        high == top - middle
    IN  CASE ~(top > middle /\ middle > bottom) -> v
          [] high > low -> Rotated(Swapped(v, bottom, top - low, low), bottom, middle, top - low)
          [] OTHER      -> Rotated(Swapped(v, bottom, middle, high), bottom + high, middle, top)
exchangeOnce(g) ==                          \* faulty: what is left of the longer part stays
    [g EXCEPT !.argv = Swapped(@, g.first_nonopt, g.last_nonopt,
                               IF g.optind - g.last_nonopt < g.last_nonopt - g.first_nonopt
                               THEN g.optind - g.last_nonopt ELSE g.last_nonopt - g.first_nonopt),
              !.first_nonopt = @ + (g.optind - g.last_nonopt), !.last_nonopt = g.optind]
exchange(g) ==
    [g EXCEPT !.argv = Rotated(@, g.first_nonopt, g.last_nonopt, g.optind),
              !.first_nonopt = @ + (g.optind - g.last_nonopt), !.last_nonopt = g.optind]
BothParts(g) == g.first_nonopt # g.last_nonopt /\ g.last_nonopt # g.optind

(***************************************************************************)
(* The next element of argv, when the last one is used up.                 *)
(***************************************************************************)
RECURSIVE SkipNonoptions(_)
SkipNonoptions(g) ==
    IF g.optind < argc(g) /\ NONOPTION_P(g) THEN SkipNonoptions([g EXCEPT !.optind = @ + 1])
    ELSE [g EXCEPT !.last_nonopt = g.optind]
Permute(g) ==
    SkipNonoptions(CASE BothParts(g)               -> exchange(g)
                     [] g.last_nonopt # g.optind   -> [g EXCEPT !.first_nonopt = g.optind]
                     [] OTHER                      -> g)
EndOfOptions(g) ==
    LET s == [g EXCEPT !.optind = @ + 1]
        t == CASE BothParts(s)                       -> exchange(s)
               [] s.first_nonopt = s.last_nonopt     -> [s EXCEPT !.first_nonopt = s.optind]
               [] OTHER                              -> s
    IN  [t EXCEPT !.last_nonopt = argc(g), !.optind = argc(g)]

Advance(g) ==
    LET h == IF g.ordering = PERMUTE THEN Permute(g) ELSE g
    IN  IF h.optind # argc(h) /\ Arg(h, h.optind) = DashDash THEN EndOfOptions(h) ELSE h

(***************************************************************************)
(* A short option: it may be followed by others, or by its argument, in    *)
(* the same element.                                                       *)
(***************************************************************************)
WithArgument(h, c) ==
    CASE h.nextchar # <<>> -> [h EXCEPT !.optarg = h.nextchar, !.optind = @ + 1, !.nextchar = <<>>, !.ret = c]
      [] h.nextchar = <<>> /\ h.optind = argc(h) -> [h EXCEPT !.ret = Unknown]
      [] OTHER -> [h EXCEPT !.optarg = Arg(h, h.optind), !.optind = @ + 1, !.ret = c]
ShortOption(g) ==
    LET c == Head(g.nextchar)
        h == [g EXCEPT !.nextchar = Tail(@), !.optind = IF Len(g.nextchar) = 1 THEN @ + 1 ELSE @]
    IN  CASE c \notin DOMAIN Takes -> [h EXCEPT !.ret = Unknown]
          [] c \in DOMAIN Takes /\ Takes[c] = "none" -> [h EXCEPT !.ret = c]
          [] OTHER -> WithArgument(h, c)

(* One call.                                                                *)
BegunStale(g) == g                          \* faulty: optarg is that of the option before
Begun(g) == [g EXCEPT !.optarg = NULL]
getopt(g0) ==
    LET g == Begun(g0)
        h == Advance(g)
    IN  CASE g.nextchar # <<>> -> ShortOption(g)
          [] g.nextchar = <<>> /\ h.optind = argc(h)
               -> [h EXCEPT !.optind = IF h.first_nonopt # h.last_nonopt THEN h.first_nonopt ELSE @,
                            !.ret = NoMore]
          [] g.nextchar = <<>> /\ h.optind # argc(h) /\ NONOPTION_P(h) -> [h EXCEPT !.ret = NoMore]
          [] OTHER -> ShortOption([h EXCEPT !.nextchar = Tail(Arg(h, h.optind))])

-----------------------------------------------------------------------------
(***************************************************************************)
(* What it is for, without moving anything: the options with their         *)
(* arguments, in their order (seen), the elements they are in (used), and  *)
(* the rest (operands).                                                    *)
(***************************************************************************)
RECURSIVE Cluster(_, _)
Cluster(chars, rest) ==
    IF chars = <<>> THEN [seen |-> <<>>, taken |-> 0]
    ELSE LET c    == Head(chars)
             more == Cluster(Tail(chars), rest)
             arg  == c \in DOMAIN Takes /\ Takes[c] = "required"
         IN  CASE ~arg -> [more EXCEPT !.seen = <<(<<IF c \in DOMAIN Takes THEN c ELSE Unknown, NULL>>)>> \o @]
               [] arg /\ Len(chars) > 1 -> [seen |-> <<<<c, Tail(chars)>>>>, taken |-> 0]
               [] arg /\ Len(chars) = 1 /\ rest = <<>> -> [seen |-> <<<<Unknown, NULL>>>>, taken |-> 0]
               [] OTHER -> [seen |-> <<<<c, Head(rest)>>>>, taken |-> 1]
RECURSIVE Meaning(_, _)
Meaning(args, ordering) ==
    IF args = <<>> THEN [seen |-> <<>>, used |-> <<>>, operands |-> <<>>]
    ELSE LET a    == Head(args)
             skip == Meaning(Tail(args), ordering)
             here == Cluster(Tail(a), Tail(args))
             next == Meaning(SubSeq(args, 2 + here.taken, Len(args)), ordering)
         IN  CASE a = DashDash -> [seen |-> <<>>, used |-> <<a>>, operands |-> Tail(args)]
               [] a # DashDash /\ (Len(a) < 2 \/ a[1] # "-") ->
                    IF ordering = PERMUTE THEN [skip EXCEPT !.operands = <<a>> \o @]
                    ELSE [seen |-> <<>>, used |-> <<>>, operands |-> args]
               [] OTHER -> [next EXCEPT !.seen = here.seen \o @,
                                        !.used = SubSeq(args, 1, 1 + here.taken) \o @]
=============================================================================
