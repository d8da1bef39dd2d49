------------------------------ MODULE ClientMC ------------------------------
(***************************************************************************)
(* Constants for ClientMain, at a scale of eight values to a byte: ports   *)
(* are 3 to 8, a header is six bytes and a message at most nine.           *)
(***************************************************************************)
EXTENDS ClientMain, TLC

\* Ids are interchangeable: nothing compares them.
Ids == Permutations(Guid)

\* The loopback's own entry without an address comes after the one in use.
MCInterfaces ==
  <<[addr |-> "lo", index |-> 1], [addr |-> "here", index |-> 2],
    [addr |-> Absent, index |-> 3], [addr |-> "there", index |-> 4]>>

List(ranges) == [ranges |-> ranges, form |-> "list"]
Number(p) == [ranges |-> <<<<p>>>>, form |-> "number"]

\* -r host -l here -p 30 -s 4-5 -d 100 -i 2 -m 8 -a <two hops>
Line ==
  [r |-> "host", l |-> "here", p |-> 30, s |-> List(<<<<4, 5>>>>), n |-> Absent,
   d |-> 100, i |-> 2, m |-> 8, a |-> <<TRUE, TRUE>>, h |-> FALSE]

\* Lines whose loop is run to the bounds, and others that do not come to it.
MCCommandLines ==
  {Line,
   [Line EXCEPT !.s = Number(7), !.n = 2, !.a = <<TRUE>>, !.m = 1, !.p = 64],
   [Line EXCEPT !.s = List(<<<<8>>, <<3, 4>>>>), !.n = 3, !.m = 9, !.a = <<TRUE>>],
   [Line EXCEPT !.s = List(<<<<4>>, <<4>>>>), !.m = 1, !.a = <<TRUE>>],     \* twice
   [Line EXCEPT !.s = List(<<<<7>>>>), !.n = 3, !.m = 1, !.a = <<TRUE>>],   \* "7,"
   [Line EXCEPT !.s = List(<<>>)],                                          \* ","
   [Line EXCEPT !.s = List(<<<<5, 4>>>>)],
   [Line EXCEPT !.s = List(<<<<3>>, <<2>>>>)],
   [Line EXCEPT !.s = Number(7), !.n = 3],         \* up to port 9
   [Line EXCEPT !.s = List(<<<<3, 5>>, <<5>>>>)],  \* one too many
   [Line EXCEPT !.s = [ranges |-> <<<<4>>>>, form |-> "other"]],
   [Line EXCEPT !.s = Absent],
   [Line EXCEPT !.s = Number(2), !.n = 1],
   [Line EXCEPT !.l = "there"], [Line EXCEPT !.l = "nowhere"],
   [Line EXCEPT !.a = <<TRUE, FALSE>>],
   [Line EXCEPT !.i = 0], [Line EXCEPT !.m = 10], [Line EXCEPT !.h = TRUE]}

MCIpWords == <<37, 0, 63>>
MCAddrWords == <<60, 63, 2, 61>>
=============================================================================
