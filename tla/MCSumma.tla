------------------------------- MODULE MCSumma -------------------------------
(* Instance of Summa for TLC: up to four units; tiles of one element and of *)
(* four; operands whose elements all differ, and do not commute.            *)
EXTENDS Summa, MatrixView, TLC

Tiles(b) == <<TN!TILE(b), TN!TILE(b)>>
Square(n, b, order, team) == TN!FromSpecs(<<n, n>>, order, Tiles(b), TN!Arranged(team), TN!SizeOf(team))

Elements == [m \in {"A", "B"} |-> [x \in (0 .. 3) \X (0 .. 3) |->
    IF m = "A" THEN 1 + x[1] + 5 * x[2] ELSE 2 + 7 * x[1] * x[1] + 3 * x[2]]]

ColumnMajor ==
    {Square(2, 1, "row", t) : t \in {<<1, 1>>, <<1, 2>>, <<2, 1>>, <<2, 2>>}}
    \cup {Square(3, 1, "col", <<2, 1>>)}
    \cup {Square(4, 2, "col", t) : t \in {<<1, 2>>, <<2, 1>>}}

(* What summa does not accept: no minimal partitioning, no blocked layout.  *)
Refused == {ST!FromTeam(<<4, 4>>, "row", Tiles(1), 2), BN!FromTeam(<<4, 4>>, "row", <<BN!BLOCKED, BN!NONE>>, 2)}
Operand == {Answers(p) : p \in {q \in ColumnMajor \cup Refused : Accepted(q)}}
=============================================================================
