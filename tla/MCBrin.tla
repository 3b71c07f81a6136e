------------------------------- MODULE MCBrin -------------------------------
(* Columns of each operator class, with the values that tell their cases apart.*)
EXTENDS Brin

at(x) == <<x, x>>
IsNull == [op |-> "IS NULL", box |-> None]
IsNotNull == [op |-> "IS NOT NULL", box |-> None]
Ask(ops, boxes) == {IsNull} \cup [op : ops, box : boxes]

\* Points and a wider box of two dimensions.
Flat == {<<at(1)>>, <<at(2)>>, <<<<1, 3>>>>}
FlatColumn == [class |-> "2d", values |-> Flat \cup {Null},
               queries |-> Ask({"&&", "~", "@"}, Flat \cup {<<<<2, 3>>>>, <<at(4)>>})
                           \cup Ask({"&&", "~"}, {EMPTY}) \cup {IsNotNull}]

\* Two, three and four dimensions in one column.
Mixed == {<<at(1)>>, <<at(1), at(1)>>, <<at(2), at(2)>>, <<at(1), at(1), at(3)>>}
Asked == {<<at(1)>>, <<at(2)>>, <<at(1), at(2)>>, <<at(2), at(1)>>, <<at(1), Pad, at(3)>>, <<at(2), Pad, at(1)>>}
MixedColumn == [class |-> "3d", values |-> Mixed \cup {Null, EMPTY}, queries |-> Ask({"&&&"}, Asked)]

\* Geometries with M and no Z, beside some with Z and no M.
Measured == {<<at(1), Pad, at(1)>>, <<at(1), Pad, at(3)>>, <<at(1), at(2)>>}
MeasuredColumn == [class |-> "4d", values |-> Measured \cup {Null}, queries |-> Ask({"&&&"}, Asked) \cup {IsNotNull}]

\* Geometries with Z and M.
Full == {<<at(1), at(1), at(1)>>, <<at(2), at(1), at(3)>>, <<at(1), at(2), at(2)>>}
FullColumn == [class |-> "4d", values |-> Full \cup {EMPTY}, queries |-> Ask({"&&&"}, Asked)]

\* Geographies: geocentric boxes, of three dimensions.
Globe == {<<at(1), at(1)>>, <<at(2), at(1)>>}
GlobeColumn == [class |-> "geography", values |-> Globe \cup {Null, EMPTY}, queries |-> Ask({"&&&"}, Globe \cup {<<at(3), at(1)>>})]

Columns == {FlatColumn, MixedColumn, MeasuredColumn, FullColumn, GlobeColumn}

\* A 2D column with EMPTY geometries.
ColumnWithEmpty == {[FlatColumn EXCEPT !.values = Flat \cup {EMPTY}, !.queries = Ask({"&&"}, Flat)]}
=============================================================================
