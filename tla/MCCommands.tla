----------------------------- MODULE MCCommands -----------------------------
(***************************************************************************)
(* A disk with /S/F (for SYS and FONT), FONTDATA, a font, a directory in a *)
(* directory and songs; stems have two letters and extensions three.  The  *)
(* scale has every note of the table and is played in /S/F only.           *)
(***************************************************************************)
EXTENDS Commands

Plain(letters) == <<letters>>
a == Plain(<<"a">>)
b == Plain(<<"b">>)
S == Plain(<<"S">>)
F == Plain(<<"F">>)
D == Plain(<<"D">>)
X == <<<<"X">>, <<"p", "s", "f">>>>
short == <<<<"a">>, <<"c">>>>
long == Plain(<<"a", "b", "c">>)
m == Plain(<<"m">>)
t == Plain(<<"t">>)

Rel(comps) == [abs |-> FALSE, comps |-> comps]
Absolute(comps) == [abs |-> TRUE, comps |-> comps]

MCFontData == Absolute(<<S, F, D>>)
MCPaths == {Rel(<<a, b>>), Rel(<<DotDot, b>>), Absolute(<<a>>), Absolute(<<S, F>>), Rel(<<m>>),
            Rel(<<a, short>>), Rel(<<long>>), Rel(<<DotDot>>), Rel(<<X>>), Rel(<<t>>),
            Absolute(<<S, Dot, F, X>>)}
\* No name whose last bytes are read from behind it.
MCPlainPaths == MCPaths \ {Rel(<<a, short>>)}

Tune == <<"BPM", "700", "A4", "Q", "REST", "E", "B6", "S", "C1", "W", "H4", "Q">>
NoTempo == <<"BPM", "0", "A4", "Q">>
Backwards == <<"BPM", "-9", "A4", "Q", "B4", "Q">>
Odd == <<"BPM", "700", "A4">>
Notes72 == <<"C1", "CSHARP1", "D1", "DSHARP1", "E1", "F1", "FSHARP1", "G1", "GSHARP1", "A1",
  "ASHARP1", "B1", "C2", "CSHARP2", "D2", "DSHARP2", "E2", "F2", "FSHARP2", "G2", "GSHARP2",
  "A2", "ASHARP2", "B2", "C3", "CSHARP3", "D3", "DSHARP3", "E3", "F3", "FSHARP3", "G3",
  "GSHARP3", "A3", "ASHARP3", "B3", "C4", "CSHARP4", "D4", "DSHARP4", "E4", "F4", "FSHARP4",
  "G4", "GSHARP4", "A4", "ASHARP4", "B4", "C5", "CSHARP5", "D5", "DSHARP5", "E5", "F5",
  "FSHARP5", "G5", "GSHARP5", "A5", "ASHARP5", "B5", "C6", "CSHARP6", "D6", "DSHARP6", "E6",
  "F6", "FSHARP6", "G6", "GSHARP6", "A6", "ASHARP6", "B6">>
Scale == <<"BPM", "70000">> \o
         [k \in 1..144 |-> IF k % 2 = 1 THEN Notes72[(k + 1) \div 2]
                           ELSE <<"W", "H", "Q", "E", "S">>[1 + (k % 5)]]

Stored(name) == plaintext_to_filename(name, Blank)
At(id, dir, name, kind, holds) ==
  [id |-> id, dir |-> dir, name |-> Stored(name), kind |-> kind, holds |-> holds]
MCDisk == {At(1, 0, S, "dir", <<>>), At(2, 1, F, "dir", <<>>),
           At(3, 2, D, "path", Absolute(<<S, F, X>>)), At(4, 2, X, "font", <<>>),
           At(5, 0, m, "song", Tune), At(6, 0, a, "dir", <<>>), At(7, 6, b, "dir", <<>>),
           At(8, 2, t, "song", Scale), At(9, 0, t, "song", NoTempo),
           At(10, 6, t, "song", Odd), At(11, 2, m, "song", Backwards)}

Values == [w \in {"700", "0", "-9", "70000"} |->
             CASE w = "700" -> 700 [] w = "0" -> 0 [] w = "-9" -> -9 [] OTHER -> 70000]
=============================================================================
