------------------------------ MODULE MCSupport ------------------------------
(* Instances of Support. *)
EXTENDS Support

\* a letter, Enter, left Shift, right Ctrl, left Alt, Del
MCKey == {<<"1E", FALSE>>, <<"1C", FALSE>>, <<"2A", FALSE>>,
          <<"1D", TRUE>>, <<"38", FALSE>>, <<"53", TRUE>>}

MCSerial == {"A", "DEL"}
MCUserChar == {"TAB", "BS", "CR"}

MCFmt == {"%", "d", "x", "s", "0", "3", "-", ".", "l", "*", "k"}

MCArg == {[num |-> -16, str |-> <<"h", "^A">>],
          [num |-> 12, str |-> <<"h", "i", "j">>],
          [num |-> 2, str |-> NULL]}

Stab(t, v) == [n_type |-> t, n_value |-> v]
Table(s) == [n \in 0..(Len(s) - 1) |-> s[n + 1]]

\* Two files with functions, with included code and parameters; a file without
\* functions, as the assembler makes it, and functions of one line; all of them
\* after the header that every table begins with.
MCTables == {
    Table(<<Stab("UNDF", 0),
            Stab("SO", 2), Stab("FUN", 2), Stab("PSYM", 0), Stab("PSYM", 0),
            Stab("SLINE", 0), Stab("SLINE", 2),
            Stab("FUN", 5), Stab("SLINE", 0), Stab("SOL", 0), Stab("SLINE", 2),
            Stab("SO", 9), Stab("FUN", 9), Stab("PSYM", 0), Stab("SLINE", 0),
            Stab("SO", 12)>>),
    Table(<<Stab("UNDF", 0),
            Stab("SO", 1), Stab("SLINE", 1), Stab("SLINE", 3),
            Stab("SO", 5), Stab("FUN", 5), Stab("SLINE", 0),
            Stab("FUN", 7), Stab("SLINE", 0), Stab("FUN", 9), Stab("SLINE", 0),
            Stab("SLINE", 2), Stab("SO", 12)>>)}
=============================================================================
