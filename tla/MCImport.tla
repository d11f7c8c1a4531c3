------------------------------- MODULE MCImport -------------------------------
(* Import for TLC: a script, a module beside it, and a library that has one  *)
(* module of the same name and can also reach the first.                     *)
EXTENDS Import, TLC

CONSTANTS main, w1

MCThreads == {main, w1}

Home   == <<"home">>
Bin    == <<"usr", "bin">>
Script == Home \o <<"s", ".ar">>
A      == Home \o <<"a", ".ar">>
Lib    == Home \o <<"argon_modules", "lib", "init", ".ar">>
LibA   == <<"usr", "stdlib", "a", "init", ".ar">>

MCFiles == {Script, A, Lib, LibA}

\* From home, a is the file there; from lib it is the one beside the interpreter.
MCNames == {<<"s">>, <<"a">>, <<"lib">>, <<"..", "..", "a">>,
            <<"/", "usr", "stdlib", "a">>}
===============================================================================
