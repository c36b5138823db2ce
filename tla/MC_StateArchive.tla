-------------------------- MODULE MC_StateArchive ---------------------------
EXTENDS StateArchive

\* Two files of one name and one with the name the second is given; one with the name
\* that is made up for the second; one named like the first call's staging file.
MCDrops ==
    LET x == Name(<< >>, "x", << >>)
    IN  {<<x, x, Name(<<1>>, "x", << >>)>>,
         <<Name(<< >>, "file", <<1>>), Name(<< >>, "..", << >>)>>,
         <<Name(<< >>, ".part", <<1>>)>>}
=============================================================================
