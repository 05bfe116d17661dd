---------------------------- MODULE MCRunRequests ----------------------------
(* Values of the constants of RunRequests for TLC.                         *)
EXTENDS RunRequests

ParamLists == {<<>>, <<"x">>, <<" ">>, <<"x", "y">>, <<"x", " x">>, <<" x", "x", "y">>}

(* No list, an empty one, or a list of one test.                           *)
TestLists(names, params) ==
    {<<>>, << <<>> >>}
        \cup {<< <<test>> >> : test \in [name : names, params : params]}

AllRequests ==
    [preset  : {<<>>, <<"x">>, <<" x">>, <<" ">>, <<"y">>},
     threads : {<<0>>, <<2>>},
     basic   : TestLists({" x", " "}, ParamLists),
     custom  : TestLists(Paths, {<<>>, <<"x">>, <<"x", " x">>}),
     prompts : {<<>>, << <<" ">> >>, << <<" x", " ">> >>},
     path    : {<<>>, <<"d">>, <<"..">>}]
=============================================================================
