----------------------------- MODULE MCUpstream -----------------------------
(* What threads wait for: instances of IdAllocator, Imports, ModuleSearch and    *)
(* Latch for TLC, one component per behaviour.  One thread of the master and     *)
(* four in two children need context IDs; a chain of contexts M, P, K with a     *)
(* thread importing in P and one in K; a small sys.path, with 288 programs and   *)
(* 256 contents of sys.modules; three threads that get() without a timeout and   *)
(* put() two items, so that one sleeper leaves while another is chosen and the   *)
(* third is in the middle of put().                                              *)
EXTENDS IdAllocator, Imports, ModuleSearch, Latch, TLC

CONSTANTS m1, a1, a2, a3, b1, A, B, t1, t2, t3

MCIdHome == m1 :> Master @@ a1 :> A @@ a2 :> A @@ a3 :> A @@ b1 :> B

MCAbove == "P" :> "M" @@ "K" :> "P"
MCHome == "tp" :> "P" @@ "tk" :> "K"
\* pk is a package with the submodules sub and blk, which is blacklisted; use is a
\* package with the submodule bad, for which building the answer fails; gone has no source.
MCRelated == "pk" :> <<"sub", "blk">> @@ "sub" :> <<"pk">> @@ "use" :> <<"bad">>
             @@ "bad" :> <<>> @@ "blk" :> <<>> @@ "gone" :> <<>>
MCTop == [m \in DOMAIN MCRelated |-> CASE m \in {"sub", "blk"} -> "pk" [] m = "bad" -> "use" [] OTHER -> m]
MCPreloads == {<<"K", "sub">>}
MCLocal == {<<"P", "gone">>}

a == <<"a">>
ab == <<"a", "b">>
ac == <<"a", "c">>
acd == <<"a", "c", "d">>
nat == <<"nat">>    \* an extension module
lib == <<"lib">>
main == <<"__main__">>
MCNames == {a, ab, ac, acd, nat, lib, main}
MCDisk == a :> "pkg" @@ ab :> "py" @@ ac :> "pkg" @@ acd :> "py" @@ nat :> "so" @@ lib :> "py" @@ main :> "py"
MCStdLib == {lib}
Import(l, m, n) == [level |-> l, mod |-> m, names |-> n]
MCPrograms ==
  {(a :> ia @@ ab :> iab @@ ac :> iac @@ acd :> iacd @@ lib :> ilib @@ nat :> <<>> @@ main :> <<Import(0, ac, {"d"})>>) :
    ia \in {<<>>, <<Import(1, <<"b">>, {"f"})>>, <<Import(-1, <<"c">>, {"d"})>>},
    iab \in {<<>>, <<Import(1, <<"c", "d">>, {}), Import(0, lib, {})>>, <<Import(2, <<"x">>, {})>>,
             <<Import(0, nat, {}), Import(1, <<"c">>, {"d"})>>},
    iac \in {<<>>, <<Import(2, <<"b">>, {})>>, <<Import(1, <<"d">>, {"z"})>>, <<Import(1, <<>>, {"d"})>>},
    iacd \in {<<>>, <<Import(2, <<"b">>, {"c"})>>, <<Import(0, <<"a">>, {"b"}), Import(1, <<"d">>, {})>>},
    ilib \in {<<>>, <<Import(0, nat, {})>>}}
MCResidents == {f \in [MCNames -> {"good", "junk", "alien", "absent"}] : \A m \in {nat, lib, main} : f[m] = "good"}

MCTampered == [m \in MCNames |-> IF m \in {nat, lib, main} THEN "good" ELSE "alien"]

MCSearchPath == << <<"custom">>, <<"builtin">> >>
MCFiles == <<"builtin", "u">> :> "pkg" @@ <<"builtin", "u", "v">> :> "py" @@ <<"builtin", "u", "p">> :> "pkg"
           @@ <<"builtin", "u", "p", "q">> :> "py" @@ <<"builtin", "w">> :> "py"
           @@ <<"custom", "w">> :> "py" @@ <<"custom", "t">> :> "py"
MCUtilImports ==
  <<"m1">> :> << <<"u", "p", "q">> >> @@ <<"m2">> :> << <<"none">>, <<"t">> >> @@ <<"m3">> :> << <<"u", "v">>, <<"w">> >>
  @@ <<"builtin", "u">> :> << <<"w", "fn">> >> @@ <<"builtin", "u", "v">> :> << <<"u", "w">> >>
  @@ <<"builtin", "u", "p">> :> <<>> @@ <<"builtin", "u", "p", "q">> :> << <<"u", "v", "g">> >>
  @@ <<"builtin", "w">> :> <<>> @@ <<"custom", "w">> :> << <<"t">> >> @@ <<"custom", "t">> :> <<>>
MCScanRequests == {[name |-> "m", path |-> <<"m1">>], [name |-> "m", path |-> <<"m2">>], [name |-> "n", path |-> <<"m3">>]}

VARIABLE part   \* the component that runs

AllInit ==
  /\ IdInit /\ ImportsInit /\ SearchInit /\ Init
  /\ part \in {"ids", "imports", "search", "latch"}
  /\ part # "search" => sysModules = MCTampered /\ \A m \in DOMAIN imports : m # main => imports[m] = <<>>
AllNext == \/ part = "ids" /\ IdNext /\ UNCHANGED <<importsVars, searchVars, vars, part>>
           \/ part = "imports" /\ ImportsNext /\ UNCHANGED <<idVars, searchVars, vars, part>>
           \/ part = "search" /\ SearchNext /\ UNCHANGED <<idVars, importsVars, vars, part>>
           \/ part = "latch" /\ Next /\ UNCHANGED <<idVars, importsVars, searchVars, part>>
AllSpec == AllInit /\ [][AllNext]_<<idVars, importsVars, searchVars, vars, part>>
\* The fairness of the component that runs; part comes first, for TLC's sake.
AllFairSpec == /\ AllSpec
               /\ \A t \in IdThreads : WF_idVars(part = "ids" /\ Serve(t))
               /\ \A c \in Children : WF_idVars(part = "ids" /\ OnAllocateId(c))
               /\ WF_importsVars(part = "imports" /\ Brokers)
               /\ \A t \in Threads : /\ WF_vars(part = "latch" /\ PollReadable(t))
                                          /\ WF_vars(part = "latch" /\ GetWake(t))
                                          /\ WF_vars(part = "latch" /\ PutWake(t))

\* What is asked of those above is answered: the lock of an allocator is released, an import ends.
UpstreamLive == LockFreed /\ ImportEnds
=============================================================================
