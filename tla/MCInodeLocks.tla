---------------------------- MODULE MCInodeLocks ----------------------------
EXTENDS InodeLocks, TLC

Sym == Permutations(Caller)

OnPath(op, path) == [op |-> op, path |-> path]
LinkTo(old, new) == [op |-> "link", path |-> old, new |-> new]

MCNameCalls ==
  {OnPath("create", <<"d", "a">>), OnPath("unlink", <<"d", "a">>), OnPath("unlink", <<"d">>),
   OnPath("mkdir", <<"d">>), OnPath("chdir", <<"d", "a">>), OnPath("open", <<"..">>),
   OnPath("close", <<>>), LinkTo(<<"d", "a">>, <<"b">>), LinkTo(<<"d", "a">>, <<"d">>)}

=============================================================================
