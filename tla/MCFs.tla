-------------------------------- MODULE MCFs --------------------------------
EXTENDS FsTests

File1(name) == [name |-> name, data |-> <<name>>]

MCTestDisk == Image(<<File1("echo"), File1("cat"), File1("README")>>)
MCDisks    == {MCTestDisk, Image(<<File1("echo"), File1("cat"), File1("README"), File1("ls"),
                            [name |-> "sh", data |-> Units("s", 9)]>>)}

ASSUME \A d \in MCDisks : RootHasNoHole(d)

MCTests == DOMAIN Programs \cup {"any"}
MCAny   == {"any"}

MCCalls ==
  {Open(<<"a">>, CREATE \cup RDWR), Mkdir(<<"a">>), Chdir(<<"a">>), Chdir(<<"..">>),
   Unlink(<<"a">>), Unlink(<<"..", "a">>), Link(<<"a">>, <<"b">>), Mknod(<<"c">>),
   Close(0), [op |-> "crash"], [op |-> "fork"],
   [op |-> "write", fd |-> 0, data |-> Units("x", 5)]}

=============================================================================
