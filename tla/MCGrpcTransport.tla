-------------------------- MODULE MCGrpcTransport --------------------------
(* Small frames for GrpcTransport: every shape the codec tells apart.      *)
EXTENDS GrpcTransport

Plain(body) == [kind |-> "plain", body |-> body]
Hunk      == Plain(<<"tag", "data">>)
EmptyHunk == Plain(<<"tag">>)
EmptyMsg  == Plain(<<>>)
MultiHunk == Plain(<<"tag", "data", "tag", "data">>)
Huge      == Plain(<<"tag", "data", "data", "data", "data">>)
Malformed  == [kind |-> "malformed", body |-> <<"tag">>]
Compressed == [kind |-> "compressed", body |-> <<"tag">>]

MCScripts == {<<EmptyMsg, MultiHunk>>, <<Hunk, EmptyHunk>>, <<Hunk, Malformed>>, <<Compressed>>, <<Huge>>}
=============================================================================
