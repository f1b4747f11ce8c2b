----------------------- MODULE MCResourceReservations -----------------------
(* Two readers of a directory and a writer below it; the later reader also *)
(* wants the writer's port.                                                *)
EXTENDS ResourceReservations

CONSTANTS r1, r2, reader, writer, later

MCRuns == {r1, r2}
MCRequests == {reader, writer, later}
MCRunOf == [q \in Requests |-> IF q \in {reader, later} THEN r1 ELSE r2]
MCKinds == {"directory", "port"}
MCIds == {<<"repo", "shared">>, <<"repo", "shared", "output">>, <<"8080">>}
Claim(kind, id, access) == [kind |-> kind, id |-> id, access |-> access]
MCClaimsOf ==
    [q \in Requests |->
        CASE q = reader -> {Claim("directory", <<"repo", "shared">>, "shared")}
          [] q = writer -> {Claim("directory", <<"repo", "shared", "output">>, "exclusive"),
                            Claim("port", <<"8080">>, "exclusive")}
          [] q = later  -> {Claim("directory", <<"repo", "shared">>, "shared"),
                            Claim("port", <<"8080">>, "exclusive")}]
=============================================================================
