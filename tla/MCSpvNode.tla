----------------------------- MODULE MCSpvNode -----------------------------
(* One message of each sort that matters for the buffers, in a few bytes. *)
EXTENDS SpvNode, TLC

CONSTANTS hello, inv, addr, refused, garbage

\* The reply to `inv` is longer than the window; `hello` and `inv` can arrive in
\* one read() or in five.
FewMessages == {hello, inv, addr, refused, garbage}
FewKinds == hello :> "version" @@ inv :> "inv" @@ addr :> "addr" @@
            refused :> "refused" @@ garbage :> "unknown"
FewLengths == [m \in FewMessages \cup ReplyNames |->
                 IF m = "getdata" THEN 3 ELSE IF m \in {inv, "version"} THEN 1 ELSE 0]
=============================================================================
