--------------------------- MODULE MCControlPlane ---------------------------
(***************************************************************************)
(* Small instances of ControlPlane.  The set-up runs start from rooms whose *)
(* host has registered and which one player has joined, a state reached by *)
(* create_room, register_candidate and join_room, so that the bounded      *)
(* number of requests goes to the interleavings that follow.               *)
(***************************************************************************)
EXTENDS ControlPlane, TLC

CONSTANTS room1, host1, player1, nonce1, nonce2, name1, name2

SetUpSymmetry == Permutations(PeerIds \ {host1, player1})
                   \union Permutations(Nonces \ {nonce1, nonce2})
                   \union Permutations(Slots)

\* room1 after create_room by host1, its register_candidate, and player1's
\* join_room, all answered, at clock 0.
SetUpInit ==
    /\ clock = 0
    /\ room  = [r \in Rooms |-> IF r = room1 THEN [host |-> host1, expires |-> Lease]
                                ELSE NoItem]
    /\ peer  = [r \in Rooms |-> [p \in PeerIds |->
                  IF r # room1 THEN NoItem
                  ELSE IF p = host1 THEN [NewPeer(HostVip, name1, nonce1, 0) EXCEPT !.registered = TRUE]
                  ELSE IF p = player1 THEN NewPeer(1, name2, nonce2, 0)
                  ELSE NoItem]]
    /\ vip   = [r \in Rooms |-> [v \in Vips |->
                  IF r # room1 THEN NoItem
                  ELSE IF v = HostVip THEN host1 ELSE IF v = 1 THEN player1 ELSE NoItem]]
    /\ name  = [r \in Rooms |-> [k \in Names |->
                  IF r # room1 THEN NoItem
                  ELSE IF k = name1 THEN host1 ELSE IF k = name2 THEN player1 ELSE NoItem]]
    /\ pair  = [r \in Rooms |-> {}]
    /\ nonce = [n \in Nonces |->
                  IF n = nonce1 THEN [room |-> room1, peer |-> host1]
                  ELSE IF n = nonce2 THEN [room |-> room1, peer |-> player1] ELSE NoItem]
    /\ req   = [s \in Slots |-> Blank]
    /\ retired = {}
    /\ served  = 0

SetUpSpec == SetUpInit /\ [][Next]_vars

=============================================================================
