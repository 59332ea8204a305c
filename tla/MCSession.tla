------------------------------ MODULE MCSession ------------------------------
(* Session with three ways of starting the tool: with sudo, as a set-user-id *)
(* program of root, and as an ordinary program.                              *)
EXTENDS Session

CONSTANT User

LoginsValue ==
    {[ruid |-> Root, rgid |-> Root, suid |-> Root, sgid |-> Root],
     [ruid |-> User, rgid |-> User, suid |-> Root, sgid |-> User],
     [ruid |-> User, rgid |-> User, suid |-> User, sgid |-> User]}
=============================================================================
