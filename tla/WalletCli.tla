------------------------------ MODULE WalletCli ------------------------------
(***************************************************************************)
(* The start-up of the wallet CLI, src/cmd/still-wallet-cli/wallet.go:     *)
(* main's -open-wallet path, the interactive initialPrompt loop that opens, *)
(* creates or restores a wallet file, and the wallet RPC server start.     *)
(*                                                                         *)
(* Each ReadLine is one step whose result is any line of a small alphabet  *)
(* or a read error (EOF, ^C).  A line is a sequence of symbols: words,     *)
(* which never contain a space, and the space Sp; a word's ToLower is      *)
(* given by the constant Lower.  The wallet package is not in this source  *)
(* tree: OpenWalletFile succeeds when the file exists with the password,   *)
(* CreateWalletFile and CreateWalletFileFromMnemonic fail on an existing   *)
(* file, and a mnemonic is valid or not.                                   *)
(***************************************************************************)
EXTENDS Integers, Sequences, SequencesExt, FiniteSets

CONSTANTS
    Words,      \* the words lines are made of
    Lower,      \* strings.ToLower on a word
    Sp,         \* the space character
    Bad,        \* the characters of "/. \\$" the -open-wallet check rejects
    Passwords,  \* passwords a user may type (the empty one among them)
    Empty,      \* the empty password, returned with a read error
    MaxLine,    \* longest line typed
    ShortAuth, LongAuth, \* -rpc-auth values below and at least 7 bytes
    Files0      \* the wallet files on disk at start: name -> password

Lines == UNION {[1..n -> Words \cup {Sp}] : n \in 0..MaxLine}

\* strings.ReplaceAll(line, "  ", " "): non-overlapping, left to right.
RECURSIVE ReplaceDoubleSpace(_)
ReplaceDoubleSpace(s) ==
    IF Len(s) < 2 THEN s
    ELSE IF s[1] = Sp /\ s[2] = Sp THEN <<Sp>> \o ReplaceDoubleSpace(SubSeq(s, 3, Len(s)))
    ELSE <<s[1]>> \o ReplaceDoubleSpace(Tail(s))

\* strings.Split(s, " "): the pieces between spaces, empty ones included.
RECURSIVE SplitFrom(_, _)
SplitFrom(s, cur) ==
    IF s = <<>> THEN <<cur>>
    ELSE IF Head(s) = Sp THEN <<cur>> \o SplitFrom(Tail(s), <<>>)
    ELSE SplitFrom(Tail(s), Append(cur, Head(s)))

ToLower(s) == [i \in DOMAIN s |-> IF s[i] = Sp THEN Sp ELSE Lower[s[i]]]

\* cmds := strings.Split(strings.ToLower(strings.ReplaceAll(line, "  ", " ")), " ")
ParseCommand(line) == SplitFrom(ToLower(ReplaceDoubleSpace(line)), <<>>)

Command(w) == <<Lower[w]>>
Commands == {Command("open"), Command("create"), Command("restore")}

VARIABLES
    pc,        \* where main / initialPrompt is
    cmds,      \* the parsed command line, with the wallet name appended
    password,  \* the first password read
    confirm,   \* the repeated password read
    files,     \* wallet files on disk: name -> password
    created,   \* [name, password, confirm] of every file the prompt created
    wallet,    \* the wallet initialPrompt returned: [name, password]
    rpcAuth    \* the auth the RPC server was started with, or "none"
vars == <<pc, cmds, password, confirm, files, created, wallet, rpcAuth>>

Init ==
    /\ pc = "main"
    /\ cmds = <<>>
    /\ password = Empty
    /\ confirm = Empty
    /\ files = Files0
    /\ created = {}
    /\ wallet = "none"
    /\ rpcAuth = "none"

OpenWalletFile(name, pw) == name \in DOMAIN files /\ files[name] = pw

\* main with -open-wallet: names with a character of "/. \\$" are fatal, as
\* is a failed open; without the flag, initialPrompt runs.
OpenFlag ==
    /\ pc = "main"
    /\ \E name \in Lines \ {<<>>}, pw \in Passwords :
          \/ /\ \E i \in DOMAIN name : name[i] \in Bad \cup {Sp}
             /\ pc' = "exit" /\ UNCHANGED wallet
          \/ /\ \A i \in DOMAIN name : name[i] \notin Bad \cup {Sp}
             /\ IF OpenWalletFile(name, pw)
                THEN pc' = "loaded" /\ wallet' = [name |-> name, password |-> pw]
                ELSE pc' = "exit" /\ UNCHANGED wallet
    /\ UNCHANGED <<cmds, password, confirm, files, created, rpcAuth>>

NoFlag == pc = "main" /\ pc' = "menu" /\ UNCHANGED <<cmds, password, confirm, files, created, wallet, rpcAuth>>

\* The command prompt: a read error exits; an unknown command loops; a
\* command without a name asks for one.
ReadCommand ==
    /\ pc = "menu"
    /\ \/ pc' = "exit" /\ UNCHANGED cmds
       \/ \E line \in Lines :
             LET c == ParseCommand(line) IN
             \/ c[1] \notin Commands /\ UNCHANGED <<pc, cmds>>
             \/ c[1] \in Commands /\ cmds' = c
                /\ pc' = IF Len(c) = 1 THEN "name" ELSE "password"
    /\ UNCHANGED <<password, confirm, files, created, wallet, rpcAuth>>

\* "Wallet name: ": the raw line, neither split nor lowered.
ReadName ==
    /\ pc = "name"
    /\ \/ pc' = "exit" /\ UNCHANGED cmds
       \/ pc' = "menu" /\ UNCHANGED cmds
       \/ \E filename \in Lines \ {<<>>} :
             cmds' = Append(cmds, filename) /\ pc' = "password"
    /\ UNCHANGED <<password, confirm, files, created, wallet, rpcAuth>>

\* "Wallet password: ": a read error is only logged and the empty password
\* is used.  For open, OpenWalletFile(cmds[1]+".keys") follows at once.
ReadPassword ==
    /\ pc = "password"
    /\ \E pw \in Passwords :
          /\ password' = pw
          /\ IF cmds[1] = Command("open")
             THEN IF OpenWalletFile(cmds[2], pw)
                  THEN pc' = "loaded" /\ wallet' = [name |-> cmds[2], password |-> pw]
                  ELSE pc' = "menu" /\ UNCHANGED wallet
             ELSE pc' = "confirm" /\ UNCHANGED wallet
    /\ UNCHANGED <<cmds, confirm, files, created, rpcAuth>>

CreateFile(name, pw, again) ==
    /\ name \notin DOMAIN files
    /\ files' = files @@ (name :> pw)
    /\ created' = created \cup {[name |-> name, password |-> pw, confirm |-> again]}
    /\ wallet' = [name |-> name, password |-> pw]
    /\ pc' = "loaded"

\* "Repeat password: ": a read error loops; a mismatch is only logged; then
\* create writes the file, restore asks for the seed.
ReadConfirm ==
    /\ pc = "confirm"
    /\ \/ pc' = "menu" /\ UNCHANGED <<confirm, files, created, wallet>>
       \/ \E again \in Passwords :
             /\ confirm' = again
             /\ IF cmds[1] = Command("create")
                THEN \/ CreateFile(cmds[2], password, again)
                     \/ cmds[2] \in DOMAIN files /\ pc' = "menu"
                        /\ UNCHANGED <<files, created, wallet>>
                ELSE pc' = "mnemonic" /\ UNCHANGED <<files, created, wallet>>
    /\ UNCHANGED <<cmds, password, rpcAuth>>

\* "Mnemonic seed: ": a read error exits; an invalid seed or an existing
\* file loops.
ReadMnemonic ==
    /\ pc = "mnemonic"
    /\ \/ pc' = "exit" /\ UNCHANGED <<files, created, wallet>>
       \/ pc' = "menu" /\ UNCHANGED <<files, created, wallet>>
       \/ CreateFile(cmds[2], password, confirm)
    /\ UNCHANGED <<cmds, password, confirm, rpcAuth>>

\* main after a wallet is loaded: with -rpc-bind-port set, a short
\* -rpc-auth is only logged and the server starts with it.
StartRpc ==
    /\ pc = "loaded"
    /\ pc' = "running"
    /\ \E port \in {0, 1}, auth \in {ShortAuth, LongAuth} :
          rpcAuth' = IF port # 0 THEN auth ELSE "none"
    /\ UNCHANGED <<cmds, password, confirm, files, created, wallet>>

Next ==
    \/ OpenFlag \/ NoFlag \/ ReadCommand \/ ReadName \/ ReadPassword
    \/ ReadConfirm \/ ReadMnemonic \/ StartRpc
    \/ pc \in {"exit", "running"} /\ UNCHANGED vars

Spec == Init /\ [][Next]_vars

-----------------------------------------------------------------------------
\* The prompt's "password doesn't match" error: a wallet file created by
\* create or restore is encrypted with a password the user typed twice.
CreatedWithConfirmedPassword ==
    \A c \in created : c.confirm = c.password

\* Only names the -open-wallet check would accept become wallet files: no
\* empty name (the prompt's "wallet name is too short") and no separator.
WalletNamesValid ==
    \A name \in DOMAIN files : name # <<>> /\ \A i \in DOMAIN name : name[i] \notin Bad \cup {Sp}
=============================================================================
