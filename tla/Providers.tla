----------------------------- MODULE Providers -----------------------------
(***************************************************************************)
(* The AI provider configurations of the administrators: each write is a   *)
(* transaction that writes its row and then disables the other enabled     *)
(* rows of the row's scope.  PostgreSQL runs it at READ COMMITTED: a       *)
(* statement sees the rows committed when it starts, waits for a row that  *)
(* another transaction has written, and holds its rows until the commit.   *)
(* No constraint of the table forbids two enabled rows.                    *)
(***************************************************************************)
EXTENDS Naturals, FiniteSets

CONSTANTS
    Configs,    \* ids of configurations
    Scopes,     \* "global" or a workspace
    Writers     \* bound: administrators' requests at once

VARIABLES
    configs,    \* [Configs -> row or NoConfig], as committed
    writer      \* [Writers -> the request and its transaction]

providerVars == <<configs, writer>>

NoConfig == [scope |-> "none", on |-> FALSE]
Write(st, id, row, off, alone) == [st |-> st, id |-> id, row |-> row, off |-> off, alone |-> alone]
NoWrite == Write("idle", {}, NoConfig, {}, TRUE)

Enabled(table, s) == {c \in Configs : table[c].scope = s /\ table[c].on}

\* the table may hold two enabled rows of a scope from before the rule existed
ProviderInit ==
    /\ configs \in [Configs -> {NoConfig} \cup [scope : Scopes, on : BOOLEAN]]
    /\ writer = [t \in Writers |-> NoWrite]

Open(t) == writer[t].st # "idle"
HeldByOther(t, c) == \E u \in Writers \ {t} : c \in writer[u].off \/ (writer[u].st \in {"written", "swept"} /\ c \in writer[u].id)

\* assertProviderAdmin and validateProviderBaseUrl have passed (a refused request changes nothing)
Begin(t, st, c, row) ==
    /\ ~Open(t)
    /\ writer' = [u \in Writers |-> IF u = t THEN Write(st, {c}, row, {}, ~\E other \in Writers : Open(other))
                                     ELSE [writer[u] EXCEPT !.alone = FALSE]]

\* POST /admin/ai-providers: createProviderConfig inserts its row
PostProvider(t, c, s, on) ==
    /\ configs[c] = NoConfig /\ \A u \in Writers : c \notin writer[u].id
    /\ Begin(t, "written", c, [scope |-> s, on |-> on])
    /\ UNCHANGED configs

\* PATCH /admin/ai-providers/:id has found the row; `on` is what the body asks for, if anything
PatchProvider(t, c, on) ==
    /\ configs[c] # NoConfig
    /\ Begin(t, "patching", c, [scope |-> "none", on |-> on])
    /\ UNCHANGED configs

\* updateProviderConfig writes the row, whose other fields are as last committed
UpdateProviderConfig(t, asked) ==
    \E c \in writer[t].id :
      /\ writer[t].st = "patching" /\ ~HeldByOther(t, c)
      /\ LET row == [scope |-> configs[c].scope, on |-> IF asked THEN writer[t].row.on ELSE configs[c].on]
         IN writer' = [writer EXCEPT ![t] = Write("written", {c}, row, {}, writer[t].alone)]
      /\ UNCHANGED configs

Swept(t, off) == [writer EXCEPT ![t] = Write("swept", writer[t].id, writer[t].row, off, writer[t].alone)]
Siblings(t) == Enabled(configs, writer[t].row.scope) \ writer[t].id

\* for the mutant: a row that was enabled already does not demote the others
DisableSiblingsOfEnabled(t) ==
    /\ writer[t].st = "written"
    /\ \A c \in Siblings(t) : ~HeldByOther(t, c)
    /\ writer' = Swept(t, IF writer[t].row.on /\ writer[t].id \cap Enabled(configs, writer[t].row.scope) = {}
                          THEN Siblings(t) ELSE {})
    /\ UNCHANGED configs

\* disableSiblingConfigs, when the written row is enabled
DisableSiblingConfigs(t) ==
    /\ writer[t].st = "written"
    /\ writer[t].row.on => \A c \in Siblings(t) : ~HeldByOther(t, c)
    /\ writer' = Swept(t, IF writer[t].row.on THEN Siblings(t) ELSE {})
    /\ UNCHANGED configs

CommitWrite(t) ==
    /\ writer[t].st = "swept"
    /\ configs' = [c \in Configs |-> IF c \in writer[t].id THEN writer[t].row
                                     ELSE IF c \in writer[t].off THEN [configs[c] EXCEPT !.on = FALSE] ELSE configs[c]]
    /\ writer' = [writer EXCEPT ![t] = NoWrite]

\* a failed statement, the victim of a deadlock, a lost connection: withTx rolls back
RollBack(t) == Open(t) /\ writer' = [writer EXCEPT ![t] = NoWrite] /\ UNCHANGED configs

ProviderNext == \E t \in Writers :
    \/ \E c \in Configs, s \in Scopes, on \in BOOLEAN : PostProvider(t, c, s, on)
    \/ \E c \in Configs, on \in BOOLEAN : PatchProvider(t, c, on)
    \/ \E asked \in BOOLEAN : UpdateProviderConfig(t, asked)
    \/ DisableSiblingConfigs(t) \/ CommitWrite(t) \/ RollBack(t)

ProviderSpec == ProviderInit /\ [][ProviderNext]_providerVars

-----------------------------------------------------------------------------
\* A write that ran alone and left its row enabled leaves it the only enabled row of its scope, whatever
\* the scope held before and whether or not the request spoke of `enabled` (disableSiblingConfigs).
WriteConverges ==
    [][\A t \in Writers : CommitWrite(t) /\ writer[t].alone /\ writer[t].row.on
         => Enabled(configs', writer[t].row.scope) = writer[t].id]_providerVars
=============================================================================
