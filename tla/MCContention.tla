---------------------------- MODULE MCContention ----------------------------
(***************************************************************************)
(* The components where several processes, handlers or tasks contend for   *)
(* the same rows or files, for TLC: the turns driven through the direct    *)
(* API, the commands of the HTTP service, the file tools, the session      *)
(* catalogue, the follow-up mailbox with its faults, and the reminder of a *)
(* session.  As in MCComponents one of them moves in each behaviour.       *)
(***************************************************************************)
EXTENDS DirectTurns, CommandService, FileTools, Catalog, SessionMailbox, Reminders, TLC

VARIABLE focus

(* Holders, attempts, callers, tasks and writers share their names, and so do
   effects, servers, prompts and reminders: exchanging two names renames all of
   them at once. *)
ContentionSymmetry == Permutations(Holders) \cup Permutations(Asked)

contentionVars == <<focus, directVars, serviceVars, fileVars, catalogVars,
                    mailboxVars, remindersVars>>

(* A component that does not move begins in one of its initial states only. *)
ContentionInit ==
    /\ focus \in {"direct", "service", "files", "catalog", "mailbox", "reminder"}
    /\ DirectInit /\ ServiceInit /\ FileInit /\ CatalogInit /\ MailboxInit
    /\ RemindersInit
    /\ focus # "service" => db = NoSession
    /\ focus # "files" => inside = 0 /\ ~denyGlob
    /\ focus # "mailbox" => ~disturbed

(* The components other than the chosen one. *)
Still ==
    /\ UNCHANGED focus
    /\ focus # "direct" => UNCHANGED directVars
    /\ focus # "service" => UNCHANGED serviceVars
    /\ focus # "files" => UNCHANGED fileVars
    /\ focus # "catalog" => UNCHANGED catalogVars
    /\ focus # "mailbox" => UNCHANGED mailboxVars
    /\ focus # "reminder" => UNCHANGED remindersVars

ContentionNext ==
    /\ \/ focus = "direct" /\ DirectNext
       \/ focus = "service" /\ ServiceNext
       \/ focus = "files" /\ FileNext
       \/ focus = "catalog" /\ CatalogNext
       \/ focus = "mailbox" /\ MailboxNext
       \/ focus = "reminder" /\ RemindersNext
    /\ Still

ContentionSpec == ContentionInit /\ [][ContentionNext]_contentionVars

(* The commands of the service take effect once and their answers agree
   (CommandServiceCorrect; only where the service moves, to save its cost). *)
ServiceCorrect == focus = "service" => CommandServiceCorrect

(* What waits in the memory of one process for the next turn is neither lost nor
   used twice: the queued prompts (MailboxCorrect) and the armed reminder
   (RemindersCorrect); each only where it moves. *)
WaitingIsKept ==
    /\ focus = "mailbox" => MailboxCorrect
    /\ focus = "reminder" => RemindersCorrect

(* What no step does, in the three components that promise it: a direct turn
   takes no report of a holder whose lease was taken over (NoLateReport) and
   completes only on a verification of the tree as it is (CompletedIsChecked);
   an edit of a file discards nothing but what was written in the window
   between its check and its rename (OnlyTheWindowIsLost). *)
NoStaleStep == NoLateReport /\ CompletedIsChecked /\ OnlyTheWindowIsLost
=============================================================================
