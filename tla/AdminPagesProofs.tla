-------------------------- MODULE AdminPagesProofs --------------------------
(*************************************************************************)
(* The seven invariants of AdminPages, and its types, for every bound    *)
(* and any number of rows, for all pages at once.                        *)
(*                                                                       *)
(* All of them rest on Shape: what the types of the state are, that the  *)
(* forms there are belong to what is mounted, that a dialog which is     *)
(* open is one that opens, and that a handler knows its component for as *)
(* long as that is mounted.  TaskNext and FormNext then say once what a  *)
(* step can do to a handler and to a form; each property has an          *)
(* invariant of its own that relates the two (Answering, Listed, Filled, *)
(* Aimed, Viewed, Created, Paged).                                       *)
(*                                                                       *)
(* The last part is about the shell around the pages (Sidebar): its four *)
(* invariants, which rest on ShellKnown.                                 *)
(*************************************************************************)
EXTENDS AdminPages, Sidebar, FiniteSetTheorems, WellFoundedInduction, TLAPS

-----------------------------------------------------------------------------
(* What the code of the pages and their components says                  *)
(* (AdminComponents), as far as the proofs need it: by cases, one per    *)
(* component and page.                                                   *)

(* The lists of steps that follow an answer.                             *)
Thens ==
  {<<>>, <<"show">>, <<"reset">>, <<"done">>, <<"close">>, <<"await">>, <<"invalidate">>,
   <<"reset", "close">>, <<"await", "close">>, <<"invalidate", "close">>, <<"reset", "invalidate">>,
   <<"close", "invalidate">>, <<"await", "reset", "close">>, <<"invalidate", "reset", "close">>}

Fails == {<<>>, <<"done">>, <<"invalidate">>, <<"invalidate", "reset", "close">>}

(* The dialogs that keep their fields when they are opened again.        *)
Keeping ==
  {"CreateMenuDialog", "CreateRoleDialog", "CreateDictDialog", "CreateDictItemDialog",
   "CreateParamDialog"}

(* The forms there is one of in each row.                                *)
RowForms ==
  {"EditUserDialog", "ResetPasswordDialog", "EditJobDialog", "EditMenuDialog", "EditRoleDialog",
   "PermissionsForm", "EditDictDialog", "EditDictItemDialog", "EditParamDialog", "EditApiDialog",
   "SiteSettingsForm", "ProfileForm", "EditProductDialog"}

(* What a component is: what it does, where it is, and from what it is   *)
(* filled.                                                               *)
KindFact(d) ==
  /\ Dialog[d].does \in {"insert", "update", "delete", "clean", "other", "view", "search"}
  /\ Dialog[d].per \in {"page", "row"}
  /\ Dialog[d].modal \in BOOLEAN
  /\ Dialog[d].lock \in BOOLEAN
  /\ Dialog[d].fresh \in BOOLEAN
  /\ Dialog[d].seed \in {"none", "blank", "mount", "open", "tracks", "effect", "copy"}
  /\ Dialog[d].guard \in {"none", "pending", "submitting"}
  /\ Dialog[d].does \in {"insert", "clean", "view", "search"} => Dialog[d].per = "page"
  /\ Dialog[d].does = "update" /\ Dialog[d].seed # "none" =>
       /\ Dialog[d].per = "row"
       /\ Dialog[d].seed \in {"mount", "open", "tracks", "effect"}
  /\ Dialog[d].seed = "effect" => d \in {"SiteSettingsForm", "PermissionsForm"}
  /\ Dialog[d].seed = "copy" => Dialog[d].does = "view"
  /\ Dialog[d].seed = "open" => Dialog[d].modal
  /\ Dialog[d].does = "insert" /\ Dialog[d].fresh => Dialog[d].seed = "open"
  /\ Dialog[d].per = "row" /\ Dialog[d].seed # "none" => d \in RowForms
  /\ Dialog[d].does = "update" /\ (Dialog[d].seed = "open" \/ (~Dialog[d].modal /\ Dialog[d].seed # "none")) =>
       d \in {"EditApiDialog", "EditProductDialog", "ProfileForm", "SiteSettingsForm"}

(* What follows an answer: a view shows it, and whatever changes the     *)
(* rows of a list has that fetched again.                                *)
StepsFact(d) ==
  /\ Dialog[d].then \in Thens
  /\ Dialog[d].fails \in Fails
  /\ Dialog[d].does = "view" =>
       /\ Dialog[d].seed = "copy"
       /\ Dialog[d].then \in {<<>>, <<"show">>}
       /\ Dialog[d].then = IF Dialog[d].modal THEN <<"show">> ELSE <<>>
       /\ Dialog[d].fails = <<>>
  /\ Dialog[d].does # "view" => Dialog[d].then # <<"show">>
  /\ Dialog[d].does \in {"insert", "update", "delete", "clean"} =>
       \/ d \in {"PermissionsForm", "ForgotPasswordForm"}
       \/ Dialog[d].then \in Thens \ {<<>>, <<"show">>, <<"reset">>, <<"done">>, <<"close">>, <<"reset", "close">>}
  /\ Dialog[d].does = "update" /\ Dialog[d].seed # "none" =>
       /\ Dialog[d].then \in {<<"await">>, <<"await", "close">>, <<"invalidate", "close">>,
                              <<"close", "invalidate">>, <<"close">>}
       /\ Dialog[d].fails = <<>>
  /\ <<"done">> \in {Dialog[d].then, Dialog[d].fails} =>
       /\ Dialog[d].guard = "pending" /\ ~Dialog[d].modal
       /\ Dialog[d].then = <<"done">> /\ Dialog[d].per = "page"

(* The five ways in which a form that creates is kept from creating      *)
(* twice.                                                                *)
InsertFact(d) ==
  Dialog[d].does = "insert" /\ Dialog[d].seed # "none" /\ d \notin Keeping =>
    \/ /\ Dialog[d].guard = "submitting" /\ Dialog[d].seed = "blank"
       /\ Dialog[d].then = <<"await", "reset", "close">> /\ Dialog[d].fails = <<>>
    \/ /\ Dialog[d].guard = "submitting" /\ Dialog[d].seed = "blank"
       /\ Dialog[d].then = <<"invalidate", "reset", "close">> /\ Dialog[d].fails = Dialog[d].then
    \/ /\ Dialog[d].guard = "pending" /\ Dialog[d].seed = "blank"
       /\ Dialog[d].then = <<"done">> /\ Dialog[d].fails = <<"done">>
    \/ /\ Dialog[d].guard = "pending" /\ Dialog[d].seed = "blank"
       /\ Dialog[d].then = <<"reset", "invalidate">> /\ Dialog[d].fails = <<>>
    \/ /\ Dialog[d].guard = "pending" /\ Dialog[d].seed = "open"
       /\ Dialog[d].then = <<"close", "invalidate">> /\ Dialog[d].fails = <<>>

(* What a page holds; where the rows are told apart by their place, the  *)
(* only forms in them are the three that cross.                          *)
PageFact(p) ==
  /\ Pages[p].holds \subseteq DOMAIN Dialog
  /\ Pages[p].key \in {"id", "place", "single"}
  /\ Pages[p].paging \in {"server", "client", "none"}
  /\ Pages[p].query \in {"page", "dialog", "none"}
  /\ Pages[p].folds \in BOOLEAN
  /\ Pages[p].nested \in BOOLEAN
  /\ Pages[p].query = "dialog" => Pages[p].holds = {"PermissionsForm"} /\ Pages[p].key = "single"
  /\ Pages[p].query = "page" =>
       "PermissionsForm" \notin Pages[p].holds /\ "ForgotPasswordForm" \notin Pages[p].holds
  /\ Pages[p].key = "single" =>
       "EditApiDialog" \notin Pages[p].holds /\ "EditProductDialog" \notin Pages[p].holds
  /\ Pages[p].key = "place" =>
       Pages[p].holds \cap RowForms \subseteq {"EditUserDialog", "ResetPasswordDialog", "EditJobDialog"}
  /\ Pages[p].nested =>
       Pages[p].holds \subseteq
         {"CreateDictItemDialog", "EditDictItemDialog", "DeleteDictItemDialog", "DictSelect"}

Fits(d) == KindFact(d) /\ StepsFact(d) /\ InsertFact(d)

LEMMA Names ==
  DOMAIN Dialog =
    {"CreateUserDialog", "DisableTotpButton", "EditUserDialog", "DeleteUserDialog",
     "ResetPasswordDialog", "ImportUsersDialog", "UsersSearch", "DictSelect",
     "SessionsFilter", "ProductsSearch", "JobHistoryDrawer", "MenusSearch", "ApisFilters", "PreviewDialog",
     "FilesSearch", "PluginRow", "OperationLogRow", "OperationLogsFilters",
     "LoginLogsFilters", "CleanErrorLogsDialog", "ErrorLogsFilters",
     "ChangePasswordForm", "ForgotPasswordForm", "ResetPasswordForm",
     "CreateJobDialog", "RunJobButton", "EditJobDialog", "DeleteJobDialog",
     "CreateMenuDialog", "EditMenuDialog", "DeleteMenuDialog",
     "MenuButtonsAdd", "MenuButtonsRemove", "CreateRoleDialog",
     "EditRoleDialog", "DeleteRoleDialog", "PermissionsForm",
     "CreateDictDialog", "EditDictDialog", "DeleteDictDialog",
     "CreateDictItemDialog", "EditDictItemDialog", "DeleteDictItemDialog",
     "CreateParamDialog", "EditParamDialog", "DeleteParamDialog",
     "EditApiDialog", "DeleteApiDialog", "SyncButton", "UploadDialog",
     "DeleteFileDialog", "EnabledSwitch", "InstallButton", "UninstallDialog",
     "RevokeButton", "CleanDialog", "CleanLogsDialog", "SiteSettingsForm",
     "ProfileForm", "CreateProductDialog", "EditProductDialog",
     "RemoveProductButton", "CreateCategory", "RemoveCategoryButton"}
  BY DEF Dialog

LEMMA ComponentFacts == \A d \in DOMAIN Dialog : Fits(d)

<1>1. ASSUME NEW d \in {"RemoveProductButton", "RemoveCategoryButton"}
      PROVE Fits(d)
  <2>1. Dialog[d] = Button("delete", "page", "none", <<"invalidate">>)
    BY DEF Dialog, RemoveCategoryButton, RemoveProductButton
  <2> QED BY <2>1 DEF Fits, KindFact, StepsFact, InsertFact, Thens, Fails,
    Keeping, RowForms, Button

<1>2. ASSUME NEW d \in {"RevokeButton"}
      PROVE Fits(d)
  <2>1. Dialog[d] = Button("delete", "page", "pending", <<"invalidate">>)
    BY DEF Dialog, RevokeButton
  <2> QED BY <2>1 DEF Fits, KindFact, StepsFact, InsertFact, Thens, Fails,
    Keeping, RowForms, Button

<1>3. ASSUME NEW d \in {"SyncButton"}
      PROVE Fits(d)
  <2>1. Dialog[d] = Button("insert", "page", "pending", <<"await">>)
    BY DEF Dialog, SyncButton
  <2> QED BY <2>1 DEF Fits, KindFact, StepsFact, InsertFact, Thens, Fails,
    Keeping, RowForms, Button

<1>4. ASSUME NEW d \in {"RunJobButton"}
      PROVE Fits(d)
  <2>1. Dialog[d] = Button("other", "row", "pending", <<"await">>)
    BY DEF Dialog, RunJobButton
  <2> QED BY <2>1 DEF Fits, KindFact, StepsFact, InsertFact, Thens, Fails,
    Keeping, RowForms, Button

<1>5. ASSUME NEW d \in {"EnabledSwitch"}
      PROVE Fits(d)
  <2>1. Dialog[d] = Button("update", "page", "pending", <<"invalidate">>)
    BY DEF Dialog, EnabledSwitch
  <2> QED BY <2>1 DEF Fits, KindFact, StepsFact, InsertFact, Thens, Fails,
    Keeping, RowForms, Button

<1>6. ASSUME NEW d \in {"DisableTotpButton"}
      PROVE Fits(d)
  <2>1. Dialog[d] = Button("update", "row", "pending", <<"await">>)
    BY DEF Dialog, DisableTotpButton
  <2> QED BY <2>1 DEF Fits, KindFact, StepsFact, InsertFact, Thens, Fails,
    Keeping, RowForms, Button

<1>7. ASSUME NEW d \in {"DeleteUserDialog", "DeleteJobDialog",
          "DeleteDictItemDialog", "DeleteParamDialog", "DeleteApiDialog",
          "DeleteFileDialog"}
      PROVE Fits(d)
  <2>1. Dialog[d] = Confirm(<<"await", "close">>)
    BY DEF Dialog, DeleteApiDialog, DeleteDictItemDialog, DeleteFileDialog,
      DeleteJobDialog, DeleteParamDialog, DeleteUserDialog
  <2> QED BY <2>1 DEF Fits, KindFact, StepsFact, InsertFact, Thens, Fails,
    Keeping, RowForms, Confirm

<1>8. ASSUME NEW d \in {"DeleteMenuDialog", "DeleteRoleDialog",
          "DeleteDictDialog"}
      PROVE Fits(d)
  <2>1. Dialog[d] = Confirm(<<"invalidate", "close">>)
    BY DEF Dialog, DeleteDictDialog, DeleteMenuDialog, DeleteRoleDialog
  <2> QED BY <2>1 DEF Fits, KindFact, StepsFact, InsertFact, Thens, Fails,
    Keeping, RowForms, Confirm

<1>9. ASSUME NEW d \in {"UsersSearch", "MenusSearch", "ApisFilters",
          "FilesSearch", "OperationLogsFilters", "LoginLogsFilters",
          "ErrorLogsFilters", "DictSelect", "SessionsFilter", "ProductsSearch"}
      PROVE Fits(d)
  <2>1. Dialog[d] = Filters
    BY DEF Dialog, ApisFilters, ErrorLogsFilters, FilesSearch,
      LoginLogsFilters, MenusSearch, OperationLogsFilters, UsersSearch,
      DictSelect, SessionsFilter, ProductsSearch
  <2> QED BY <2>1 DEF Fits, KindFact, StepsFact, InsertFact, Thens, Fails,
    Keeping, RowForms, Filters, Inline, Form

<1>10. ASSUME NEW d \in {"CleanErrorLogsDialog", "CleanDialog",
          "CleanLogsDialog"}
      PROVE Fits(d)
  <2>1. Dialog[d] = Form("clean", "page", "none", "pending", <<"await", "close">>)
    BY DEF Dialog, CleanDialog, CleanErrorLogsDialog, CleanLogsDialog
  <2> QED BY <2>1 DEF Fits, KindFact, StepsFact, InsertFact, Thens, Fails,
    Keeping, RowForms, Form

<1>11. ASSUME NEW d \in {"CreateDictItemDialog", "CreateParamDialog"}
      PROVE Fits(d)
  <2>1. Dialog[d] = Form("insert", "page", "blank", "pending", <<"await", "close">>)
    BY DEF Dialog, DictItemDialog, ParamDialog
  <2> QED BY <2>1 DEF Fits, KindFact, StepsFact, InsertFact, Thens, Fails,
    Keeping, RowForms, Form

<1>12. ASSUME NEW d \in {"CreateMenuDialog", "CreateRoleDialog",
          "CreateDictDialog"}
      PROVE Fits(d)
  <2>1. Dialog[d] = Form("insert", "page", "blank", "pending", <<"invalidate", "close">>)
    BY DEF Dialog, DictDialog, MenuDialog, RoleDialog
  <2> QED BY <2>1 DEF Fits, KindFact, StepsFact, InsertFact, Thens, Fails,
    Keeping, RowForms, Form

<1>13. ASSUME NEW d \in {"CreateUserDialog", "CreateJobDialog"}
      PROVE Fits(d)
  <2>1. Dialog[d] = Form("insert", "page", "blank", "submitting", <<"await", "reset", "close">>)
    BY DEF Dialog, CreateJobDialog, CreateUserDialog
  <2> QED BY <2>1 DEF Fits, KindFact, StepsFact, InsertFact, Thens, Fails,
    Keeping, RowForms, Form

<1>14. ASSUME NEW d \in {"ImportUsersDialog"}
      PROVE Fits(d)
  <2>1. Dialog[d] = Form("insert", "page", "none", "submitting", <<"await">>)
    BY DEF Dialog, ImportUsersDialog
  <2> QED BY <2>1 DEF Fits, KindFact, StepsFact, InsertFact, Thens, Fails,
    Keeping, RowForms, Form

<1>15. ASSUME NEW d \in {"CreateProductDialog"}
      PROVE Fits(d)
  <2>1. Dialog[d] = Anew(Form("insert", "page", "open", "pending", <<"close", "invalidate">>))
    BY DEF Dialog, ProductDialog
  <2> QED BY <2>1 DEF Fits, KindFact, StepsFact, InsertFact, Thens, Fails,
    Keeping, RowForms, Form, Anew

<1>16. ASSUME NEW d \in {"ResetPasswordDialog"}
      PROVE Fits(d)
  <2>1. Dialog[d] = Form("other", "row", "blank", "pending", <<"reset", "close">>)
    BY DEF Dialog, ResetPasswordDialog
  <2> QED BY <2>1 DEF Fits, KindFact, StepsFact, InsertFact, Thens, Fails,
    Keeping, RowForms, Form

<1>17. ASSUME NEW d \in {"PermissionsForm"}
      PROVE Fits(d)
  <2>1. Dialog[d] = Anew(Form("update", "row", "effect", "pending", <<"close">>))
    BY DEF Dialog, PermissionsForm
  <2> QED BY <2>1 DEF Fits, KindFact, StepsFact, InsertFact, Thens, Fails,
    Keeping, RowForms, Form, Anew

<1>18. ASSUME NEW d \in {"EditDictItemDialog", "EditParamDialog"}
      PROVE Fits(d)
  <2>1. Dialog[d] = Form("update", "row", "mount", "pending", <<"await", "close">>)
    BY DEF Dialog, DictItemDialog, ParamDialog
  <2> QED BY <2>1 DEF Fits, KindFact, StepsFact, InsertFact, Thens, Fails,
    Keeping, RowForms, Form

<1>19. ASSUME NEW d \in {"EditMenuDialog", "EditRoleDialog", "EditDictDialog"}
      PROVE Fits(d)
  <2>1. Dialog[d] = Form("update", "row", "mount", "pending", <<"invalidate", "close">>)
    BY DEF Dialog, DictDialog, MenuDialog, RoleDialog
  <2> QED BY <2>1 DEF Fits, KindFact, StepsFact, InsertFact, Thens, Fails,
    Keeping, RowForms, Form

<1>20. ASSUME NEW d \in {"MenuButtonsRemove"}
      PROVE Fits(d)
  <2>1. Dialog[d] = Form("update", "row", "none", "none", <<"invalidate">>)
    BY DEF Dialog, MenuButtonsDialog
  <2> QED BY <2>1 DEF Fits, KindFact, StepsFact, InsertFact, Thens, Fails,
    Keeping, RowForms, Form

<1>21. ASSUME NEW d \in {"MenuButtonsAdd"}
      PROVE Fits(d)
  <2>1. Dialog[d] = Form("update", "row", "none", "pending", <<"reset", "invalidate">>)
    BY DEF Dialog, MenuButtonsDialog
  <2> QED BY <2>1 DEF Fits, KindFact, StepsFact, InsertFact, Thens, Fails,
    Keeping, RowForms, Form

<1>22. ASSUME NEW d \in {"EditApiDialog"}
      PROVE Fits(d)
  <2>1. Dialog[d] = Form("update", "row", "open", "pending", <<"await", "close">>)
    BY DEF Dialog, EditApiDialog
  <2> QED BY <2>1 DEF Fits, KindFact, StepsFact, InsertFact, Thens, Fails,
    Keeping, RowForms, Form

<1>23. ASSUME NEW d \in {"EditProductDialog"}
      PROVE Fits(d)
  <2>1. Dialog[d] = Anew(Form("update", "row", "open", "pending", <<"close", "invalidate">>))
    BY DEF Dialog, ProductDialog
  <2> QED BY <2>1 DEF Fits, KindFact, StepsFact, InsertFact, Thens, Fails,
    Keeping, RowForms, Form, Anew

<1>24. ASSUME NEW d \in {"EditUserDialog", "EditJobDialog"}
      PROVE Fits(d)
  <2>1. Dialog[d] = Form("update", "row", "tracks", "submitting", <<"await", "close">>)
    BY DEF Dialog, EditJobDialog, EditUserDialog
  <2> QED BY <2>1 DEF Fits, KindFact, StepsFact, InsertFact, Thens, Fails,
    Keeping, RowForms, Form

<1>25. ASSUME NEW d \in {"CreateCategory"}
      PROVE Fits(d)
  <2>1. Dialog[d] = Inline("insert", "page", "blank", "pending", <<"reset", "invalidate">>)
    BY DEF Dialog, CreateCategory
  <2> QED BY <2>1 DEF Fits, KindFact, StepsFact, InsertFact, Thens, Fails,
    Keeping, RowForms, Inline, Form

<1>26. ASSUME NEW d \in {"ResetPasswordForm"}
      PROVE Fits(d)
  <2>1. Dialog[d] = Inline("other", "page", "blank", "pending", <<"done">>)
    BY DEF Dialog, ResetPasswordForm
  <2> QED BY <2>1 DEF Fits, KindFact, StepsFact, InsertFact, Thens, Fails,
    Keeping, RowForms, Inline, Form

<1>27. ASSUME NEW d \in {"ChangePasswordForm"}
      PROVE Fits(d)
  <2>1. Dialog[d] = Inline("other", "page", "blank", "pending", <<"reset">>)
    BY DEF Dialog, ChangePasswordForm
  <2> QED BY <2>1 DEF Fits, KindFact, StepsFact, InsertFact, Thens, Fails,
    Keeping, RowForms, Inline, Form

<1>28. ASSUME NEW d \in {"SiteSettingsForm"}
      PROVE Fits(d)
  <2>1. Dialog[d] = Inline("update", "row", "effect", "submitting", <<"await">>)
    BY DEF Dialog, SiteSettingsForm
  <2> QED BY <2>1 DEF Fits, KindFact, StepsFact, InsertFact, Thens, Fails,
    Keeping, RowForms, Inline, Form

<1>29. ASSUME NEW d \in {"ProfileForm"}
      PROVE Fits(d)
  <2>1. Dialog[d] = Inline("update", "row", "mount", "submitting", <<"await">>)
    BY DEF Dialog, ProfileForm
  <2> QED BY <2>1 DEF Fits, KindFact, StepsFact, InsertFact, Thens, Fails,
    Keeping, RowForms, Inline, Form

<1>30. ASSUME NEW d \in {"PluginRow"}
      PROVE Fits(d)
  <2>1. Dialog[d] = PluginRow
    BY DEF Dialog
  <2> QED BY <2>1 DEF Fits, KindFact, StepsFact, InsertFact, Thens, Fails,
    Keeping, RowForms, PluginRow, View, Form

<1>31. ASSUME NEW d \in {"OperationLogRow"}
      PROVE Fits(d)
  <2>1. Dialog[d] = OperationLogRow
    BY DEF Dialog
  <2> QED BY <2>1 DEF Fits, KindFact, StepsFact, InsertFact, Thens, Fails,
    Keeping, RowForms, OperationLogRow, View, Form

<1>32. ASSUME NEW d \in {"JobHistoryDrawer"}
      PROVE Fits(d)
  <2>1. Dialog[d] = JobHistoryDrawer
    BY DEF Dialog
  <2> QED BY <2>1 DEF Fits, KindFact, StepsFact, InsertFact, Thens, Fails,
    Keeping, RowForms, JobHistoryDrawer, View, Form

<1>33. ASSUME NEW d \in {"PreviewDialog"}
      PROVE Fits(d)
  <2>1. Dialog[d] = PreviewDialog
    BY DEF Dialog
  <2> QED BY <2>1 DEF Fits, KindFact, StepsFact, InsertFact, Thens, Fails,
    Keeping, RowForms, PreviewDialog, View, Form

<1>34. ASSUME NEW d \in {"InstallButton"}
      PROVE Fits(d)
  <2>1. Dialog[d] = [Button("insert", "page", "pending", <<"invalidate">>) EXCEPT !.fails =
      <<"invalidate">>]
    BY DEF Dialog, InstallButton
  <2> QED BY <2>1 DEF Fits, KindFact, StepsFact, InsertFact, Thens, Fails,
    Keeping, RowForms, Button

<1>35. ASSUME NEW d \in {"UninstallDialog"}
      PROVE Fits(d)
  <2>1. Dialog[d] = [Confirm(<<"invalidate">>) EXCEPT !.per = "page", !.modal = FALSE, !.fails =
      <<"invalidate">>]
    BY DEF Dialog, UninstallDialog
  <2> QED BY <2>1 DEF Fits, KindFact, StepsFact, InsertFact, Thens, Fails,
    Keeping, RowForms, Confirm

<1>36. ASSUME NEW d \in {"UploadDialog"}
      PROVE Fits(d)
  <2>1. Dialog[d] = [Form("insert", "page", "blank", "submitting", <<"invalidate", "reset",
      "close">>) EXCEPT !.fails = <<"invalidate", "reset", "close">>, !.lock =
      TRUE]
    BY DEF Dialog, UploadDialog
  <2> QED BY <2>1 DEF Fits, KindFact, StepsFact, InsertFact, Thens, Fails,
    Keeping, RowForms, Form

<1>37. ASSUME NEW d \in {"ForgotPasswordForm"}
      PROVE Fits(d)
  <2>1. Dialog[d] = [Inline("insert", "page", "blank", "pending", <<"done">>) EXCEPT !.fails =
      <<"done">>]
    BY DEF Dialog, ForgotPasswordForm
  <2> QED BY <2>1 DEF Fits, KindFact, StepsFact, InsertFact, Thens, Fails,
    Keeping, RowForms, Inline, Form

<1> QED BY Names, <1>1, <1>2, <1>3, <1>4, <1>5, <1>6, <1>7, <1>8, <1>9, <1>10,
  <1>11, <1>12, <1>13, <1>14, <1>15, <1>16, <1>17, <1>18, <1>19, <1>20, <1>21,
  <1>22, <1>23, <1>24, <1>25, <1>26, <1>27, <1>28, <1>29, <1>30, <1>31, <1>32,
  <1>33, <1>34, <1>35, <1>36, <1>37

LEMMA PageFacts == \A p \in DOMAIN Pages : PageFact(p)
<1>1. /\ Pages["UsersPage"] = UsersPage
     /\ Pages["JobsPage"] = JobsPage
     /\ Pages["MenusPage"] = MenusPage
     /\ Pages["RolesPage"] = RolesPage
     /\ Pages["PermissionsDialog"] = PermissionsDialog
     /\ Pages["DictsPage"] = DictsPage
     /\ Pages["DictItemsTable"] = DictItemsTable
     /\ Pages["ParamsPage"] = ParamsPage
     /\ Pages["ApisPage"] = ApisPage
     /\ Pages["FilesPage"] = FilesPage
     /\ Pages["PluginsPage"] = PluginsPage
     /\ Pages["SessionsPage"] = SessionsPage
     /\ Pages["OperationLogsPage"] = OperationLogsPage
     /\ Pages["LoginLogsPage"] = LoginLogsPage
     /\ Pages["ErrorLogsPage"] = ErrorLogsPage
     /\ Pages["SiteSettingsPage"] = SiteSettingsPage
     /\ Pages["ProfilePage"] = ProfilePage
     /\ Pages["DashboardPage"] = DashboardPage
     /\ Pages["ForgotPasswordPage"] = ForgotPasswordPage
     /\ Pages["ResetPasswordPage"] = ResetPasswordPage
     /\ Pages["Products"] = Products
     /\ Pages["Categories"] = Categories
  BY DEF Pages
<1>2. DOMAIN Pages =
        {"UsersPage", "JobsPage", "MenusPage", "RolesPage", "PermissionsDialog",
         "DictsPage", "DictItemsTable", "ParamsPage", "ApisPage", "FilesPage",
         "PluginsPage", "SessionsPage", "OperationLogsPage", "LoginLogsPage",
         "ErrorLogsPage", "SiteSettingsPage", "ProfilePage", "DashboardPage",
         "ForgotPasswordPage", "ResetPasswordPage", "Products", "Categories"}
  BY DEF Pages

<1>3. PageFact("UsersPage") BY <1>1, Names DEF PageFact, RowForms, UsersPage,
    List, UserRowActions

<1>4. PageFact("JobsPage") BY <1>1, Names DEF PageFact, RowForms, JobsPage,
    List, JobRowActions

<1>5. PageFact("MenusPage") BY <1>1, Names DEF PageFact, RowForms, MenusPage,
    List, MenuActionCells

<1>6. PageFact("RolesPage") BY <1>1, Names DEF PageFact, RowForms, RolesPage,
    List

<1>7. PageFact("PermissionsDialog") BY <1>1, Names DEF PageFact, RowForms,
    PermissionsDialog, List

<1>8. PageFact("DictsPage") BY <1>1, Names DEF PageFact, RowForms, DictsPage,
    List

<1>9. PageFact("DictItemsTable") BY <1>1, Names DEF PageFact, RowForms,
    DictItemsTable, DictItemActions, List

<1>10. PageFact("ParamsPage") BY <1>1, Names DEF PageFact, RowForms,
    ParamsPage, List

<1>11. PageFact("ApisPage") BY <1>1, Names DEF PageFact, RowForms, ApisPage,
    List, ApiActions

<1>12. PageFact("FilesPage") BY <1>1, Names DEF PageFact, RowForms, FilesPage,
    List, ListView, GalleryView, ActionButtons

<1>13. PageFact("PluginsPage") BY <1>1, Names DEF PageFact, RowForms,
    PluginsPage, List

<1>14. PageFact("SessionsPage") BY <1>1, Names DEF PageFact, RowForms,
    SessionsPage, List

<1>15. PageFact("OperationLogsPage") BY <1>1, Names DEF PageFact, RowForms,
    OperationLogsPage, List

<1>16. PageFact("LoginLogsPage") BY <1>1, Names DEF PageFact, RowForms,
    LoginLogsPage, List

<1>17. PageFact("ErrorLogsPage") BY <1>1, Names DEF PageFact, RowForms,
    ErrorLogsPage, List

<1>18. PageFact("SiteSettingsPage") BY <1>1, Names DEF PageFact, RowForms,
    SiteSettingsPage, List

<1>19. PageFact("ProfilePage") BY <1>1, Names DEF PageFact, RowForms,
    ProfilePage, List

<1>20. PageFact("DashboardPage") BY <1>1, Names DEF PageFact, RowForms,
    DashboardPage, List

<1>21. PageFact("ForgotPasswordPage") BY <1>1, Names DEF PageFact, RowForms,
    ForgotPasswordPage, List

<1>22. PageFact("ResetPasswordPage") BY <1>1, Names DEF PageFact, RowForms,
    ResetPasswordPage, List

<1>23. PageFact("Products") BY <1>1, Names DEF PageFact, RowForms, Products,
    ProductActions, List

<1>24. PageFact("Categories") BY <1>1, Names DEF PageFact, RowForms,
    Categories, List

<1> QED BY <1>2, <1>3, <1>4, <1>5, <1>6, <1>7, <1>8, <1>9, <1>10, <1>11,
  <1>12, <1>13, <1>14, <1>15, <1>16, <1>17, <1>18, <1>19, <1>20, <1>21, <1>22,
  <1>23, <1>24

-----------------------------------------------------------------------------
(* The shape of the state.                                               *)

(* The values of the variables.                                          *)
Listing == UNION {[s -> Nat] : s \in SUBSET Row}

Entry == [list : Listing \cup {None}, more : BOOLEAN, at : Nat, stale : BOOLEAN]

Fetching == [list : Listing \cup {None}, more : BOOLEAN, at : Nat]

Fields ==
  [who : Row \cup {None}, base : Nat, touched : BOOLEAN, sent : {"no", "sent", "stored", "moved"},
   shows : Row \cup {None}]

OnScreen == Mounted(Screen)

InForm == Fielded(Screen, opened)

(* The state but for the components at work.                             *)
Kept ==
  /\ page \in DOMAIN Pages
  /\ hand \subseteq This.holds
  /\ match \subseteq Row
  /\ rows \in [Row -> 0..clock \cup {None, Gone}]
  /\ clock \in 0..MaxWrites
  /\ no \in 1..MaxPage
  /\ cache \in [1..(IF This.paging = "server" THEN MaxPage ELSE 1) -> Entry]
  /\ fetch \in Fetching \cup {None}
  /\ acked \in Nat

(* The components.                                                       *)
Forms ==
  /\ form \in [InForm -> Fields]
  /\ opened \in OnScreen \cup {None}
  /\ opened # None => Dialog[opened[1]].modal

(* The handlers.  A form in whose place a message is left has only one,  *)
(* which awaits no refetch and knows its form as long as that is there.  *)
Calls ==
  /\ DOMAIN tasks \subseteq 1..MaxTask
  /\ tasks \in [DOMAIN tasks -> Handler \cup {None}]
  /\ \A s \in DOMAIN tasks :
       tasks[s] # None =>
         /\ tasks[s].name \in This.holds
         /\ tasks[s].of # None => tasks[s].of[1] = tasks[s].name /\ tasks[s].of \in OnScreen
         /\ tasks[s].at = "refetch" => Dialog[tasks[s].name].then # <<"done">>
         /\ Dialog[tasks[s].name].then = <<"done">> /\ tasks[s].name \in hand =>
              tasks[s].of = <<tasks[s].name, 0>>
  /\ \A s, q \in DOMAIN tasks :
       /\ tasks[s] # None /\ tasks[q] # None /\ tasks[s].of # None
       /\ tasks[s].of = tasks[q].of
       /\ Dialog[tasks[s].name].then = <<"done">>
       => s = q

Shape == Kept /\ Forms /\ Calls

-----------------------------------------------------------------------------
LEMMA DialogFacts ==
  ASSUME page \in DOMAIN Pages, NEW d \in This.holds
  PROVE  d \in DOMAIN Dialog /\ KindFact(d) /\ StepsFact(d) /\ InsertFact(d)
  BY ComponentFacts, PageFacts DEF PageFact, This, Fits

LEMMA ListingIs ==
  ASSUME NEW l
  PROVE  l \in Listing <=> /\ DOMAIN l \subseteq Row
                           /\ l \in [DOMAIN l -> Nat]
  BY DEF Listing

LEMMA NothingListing == Nothing \in Listing
  BY ListingIs DEF Nothing

LEMMA ShownListing ==
  ASSUME NEW l \in Listing \cup {None}, NEW n, NEW m
  PROVE  Shown(l, n, m) \in Listing /\ (l # None => DOMAIN Shown(l, n, m) \subseteq DOMAIN l)
<1>1. CASE l = None
  BY <1>1, NothingListing DEF Shown
<1>2. CASE l # None /\ This.paging # "client"
  BY <1>2 DEF Shown
<1>3. CASE l # None /\ This.paging = "client"
  <2> DEFINE t == {r \in DOMAIN l \cap m : Rank(r, DOMAIN l \cap m) = Least(n, Larger(1, Cardinality(DOMAIN l \cap m)))}
  <2>1. Shown(l, n, m) = [r \in t |-> l[r]]
    BY <1>3 DEF Shown
  <2>2. t \subseteq DOMAIN l
    OBVIOUS
  <2> HIDE DEF t
  <2> QED BY <2>1, <2>2, <1>3, ListingIs
<1> QED BY <1>1, <1>2, <1>3

LEMMA ScreenListing ==
  ASSUME Kept
  PROVE  /\ Slot(no) \in DOMAIN cache
         /\ Screen \in Listing
<1>1. Slot(no) \in DOMAIN cache
  BY AdminPagesAssumption DEF Kept, Slot
<1>2. cache[Slot(no)].list \in Listing \cup {None}
  BY <1>1 DEF Kept, Entry
<1> QED BY <1>1, <1>2, ShownListing DEF Screen

LEMMA RankNat ==
  ASSUME NEW s \in SUBSET Row, NEW r
  PROVE  Rank(r, s) \in Nat \ {0}
<1>1. IsFiniteSet(s)
  BY AdminPagesAssumption, FS_Subset
<1>2. IsFiniteSet({q \in s : q < r})
  BY <1>1, FS_Subset
<1> QED BY <1>2, FS_CardinalityType DEF Rank

(* Where a component is, and the row it is of.                           *)
LEMMA MountedIs ==
  ASSUME Kept, NEW l \in Listing, NEW i \in Mounted(l)
  PROVE  /\ i \in Component /\ i # None
         /\ i[1] \in hand /\ i[1] \in This.holds
         /\ \/ /\ i[2] = 0
               /\ Dialog[i[1]].per = "page"
               /\ RowOf(l, i) = None
            \/ /\ i[2] # 0
               /\ Dialog[i[1]].per = "row"
               /\ RowOf(l, i) \in Rows(l)
               /\ RowOf(l, i) \in Row
               /\ This.key # "place" => RowOf(l, i) = i[2]
<1> USE AdminPagesAssumption
<1>0. DOMAIN l \subseteq Row /\ Rows(l) \subseteq Row
  BY ListingIs DEF Rows
<1>1. ASSUME NEW d \in Held("page"), i = <<d, 0>>
      PROVE  /\ i \in Component
             /\ i[1] \in hand /\ i[1] \in This.holds
             /\ i[2] = 0 /\ Dialog[i[1]].per = "page"
             /\ RowOf(l, i) = None
  BY <1>1, PageFacts DEF Kept, Held, Component, RowOf, This, PageFact
<1>2. ASSUME NEW d \in Held("row"), NEW r \in Rows(l), i = <<d, KeyOf(l, r)>>
      PROVE  /\ i \in Component
             /\ i[1] \in hand /\ i[1] \in This.holds
             /\ i[2] # 0 /\ Dialog[i[1]].per = "row"
             /\ RowOf(l, i) \in Rows(l)
             /\ This.key # "place" => RowOf(l, i) = i[2]
  <2>1. KeyOf(l, r) \in Nat \ {0}
    BY <1>0, RankNat DEF KeyOf
  <2>2. RowOf(l, i) \in Rows(l) /\ KeyOf(l, RowOf(l, i)) = i[2]
    BY <2>1, <1>2 DEF RowOf
  <2> QED BY <1>2, <2>1, <2>2, PageFacts DEF Kept, Held, Component, This, PageFact, KeyOf
<1>3. i \in Component => i # None
  OBVIOUS
<1> QED BY <1>0, <1>1, <1>2, <1>3 DEF Mounted

LEMMA SeededIs ==
  ASSUME Kept, NEW l \in Listing, NEW i \in Mounted(l)
  PROVE  /\ Seeded(l, i) \in Fields
         /\ Seeded(l, i).sent = "no"
         /\ Seeded(l, i).touched = FALSE
         /\ Seeded(l, i).shows = None
         /\ Seeded(l, i).who \in {None, RowOf(l, i)}
         /\ Dialog[i[1]].seed \in {"mount", "tracks", "open", "effect"} /\ RowOf(l, i) \in DOMAIN l =>
              Seeded(l, i).who = RowOf(l, i) /\ Seeded(l, i).base = l[RowOf(l, i)]
<1>1. Blank \in Fields /\ Blank = [who |-> None, base |-> 0, touched |-> FALSE, sent |-> "no", shows |-> None]
  BY DEF Blank, Fields
<1>2. DOMAIN l \subseteq Row /\ l \in [DOMAIN l -> Nat]
  BY ListingIs
<1> QED BY <1>1, <1>2 DEF Seeded, Fields

LEMMA RenderedIs ==
  ASSUME Kept, NEW l \in Listing, NEW old, NEW o, NEW forms, \A i \in DOMAIN forms : forms[i] \in Fields
  PROVE  /\ Rendered(forms, old, l, o) \in [Fielded(l, o) -> Fields]
         /\ \A i \in Fielded(l, o) :
              /\ i \in Mounted(l) /\ Dialog[i[1]].seed # "none"
              /\ \/ Rendered(forms, old, l, o)[i] = Seeded(l, i)
                 \/ i \in DOMAIN forms /\ Rendered(forms, old, l, o)[i] = forms[i]
              /\ i \in DOMAIN forms /\ Dialog[i[1]].seed \notin {"tracks", "effect"} =>
                   Rendered(forms, old, l, o)[i] = forms[i]
  BY SeededIs DEF Rendered, Fielded

-----------------------------------------------------------------------------
(* The steps that follow an answer, and what is on the screen after a    *)
(* step.                                                                 *)

(* What is done at once, and what after the refetch.                     *)
LEMMA NowIs ==
  /\ Now(<<>>) = {}
  /\ Now(<<"show">>) = {"show"}
  /\ Now(<<"reset">>) = {"reset"}
  /\ Now(<<"done">>) = {"done"}
  /\ Now(<<"close">>) = {"close"}
  /\ Now(<<"await">>) = {"await"}
  /\ Now(<<"invalidate">>) = {"invalidate"}
  /\ Now(<<"reset", "close">>) = {"reset", "close"}
  /\ Now(<<"await", "close">>) = {"await"}
  /\ Now(<<"invalidate", "close">>) = {"invalidate", "close"}
  /\ Now(<<"reset", "invalidate">>) = {"reset", "invalidate"}
  /\ Now(<<"close", "invalidate">>) = {"close", "invalidate"}
  /\ Now(<<"await", "reset", "close">>) = {"await"}
  /\ Now(<<"invalidate", "reset", "close">>) = {"invalidate", "reset", "close"}
<1>1. Now(<<>>) = {}
  BY DEF Now
<1>2. Now(<<"show">>) = {"show"}
  BY DEF Now
<1>3. Now(<<"reset">>) = {"reset"}
  BY DEF Now
<1>4. Now(<<"done">>) = {"done"}
  BY DEF Now
<1>5. Now(<<"close">>) = {"close"}
  BY DEF Now
<1>6. Now(<<"await">>) = {"await"}
  BY DEF Now
<1>7. Now(<<"invalidate">>) = {"invalidate"}
  BY DEF Now
<1>8. Now(<<"reset", "close">>) = {"reset", "close"}
  BY DEF Now
<1>9. Now(<<"await", "close">>) = {"await"}
  BY DEF Now
<1>10. Now(<<"invalidate", "close">>) = {"invalidate", "close"}
  BY DEF Now
<1>11. Now(<<"reset", "invalidate">>) = {"reset", "invalidate"}
  BY DEF Now
<1>12. Now(<<"close", "invalidate">>) = {"close", "invalidate"}
  BY DEF Now
<1>13. Now(<<"await", "reset", "close">>) = {"await"}
  BY DEF Now
<1>14. Now(<<"invalidate", "reset", "close">>) = {"invalidate", "reset", "close"}
  BY DEF Now
<1> QED BY <1>1, <1>2, <1>3, <1>4, <1>5, <1>6, <1>7,
  <1>8, <1>9, <1>10, <1>11, <1>12, <1>13, <1>14

LEMMA LaterIs ==
  /\ Later(<<"await">>) = {}
  /\ Later(<<"await", "close">>) = {"close"}
  /\ Later(<<"await", "reset", "close">>) = {"reset", "close"}
<1>1. Later(<<"await">>) = {}
  BY NowIs DEF Later
<1>2. Later(<<"await", "close">>) = {"close"}
  BY NowIs DEF Later
<1>3. Later(<<"await", "reset", "close">>) = {"reset", "close"}
  BY NowIs DEF Later
<1> QED BY <1>1, <1>2, <1>3

LEMMA NowHas ==
  ASSUME NEW steps \in Thens
  PROVE  /\ "done" \in Now(steps) => steps = <<"done">>
         /\ "show" \in Now(steps) => steps = <<"show">>
         /\ "await" \in Now(steps) => steps # <<"done">>
         /\ steps \in Fails => "await" \notin Now(steps) /\ "show" \notin Now(steps)
  BY NowIs DEF Thens, Fails

LEMMA StepsOf ==
  ASSUME NEW d, StepsFact(d)
  PROVE  /\ "done" \in Now(Dialog[d].then) \cup Now(Dialog[d].fails) =>
              Dialog[d].then = <<"done">> /\ ~Dialog[d].modal /\ Dialog[d].guard = "pending"
         /\ "show" \in Now(Dialog[d].then) \cup Now(Dialog[d].fails) => Dialog[d].does = "view"
         /\ "await" \in Now(Dialog[d].then) => Dialog[d].then # <<"done">>
         /\ "await" \notin Now(Dialog[d].fails)
<1>1. Dialog[d].fails \in Thens
  BY DEF StepsFact, Thens, Fails
<1>2. Dialog[d].then \in Thens /\ Dialog[d].fails \in Fails
  BY DEF StepsFact
<1>3. Dialog[d].does # "view" => Dialog[d].then # <<"show">>
  BY DEF StepsFact
<1>4. <<"done">> \in {Dialog[d].then, Dialog[d].fails} =>
        Dialog[d].guard = "pending" /\ ~Dialog[d].modal /\ Dialog[d].then = <<"done">>
  BY DEF StepsFact
<1> QED BY <1>1, <1>2, <1>3, <1>4, NowHas

LEMMA ScreenThen ==
  ASSUME NEW l, NEW o, page' = page, hand' = hand, Screen' = l, opened' = o
  PROVE  OnScreen' = Mounted(l) /\ InForm' = Fielded(l, o)
  BY DEF OnScreen, InForm, Fielded, Mounted, Held, Rows, KeyOf, This

LEMMA ScreenStays ==
  ASSUME page' = page, no' = no, match' = match, cache'[Slot(no)].list = cache[Slot(no)].list
  PROVE  Screen' = Screen
  BY DEF Screen, Shown, Slot, This

LEMMA ScreenTurns ==
  ASSUME page' = page, NEW n, no' = n, NEW m, match' = m, NEW c, cache' = c
  PROVE  Screen' = Shown(c[Slot(n)].list, n, m)
  BY DEF Screen, Shown, Slot, This

LEMMA StillIs ==
  ASSUME NEW l, NEW o \in {opened, None}, Forms
  PROVE  /\ StillOpen(l, o) \in Mounted(l) \cup {None}
         /\ StillOpen(l, o) \in {opened, None}
         /\ StillOpen(l, o) # None => StillOpen(l, o) = opened /\ Dialog[opened[1]].modal
  BY DEF StillOpen, Forms

LEMMA AfterRefetchIs ==
  ASSUME Forms
  PROVE  /\ AfterRefetch \in [InForm -> Fields]
         /\ \A i \in InForm : AfterRefetch[i] = IF i \in Resetting THEN Blank ELSE form[i]
  BY AdminPagesAssumption DEF Forms, AfterRefetch, Blank, Fields

-----------------------------------------------------------------------------
(* The page, its rows, its cache and its fetch in a step.                *)

LEMMA CountNat ==
  ASSUME NEW s \in SUBSET Row
  PROVE  IsFiniteSet(s) /\ Cardinality(s) \in Nat
  BY AdminPagesAssumption, FS_Subset, FS_CardinalityType

LEMMA DueNat ==
  ASSUME Calls
  PROVE  Cardinality(Due) \in Nat
<1>1. Due \subseteq 1..MaxTask
  BY DEF Due, Calls
<1>2. IsFiniteSet(1..MaxTask)
  BY AdminPagesAssumption, FS_Interval
<1> QED BY <1>1, <1>2, FS_Subset, FS_CardinalityType

LEMMA KeptNext ==
  ASSUME Shape, [Next]_vars
  PROVE  Kept'
<1> USE AdminPagesAssumption
<1>0. NewFetch \in Fetching /\ NewEntry \in Entry
  BY DEF NewFetch, NewEntry, Fetching, Entry
<1>1. ASSUME FetchServe PROVE Kept'
  <2>1. Found \subseteq Row
    BY DEF Found, Live
  <2>2. [r \in Found |-> rows[r]] \in Listing
    <3>1. ASSUME NEW r \in Found PROVE rows[r] \in Nat
      BY DEF Found, Live
    <3> QED BY <2>1, <3>1, ListingIs
  <2>3. fetch' \in Fetching
    <3>1. fetch \in Fetching
      BY <1>1 DEF FetchServe, Shape, Kept
    <3>2. PICK more \in BOOLEAN : more = (~Whole /\ no < Cardinality(Live \cap match))
      OBVIOUS
    <3>3. fetch' = [fetch EXCEPT !.list = [r \in Found |-> rows[r]], !.more = more, !.at = clock]
      BY <1>1, <3>2 DEF FetchServe
    <3>4. clock \in Nat
      BY DEF Shape, Kept
    <3> QED BY <2>2, <3>1, <3>3, <3>4 DEF Fetching
  <2> QED BY <1>1, <2>3 DEF FetchServe, Shape, Kept, This
<1>2. ASSUME NEW entries, NEW n \in 1..MaxPage, NEW m \in SUBSET Row,
             entries \in [DOMAIN cache -> Entry], Render(entries, n, m, Screen), match' = m,
             fetch' \in Fetching \cup {None}, UNCHANGED <<page, hand, rows, clock, acked>>
      PROVE  Kept'
  BY <1>2 DEF Render, Shape, Kept, This
<1>3. ASSUME FetchDone PROVE Kept'
  <2>1. fetch \in Fetching
    BY <1>3 DEF FetchDone, Shape, Kept
  <2>2. [list |-> fetch.list, more |-> fetch.more, at |-> fetch.at, stale |-> FALSE] \in Entry
    BY <2>1 DEF Fetching, Entry
  <2>3. cache \in [DOMAIN cache -> Entry] /\ Slot(no) \in DOMAIN cache
    BY ScreenListing DEF Shape, Kept
  <2> QED BY <1>2, <1>3, <2>2, <2>3 DEF FetchDone, Shape, Kept
<1>4. ASSUME FetchFail PROVE Kept'
  BY <1>2, <1>4 DEF FetchFail, Shape, Kept
<1>5. ASSUME Refocus PROVE Kept'
  BY <1>0, <1>5 DEF Refocus, Shape, Kept, This
<1>6. ASSUME NEW n \in 1..MaxPage, Turn(n) PROVE Kept'
  <2>1. CASE This.paging = "server"
    BY <1>0, <1>2, <1>6, <2>1 DEF Turn, Observe, Shape, Kept
  <2>2. CASE This.paging # "server"
    BY <1>6, <2>2 DEF Turn, Shape, Kept, This
  <2> QED BY <2>1, <2>2
<1>7. ASSUME NEW i, Open(i) PROVE Kept'
  BY <1>0, <1>7 DEF Open, Observe, Shape, Kept, This
<1>8. ASSUME NEW i, Type(i) PROVE Kept'
  BY <1>8 DEF Type, Shape, Kept, This
<1>9. ASSUME NEW i, Search(i) PROVE Kept'
  <2>1. PICK m \in SUBSET Row : Filtered(i, m, 1)
    BY <1>9 DEF Search
  <2>2. [k \in DOMAIN cache |-> NewEntry] \in [DOMAIN cache -> Entry]
    BY <1>0
  <2> QED BY <1>0, <1>2, <2>1, <2>2 DEF Filtered, Shape, Kept
<1>10. ASSUME NEW i, NEW r, Press(i, r) PROVE Kept'
  BY <1>10 DEF Press, Shape, Kept, This
<1>11. ASSUME NEW i, NEW r, Look(i, r) PROVE Kept'
  BY <1>11 DEF Look, Shape, Kept, This
<1>12. ASSUME Close PROVE Kept'
  BY <1>12 DEF Close, Shut, Shape, Kept, This
<1>13. ASSUME Fold PROVE Kept'
  BY <1>13 DEF Fold, Shape, Kept, This
<1>14. ASSUME NEW does, NEW r, rows' \in Changed(does, r, clock + 1), clock' = clock + 1,
              clock + 1 \in 0..MaxWrites, UNCHANGED <<page, hand, match, no, cache, fetch, acked>>
       PROVE  Kept'
  <2>1. ASSUME NEW q \in Row
        PROVE  rows'[q] \in {rows[q], clock + 1, Gone} /\ rows' = [p \in Row |-> rows'[p]]
    BY <1>14 DEF Changed, Free, Live, Shape, Kept
  <2>2. rows' \in [Row -> 0..(clock + 1) \cup {None, Gone}]
    BY <2>1 DEF Shape, Kept
  <2> QED BY <1>14, <2>2 DEF Shape, Kept, This
<1>15. ASSUME NEW s \in DOMAIN tasks, Serve(s) PROVE Kept'
  <2>1. clock + 1 \in 0..MaxWrites
    BY <1>15 DEF Serve, Shape, Kept
  <2> QED BY <1>14, <1>15, <2>1 DEF Serve
<1>16. ASSUME NEW s \in DOMAIN tasks, ServeNothing(s) PROVE Kept'
  BY <1>16 DEF ServeNothing, Shape, Kept, This
<1>17. ASSUME NEW s \in DOMAIN tasks, NEW at \in Answers(tasks[s]), Receive(s, at) PROVE Kept'
  <2>1. tasks[s] \in Handler /\ at \in {"ok", "error"}
    BY <1>17 DEF Answers, Shape, Calls
  <2>2. acked' \in Nat
    <3>1. [tasks[s] EXCEPT !.at = at].ver \in Nat
      BY <2>1 DEF Handler
    <3> QED BY <1>17, <3>1 DEF Receive, Larger, Shape, Kept
  <2>3. cache' = cache \/ cache' = [n \in DOMAIN cache |-> [cache[n] EXCEPT !.stale = cache[n].list # None]]
    BY <1>17 DEF Receive, invalidateQueries
  <2>4. cache' \in [1..(IF This.paging = "server" THEN MaxPage ELSE 1) -> Entry]
    <3>1. ASSUME NEW n \in DOMAIN cache
          PROVE  [cache[n] EXCEPT !.stale = cache[n].list # None] \in Entry
      <4>1. PICK b \in BOOLEAN : b = (cache[n].list # None)
        OBVIOUS
      <4>2. [cache[n] EXCEPT !.stale = b] \in Entry
        BY DEF Shape, Kept, Entry
      <4> QED BY <4>1, <4>2
    <3>2. PICK S : S = 1..(IF This.paging = "server" THEN MaxPage ELSE 1)
      OBVIOUS
    <3>3. cache \in [S -> Entry]
      BY <3>2 DEF Shape, Kept
    <3>4. cache' \in [S -> Entry]
      BY <2>3, <3>1, <3>3
    <3> QED BY <3>2, <3>4
  <2>5. fetch' \in Fetching \cup {None}
    BY <1>0, <1>17 DEF Receive, invalidateQueries, Shut, Shape, Kept
  <2>6. hand' \subseteq hand
    BY <1>17 DEF Receive
  <2>7. UNCHANGED <<page, match, rows, clock, no>>
    BY <1>17 DEF Receive
  <2> QED BY <2>2, <2>4, <2>5, <2>6, <2>7 DEF Shape, Kept, This
<1>18. ASSUME Elsewhere PROVE Kept'
  <2>1. clock + 1 \in 0..MaxWrites
    <3>1. Cardinality(Due) \in Nat
      BY DueNat DEF Shape
    <3> QED BY <1>18, <3>1 DEF Elsewhere, Shape, Kept
  <2> QED BY <1>14, <1>18, <2>1 DEF Elsewhere
<1>19. CASE UNCHANGED vars
  BY <1>19 DEF vars, Shape, Kept, This
<1> QED BY <1>1, <1>3, <1>4, <1>5, <1>6, <1>7, <1>8, <1>9, <1>10, <1>11, <1>12, <1>13, <1>15, <1>16, <1>17, <1>18, <1>19 DEF Next

-----------------------------------------------------------------------------
(* The screen changes: forms and handlers that stay, and those that go.  *)

LEMMA OrphanedIs ==
  ASSUME NEW ts, NEW D, ts \in [D -> Handler \cup {None}], NEW l
  PROVE  /\ Orphaned(ts, l) \in [D -> Handler \cup {None}]
         /\ \A s \in D :
              /\ Orphaned(ts, l)[s] = None <=> ts[s] = None
              /\ ts[s] # None =>
                   /\ Orphaned(ts, l)[s].of = IF ts[s].of \in Mounted(l) THEN ts[s].of ELSE None
                   /\ Orphaned(ts, l)[s].name = ts[s].name
                   /\ Orphaned(ts, l)[s].row = ts[s].row
                   /\ Orphaned(ts, l)[s].at = ts[s].at
                   /\ Orphaned(ts, l)[s].ver = ts[s].ver
<1> USE AdminPagesAssumption
<1>1. ASSUME NEW s \in D
      PROVE  Orphaned(ts, l)[s] =
               IF ts[s] # None /\ ts[s].of \notin Mounted(l) THEN [ts[s] EXCEPT !.of = None] ELSE ts[s]
  BY DEF Orphaned
<1>2. ASSUME NEW s \in D, ts[s] # None
      PROVE  /\ ts[s] \in Handler
             /\ [ts[s] EXCEPT !.of = None] \in Handler
             /\ [ts[s] EXCEPT !.of = None].of = None
             /\ [ts[s] EXCEPT !.of = None].name = ts[s].name
             /\ [ts[s] EXCEPT !.of = None].row = ts[s].row
             /\ [ts[s] EXCEPT !.of = None].at = ts[s].at
             /\ [ts[s] EXCEPT !.of = None].ver = ts[s].ver
  BY <1>2 DEF Handler
<1>3. Orphaned(ts, l) = [s \in D |-> Orphaned(ts, l)[s]]
  BY DEF Orphaned
<1>4. ASSUME NEW s \in D
      PROVE  /\ Orphaned(ts, l)[s] \in Handler \cup {None}
             /\ Orphaned(ts, l)[s] = None <=> ts[s] = None
  BY <1>1, <1>2
<1>5. ASSUME NEW s \in D, ts[s] # None
      PROVE  /\ Orphaned(ts, l)[s].of = IF ts[s].of \in Mounted(l) THEN ts[s].of ELSE None
             /\ Orphaned(ts, l)[s].name = ts[s].name
             /\ Orphaned(ts, l)[s].row = ts[s].row
             /\ Orphaned(ts, l)[s].at = ts[s].at
             /\ Orphaned(ts, l)[s].ver = ts[s].ver
  BY <1>1, <1>2, <1>5
<1>6. Orphaned(ts, l) \in [D -> Handler \cup {None}]
  BY <1>3, <1>4
<1> QED BY <1>4, <1>5, <1>6

LEMMA RenderedShape ==
  ASSUME Shape, NEW l \in Listing, NEW o \in {opened, None},
         NEW forms, \A i \in DOMAIN forms : forms[i] \in Fields,
         NEW ts, ts \in [DOMAIN tasks -> Handler \cup {None}],
         \A s \in DOMAIN tasks : ts[s] \in {tasks[s], None},
         page' = page, hand' = hand, Screen' = l, opened' = StillOpen(l, o),
         form' = Rendered(forms, Screen, l, StillOpen(l, o)), tasks' = Orphaned(ts, l)
  PROVE  Forms' /\ Calls'
<1>1. OnScreen' = Mounted(l) /\ InForm' = Fielded(l, opened')
  BY ScreenThen
<1>2. Forms'
  <2>1. form' \in [InForm' -> Fields]
    BY <1>1, RenderedIs DEF Shape
  <2>2. opened' \in OnScreen' \cup {None} /\ (opened' # None => Dialog[opened'[1]].modal)
    BY <1>1, StillIs DEF Shape
  <2> QED BY <2>1, <2>2 DEF Forms
<1>3. Calls'
  <2>1. /\ tasks' \in [DOMAIN tasks -> Handler \cup {None}]
        /\ DOMAIN tasks' = DOMAIN tasks
    BY OrphanedIs
  <2>2. ASSUME NEW s \in DOMAIN tasks, tasks'[s] # None
        PROVE  /\ tasks[s] # None
               /\ tasks'[s].name = tasks[s].name
               /\ tasks'[s].at = tasks[s].at
               /\ tasks'[s].of \in {tasks[s].of, None}
               /\ tasks'[s].of # None => tasks'[s].of = tasks[s].of /\ tasks[s].of \in Mounted(l)
               /\ tasks[s].of \in Mounted(l) => tasks'[s].of = tasks[s].of
    BY <2>2, OrphanedIs
  <2>3. This' = This
    BY DEF This
  <2>4. ASSUME NEW s \in DOMAIN tasks, tasks'[s] # None
        PROVE  /\ tasks'[s].name \in This'.holds
               /\ tasks'[s].of # None => tasks'[s].of[1] = tasks'[s].name /\ tasks'[s].of \in OnScreen'
               /\ tasks'[s].at = "refetch" => Dialog[tasks'[s].name].then # <<"done">>
               /\ Dialog[tasks'[s].name].then = <<"done">> /\ tasks'[s].name \in hand' =>
                    tasks'[s].of = <<tasks'[s].name, 0>>
    <3>1. ASSUME Dialog[tasks'[s].name].then = <<"done">>, tasks'[s].name \in hand'
          PROVE  tasks'[s].of = <<tasks'[s].name, 0>>
      <4>1. tasks[s].of = <<tasks[s].name, 0>> /\ tasks[s].name \in This.holds
        BY <2>2, <2>4, <3>1 DEF Shape, Calls
      <4>2. tasks[s].name \in Held("page")
        BY <2>2, <2>4, <3>1, <4>1, DialogFacts DEF StepsFact, Held, Shape, Kept
      <4>3. tasks[s].of \in Mounted(l)
        BY <4>1, <4>2 DEF Mounted
      <4> QED BY <2>2, <2>4, <4>1, <4>3
    <3> QED BY <1>1, <2>2, <2>3, <2>4, <3>1 DEF Shape, Calls
  <2>5. ASSUME NEW s \in DOMAIN tasks, NEW q \in DOMAIN tasks,
               tasks'[s] # None, tasks'[q] # None, tasks'[s].of # None,
               tasks'[s].of = tasks'[q].of, Dialog[tasks'[s].name].then = <<"done">>
        PROVE  s = q
    BY <2>2, <2>5 DEF Shape, Calls
  <2>6. DOMAIN tasks \subseteq 1..MaxTask
    BY DEF Shape, Calls
  <2> QED BY <2>1, <2>4, <2>5, <2>6 DEF Calls
<1> QED BY <1>2, <1>3

LEMMA EndedIs ==
  ASSUME Calls
  PROVE  /\ Ended \in [DOMAIN tasks -> Handler \cup {None}]
         /\ \A s \in DOMAIN tasks : Ended[s] = IF s \in Resumed THEN None ELSE tasks[s]
  BY DEF Ended, Calls

(* What the selection of another dictionary does to the forms.           *)
LEMMA MovedIs ==
  ASSUME NEW I, NEW f \in [I -> Fields], NEW m
  PROVE  /\ Moved(f, m) \in [I -> Fields]
         /\ \A i \in I :
              /\ Moved(f, m)[i] = f[i] \/ (Dialog[i[1]].does = "insert" /\ This.nested)
              /\ Moved(f, m)[i].who = f[i].who /\ Moved(f, m)[i].base = f[i].base
              /\ Moved(f, m)[i].touched = f[i].touched /\ Moved(f, m)[i].shows = f[i].shows
              /\ Moved(f, m)[i].sent = f[i].sent \/ Moved(f, m)[i].sent = "moved"
<1>1. ASSUME NEW i \in I
      PROVE  /\ [f[i] EXCEPT !.sent = "moved"] \in Fields
             /\ [f[i] EXCEPT !.sent = "moved"].who = f[i].who
             /\ [f[i] EXCEPT !.sent = "moved"].base = f[i].base
             /\ [f[i] EXCEPT !.sent = "moved"].touched = f[i].touched
             /\ [f[i] EXCEPT !.sent = "moved"].shows = f[i].shows
             /\ [f[i] EXCEPT !.sent = "moved"].sent = "moved"
  BY DEF Fields
<1>2. /\ Moved(f, m) = [i \in I |-> Moved(f, m)[i]]
      /\ \A i \in I : Moved(f, m)[i] =
           IF This.nested /\ m # match /\ Dialog[i[1]].does = "insert"
             THEN [f[i] EXCEPT !.sent = "moved"] ELSE f[i]
  BY DEF Moved
<1>3. \A i \in I : Moved(f, m)[i] \in Fields
  BY <1>1, <1>2
<1> QED BY <1>1, <1>2, <1>3

LEMMA RenderShape ==
  ASSUME Shape, NEW n \in 1..MaxPage, NEW m \in SUBSET Row,
         NEW entries, entries \in [DOMAIN cache -> Entry],
         Render(entries, n, m, Screen), match' = m, page' = page, hand' = hand
  PROVE  Forms' /\ Calls'
<1> DEFINE l == Shown(entries[Slot(n)].list, n, m)
           c == IF opened \in Closing THEN None ELSE opened
<1>1. cache' = entries /\ no' = n
  BY DEF Render
<1>2. Screen' = l
  BY <1>1, ScreenTurns
<1>3. Slot(n) \in DOMAIN cache
  BY AdminPagesAssumption DEF Slot, Shape, Kept
<1>4. l \in Listing
  <2>1. entries[Slot(n)].list \in Listing \cup {None}
    BY <1>3 DEF Entry
  <2> QED BY <2>1, ShownListing
<1>5. /\ opened' = StillOpen(l, c)
      /\ form' = Rendered(Moved(AfterRefetch, m), Screen, l, StillOpen(l, c))
      /\ tasks' = Orphaned(Ended, l)
  BY DEF Render
<1>6. \A i \in DOMAIN Moved(AfterRefetch, m) : Moved(AfterRefetch, m)[i] \in Fields
  BY AfterRefetchIs, MovedIs DEF Shape
<1>7. c \in {opened, None}
  OBVIOUS
<1> HIDE DEF l, c
<1> QED BY <1>2, <1>4, <1>5, <1>6, <1>7, EndedIs, RenderedShape DEF Shape

(* Steps at which the screen stays.                                      *)
LEMMA StayShape ==
  ASSUME Shape, page' = page, hand' = hand, no' = no, match' = match,
         cache'[Slot(no)].list = cache[Slot(no)].list
  PROVE  /\ Screen' = Screen /\ OnScreen' = OnScreen /\ This' = This
         /\ opened' = opened => InForm' = InForm
         /\ This.query # "dialog" => InForm' = InForm
         /\ \A o : opened' = o => InForm' = Fielded(Screen, o)
<1>1. Screen' = Screen
  BY ScreenStays
<1>2. /\ OnScreen' = OnScreen /\ This' = This
      /\ InForm' = Fielded(Screen, opened')
  BY <1>1, ScreenThen DEF OnScreen, This
<1> QED BY <1>1, <1>2 DEF InForm, Fielded

LEMMA CallsSame ==
  ASSUME Calls, OnScreen' = OnScreen, This' = This, hand' = hand, DOMAIN tasks' = DOMAIN tasks,
         tasks' \in [DOMAIN tasks -> Handler \cup {None}],
         \A s \in DOMAIN tasks : tasks'[s] # None =>
           /\ tasks[s] # None
           /\ tasks'[s].name = tasks[s].name
           /\ tasks'[s].of = tasks[s].of \/ (tasks'[s].of = None /\ Dialog[tasks[s].name].then # <<"done">>)
           /\ tasks'[s].at = "refetch" => tasks[s].at = "refetch" \/ Dialog[tasks[s].name].then # <<"done">>
  PROVE  Calls'
<1>1. ASSUME NEW s \in DOMAIN tasks, tasks'[s] # None
      PROVE  /\ tasks'[s].name \in This'.holds
             /\ tasks'[s].of # None => tasks'[s].of[1] = tasks'[s].name /\ tasks'[s].of \in OnScreen'
             /\ tasks'[s].at = "refetch" => Dialog[tasks'[s].name].then # <<"done">>
             /\ Dialog[tasks'[s].name].then = <<"done">> /\ tasks'[s].name \in hand' =>
                  tasks'[s].of = <<tasks'[s].name, 0>>
  BY <1>1 DEF Calls
<1>2. ASSUME NEW s \in DOMAIN tasks, NEW q \in DOMAIN tasks,
             tasks'[s] # None, tasks'[q] # None, tasks'[s].of # None,
             tasks'[s].of = tasks'[q].of, Dialog[tasks'[s].name].then = <<"done">>
      PROVE  s = q
  BY <1>2 DEF Calls
<1>3. DOMAIN tasks \subseteq 1..MaxTask
  BY DEF Calls
<1> QED BY <1>1, <1>2, <1>3 DEF Calls

-----------------------------------------------------------------------------
(* The handlers that a press starts; fetching, turning and searching.    *)

LEMMA TargetsIs ==
  ASSUME Shape, NEW i \in OnScreen, NEW r \in Targets(i)
  PROVE  /\ r \in Row \cup {None}
         /\ Dialog[i[1]].per = "row" => r = RowOf(Screen, i) /\ r \in Row
         /\ Dialog[i[1]].does \in {"insert", "clean"} => r = None
<1>1. Screen \in Listing /\ DOMAIN Screen \subseteq Row
  BY ScreenListing, ListingIs DEF Shape
<1>2. i \in Mounted(Screen)
  BY DEF OnScreen
<1>3. KindFact(i[1])
  BY <1>1, <1>2, MountedIs, DialogFacts DEF Shape, Kept
<1>4. Dialog[i[1]].per = "row" => Dialog[i[1]].does \notin {"insert", "clean"}
  BY <1>3 DEF KindFact
<1>5. i[2] = 0 <=> Dialog[i[1]].per = "page"
  BY <1>1, <1>2, MountedIs DEF Shape
<1>6. i[2] # 0 => RowOf(Screen, i) \in Row
  BY <1>1, <1>2, MountedIs DEF Shape
<1> QED BY <1>1, <1>3, <1>4, <1>5, <1>6 DEF Targets, KindFact

(* The call that is started.                                             *)
LEMMA StartedIs ==
  ASSUME Shape, NEW i \in OnScreen, NEW r \in Row \cup {None}, Started(i, r)
  PROVE  \E s \in DOMAIN tasks :
           /\ tasks[s] = None
           /\ tasks' \in [DOMAIN tasks -> Handler \cup {None}]
           /\ DOMAIN tasks' = DOMAIN tasks
           /\ tasks'[s] # None
           /\ tasks'[s].of = i /\ tasks'[s].name = i[1] /\ tasks'[s].row = r
           /\ tasks'[s].at = "wire" /\ tasks'[s].ver = 0
           /\ \A q \in DOMAIN tasks \ {s} : tasks'[q] = tasks[q]
<1>1. PICK s \in DOMAIN tasks :
        /\ tasks[s] = None
        /\ tasks' = [tasks EXCEPT ![s] = [of |-> i, name |-> i[1], row |-> r, at |-> "wire", ver |-> 0]]
  BY DEF Started
<1>2. i \in Component
  BY ScreenListing, MountedIs DEF OnScreen, Shape
<1>3. [of |-> i, name |-> i[1], row |-> r, at |-> "wire", ver |-> 0] \in Handler
  BY <1>2 DEF Handler, Component
<1>4. tasks \in [DOMAIN tasks -> Handler \cup {None}]
  BY DEF Shape, Calls
<1> QED BY <1>1, <1>3, <1>4, AdminPagesAssumption

LEMMA StartedCalls ==
  ASSUME Shape, NEW i \in OnScreen, NEW r \in Row \cup {None}, Started(i, r),
         OnScreen' = OnScreen, This' = This, hand' = hand,
         Dialog[i[1]].then = <<"done">> =>
           \A s \in DOMAIN tasks : tasks[s] # None /\ tasks[s].of = i => tasks[s].at = "refetch"
  PROVE  Calls'
<1>1. PICK s \in DOMAIN tasks :
        /\ tasks[s] = None
        /\ tasks' \in [DOMAIN tasks -> Handler \cup {None}]
        /\ DOMAIN tasks' = DOMAIN tasks
        /\ tasks'[s] # None
        /\ tasks'[s].of = i /\ tasks'[s].name = i[1] /\ tasks'[s].row = r
        /\ tasks'[s].at = "wire" /\ tasks'[s].ver = 0
        /\ \A q \in DOMAIN tasks \ {s} : tasks'[q] = tasks[q]
  BY StartedIs
<1>2. i[1] \in This.holds /\ i # None
  BY ScreenListing, MountedIs DEF OnScreen, Shape
<1>6. Dialog[i[1]].then = <<"done">> => i = <<i[1], 0>>
  <2>1. i \in Component /\ (i[2] = 0 \/ Dialog[i[1]].per = "row")
    BY ScreenListing, MountedIs DEF OnScreen, Shape
  <2>2. Dialog[i[1]].then = <<"done">> => Dialog[i[1]].per = "page"
    BY <1>2, DialogFacts DEF StepsFact, Shape, Kept
  <2> QED BY <2>1, <2>2 DEF Component
<1>3. ASSUME NEW q \in DOMAIN tasks, tasks'[q] # None
      PROVE  /\ tasks'[q].name \in This'.holds
             /\ tasks'[q].of # None => tasks'[q].of[1] = tasks'[q].name /\ tasks'[q].of \in OnScreen'
             /\ tasks'[q].at = "refetch" => Dialog[tasks'[q].name].then # <<"done">>
             /\ Dialog[tasks'[q].name].then = <<"done">> /\ tasks'[q].name \in hand' =>
                  tasks'[q].of = <<tasks'[q].name, 0>>
  BY <1>1, <1>2, <1>3, <1>6 DEF Shape, Calls
<1>4. ASSUME NEW p \in DOMAIN tasks, NEW q \in DOMAIN tasks,
             tasks'[p] # None, tasks'[q] # None, tasks'[p].of # None,
             tasks'[p].of = tasks'[q].of, Dialog[tasks'[p].name].then = <<"done">>
      PROVE  p = q
  <2>1. CASE p # s /\ q # s
    BY <1>1, <1>4, <2>1 DEF Shape, Calls
  <2>2. ASSUME NEW t \in DOMAIN tasks, t # s, tasks[t] # None, tasks[t].of = i,
               Dialog[i[1]].then = <<"done">>
        PROVE  FALSE
    <3>1. tasks[t].at = "refetch"
      BY <2>2
    <3>2. tasks[t].name = i[1]
      BY <2>2, <1>2 DEF Shape, Calls
    <3> QED BY <2>2, <3>1, <3>2 DEF Shape, Calls
  <2>3. CASE p = s /\ q # s
    BY <1>1, <1>4, <2>2, <2>3
  <2>4. CASE p # s /\ q = s
    <3>1. tasks[p].of = i /\ tasks[p] # None /\ tasks[p].name = i[1]
      BY <1>1, <1>2, <1>4, <2>4 DEF Shape, Calls
    <3> QED BY <1>1, <1>4, <2>2, <2>4, <3>1
  <2> QED BY <2>1, <2>3, <2>4
<1>5. DOMAIN tasks \subseteq 1..MaxTask
  BY DEF Shape, Calls
<1> QED BY <1>1, <1>3, <1>4, <1>5 DEF Calls

-----------------------------------------------------------------------------
LEMMA FetchShape ==
  ASSUME Shape, FetchServe \/ FetchDone \/ FetchFail \/ Refocus
  PROVE  Forms' /\ Calls'
<1>1. ASSUME FetchServe \/ Refocus PROVE Forms' /\ Calls'
  <2>1. UNCHANGED <<page, hand, match, no, cache, form, opened, tasks>>
    BY <1>1 DEF FetchServe, Refocus
  <2>2. OnScreen' = OnScreen /\ This' = This /\ InForm' = InForm
    BY <2>1, StayShape
  <2> QED BY <2>1, <2>2 DEF Shape, Forms, Calls
<1>2. CASE FetchDone
  <2>1. fetch \in Fetching
    BY <1>2 DEF FetchDone, Shape, Kept
  <2>2. [list |-> fetch.list, more |-> fetch.more, at |-> fetch.at, stale |-> FALSE] \in Entry
    BY <2>1 DEF Fetching, Entry
  <2>3. cache \in [DOMAIN cache -> Entry] /\ no \in 1..MaxPage /\ match \in SUBSET Row
    BY DEF Shape, Kept
  <2> QED BY <1>2, <2>2, <2>3, RenderShape DEF FetchDone
<1>3. CASE FetchFail
  <2>1. cache \in [DOMAIN cache -> Entry] /\ no \in 1..MaxPage /\ match \in SUBSET Row
    BY DEF Shape, Kept
  <2> QED BY <1>3, <2>1, RenderShape DEF FetchFail
<1> QED BY <1>1, <1>2, <1>3

LEMMA TurnShape ==
  ASSUME Shape, NEW n \in 1..MaxPage, Turn(n)
  PROVE  Forms' /\ Calls'
<1>1. CASE This.paging = "server"
  <2>1. cache \in [DOMAIN cache -> Entry] /\ match \in SUBSET Row
    BY DEF Shape, Kept
  <2> QED BY <1>1, <2>1, RenderShape DEF Turn
<1>2. CASE This.paging # "server"
  <2> DEFINE l == Shown(cache[Slot(n)].list, n, match)
  <2>1. /\ no' = n /\ form' = Rendered(form, Screen, l, None) /\ tasks' = Orphaned(tasks, l)
        /\ opened = None /\ opened' = None
        /\ UNCHANGED <<page, hand, match, cache>>
    BY <1>2 DEF Turn
  <2>2. Slot(n) \in DOMAIN cache
    BY AdminPagesAssumption DEF Slot, Shape, Kept
  <2>3. cache[Slot(n)].list \in Listing \cup {None}
    BY <2>2 DEF Shape, Kept, Entry
  <2>4. l \in Listing
    BY <2>3, ShownListing
  <2>5. Screen' = l
    BY <2>1, ScreenTurns
  <2>6. StillOpen(l, None) = None
    BY DEF StillOpen
  <2>7. \A i \in DOMAIN form : form[i] \in Fields
    BY DEF Shape, Forms
  <2>8. tasks \in [DOMAIN tasks -> Handler \cup {None}]
    BY DEF Shape, Calls
  <2> HIDE DEF l
  <2> QED BY <2>1, <2>4, <2>5, <2>6, <2>7, <2>8, RenderedShape
<1> QED BY <1>1, <1>2

LEMMA SearchShape ==
  ASSUME Shape, NEW i, Search(i)
  PROVE  Forms' /\ Calls'
<1>1. PICK m \in SUBSET Row : Filtered(i, m, 1)
  BY DEF Search
<1>2. [k \in DOMAIN cache |-> NewEntry] \in [DOMAIN cache -> Entry] /\ cache \in [DOMAIN cache -> Entry]
  BY DEF NewEntry, Entry, Shape, Kept
<1>3. 1 \in 1..MaxPage
  BY AdminPagesAssumption
<1> QED BY <1>1, <1>2, <1>3, RenderShape DEF Filtered

-----------------------------------------------------------------------------
(* What the user does with a component.                                  *)

LEMMA OnScreenIs ==
  ASSUME Shape, NEW i \in OnScreen
  PROVE  /\ i \in Mounted(Screen) /\ i \in Component /\ i # None
         /\ i[1] \in hand /\ i[1] \in This.holds /\ i[1] \in DOMAIN Dialog
         /\ KindFact(i[1]) /\ StepsFact(i[1]) /\ InsertFact(i[1])
<1>1. i \in Mounted(Screen) /\ Screen \in Listing
  BY ScreenListing DEF OnScreen, Shape
<1>2. i \in Component /\ i # None /\ i[1] \in hand /\ i[1] \in This.holds
  BY <1>1, MountedIs DEF Shape
<1> QED BY <1>1, <1>2, DialogFacts DEF Shape, Kept

LEMMA InFormIs ==
  ASSUME Shape, NEW i \in InForm
  PROVE  i \in OnScreen /\ Dialog[i[1]].seed # "none"
  BY DEF InForm, Fielded, OnScreen

LEMMA BlankFields == Blank \in Fields
  BY DEF Blank, Fields

LEMMA OpenShape ==
  ASSUME Shape, NEW i \in OnScreen, Open(i)
  PROVE  Forms' /\ Calls'
<1> DEFINE forms == Rendered(form, Screen, Screen, i)
           new == IF Dialog[i[1]].seed = "open" THEN [forms EXCEPT ![i] = Seeded(Screen, i)] ELSE forms
<1>1. /\ opened' = i /\ form' = new /\ Dialog[i[1]].modal
      /\ UNCHANGED <<page, hand, match, no, cache, tasks>>
  BY DEF Open
<1>2. OnScreen' = OnScreen /\ This' = This /\ InForm' = Fielded(Screen, i)
  BY <1>1, StayShape
<1>3. Screen \in Listing /\ i \in Mounted(Screen)
  BY ScreenListing DEF OnScreen, Shape
<1>4. forms \in [Fielded(Screen, i) -> Fields]
  BY <1>3, RenderedIs DEF Shape, Forms
<1>5. Seeded(Screen, i) \in Fields
  BY <1>3, SeededIs DEF Shape
<1> HIDE DEF forms
<1>6. new \in [Fielded(Screen, i) -> Fields]
  BY <1>4, <1>5
<1> HIDE DEF new
<1>7. Forms'
  BY <1>1, <1>2, <1>6 DEF Forms
<1>8. Calls'
  BY <1>1, <1>2 DEF Shape, Calls
<1> QED BY <1>7, <1>8

LEMMA TypeShape ==
  ASSUME Shape, NEW i \in OnScreen, Type(i)
  PROVE  Forms' /\ Calls'
<1>1. UNCHANGED <<page, hand, match, no, cache, opened, tasks>> /\ i \in DOMAIN form
  BY DEF Type
<1>2. OnScreen' = OnScreen /\ This' = This /\ InForm' = InForm
  BY <1>1, StayShape
<1>3. RowOf(Screen, i) \in Row \cup {None}
  BY ScreenListing, MountedIs, OnScreenIs DEF Shape
<1>4. form \in [InForm -> Fields]
  BY DEF Shape, Forms
<1>5. PICK b \in BOOLEAN, v \in {form[i].sent, "no"}, w \in {form[i].who, RowOf(Screen, i)} :
        form' = [form EXCEPT ![i].touched = b, ![i].sent = v, ![i].who = w]
  <2>1. PICK b \in BOOLEAN : b = (Dialog[i[1]].seed \in {"tracks", "effect"})
    <3>1. (Dialog[i[1]].seed \in {"tracks", "effect"}) \in BOOLEAN
      OBVIOUS
    <3> QED BY <3>1, Zenon
  <2>2. PICK v \in {form[i].sent, "no"} : v = IF Dialog[i[1]].does = "update" THEN form[i].sent ELSE "no"
    OBVIOUS
  <2>3. PICK w \in {form[i].who, RowOf(Screen, i)} :
          w = IF Dialog[i[1]].seed = "blank" THEN RowOf(Screen, i) ELSE form[i].who
    OBVIOUS
  <2>4. form' = [form EXCEPT ![i].touched = b, ![i].sent = v, ![i].who = w]
    BY <1>1, <1>4, <2>1, <2>2, <2>3 DEF Type
  <2> QED BY <2>4
<1>6. form' \in [InForm -> Fields]
  BY <1>1, <1>3, <1>4, <1>5 DEF Fields
<1> QED BY <1>1, <1>2, <1>6 DEF Shape, Forms, Calls

LEMMA PressShape ==
  ASSUME Shape, NEW i \in OnScreen, NEW r, Press(i, r)
  PROVE  Forms' /\ Calls'
<1>1. /\ UNCHANGED <<page, hand, match, no, cache, opened>>
      /\ r \in Targets(i) /\ Started(i, r) /\ Enabled(i)
  BY DEF Press
<1>2. OnScreen' = OnScreen /\ This' = This /\ InForm' = InForm
  BY <1>1, StayShape
<1>3. form' \in [InForm -> Fields]
  <2>1. form \in [InForm -> Fields]
    BY DEF Shape, Forms
  <2>2. CASE i \in DOMAIN form
    <3>1. PICK b \in BOOLEAN : b = (form[i].touched \/ Dialog[i[1]].seed = "tracks")
      OBVIOUS
    <3>2. PICK v \in {form[i].sent, "sent"} :
            v = IF form[i].sent \in {"no", "moved"} /\ Dialog[i[1]].does \in {"insert", "update"}
                  THEN "sent" ELSE form[i].sent
      OBVIOUS
    <3>3. form' = [form EXCEPT ![i].sent = v, ![i].touched = b]
      BY <2>2, <3>1, <3>2, <2>1 DEF Press
    <3> QED BY <2>1, <2>2, <3>3 DEF Fields
  <2>3. CASE i \notin DOMAIN form
    BY <2>1, <2>3 DEF Press
  <2> QED BY <2>2, <2>3
<1>4. Dialog[i[1]].then = <<"done">> => Dialog[i[1]].guard = "pending"
  BY OnScreenIs DEF StepsFact
<1>5. Dialog[i[1]].guard = "pending" =>
        \A s \in DOMAIN tasks : tasks[s] # None /\ tasks[s].of = i => tasks[s].at = "refetch"
  BY <1>1 DEF Enabled
<1>6. r \in Row \cup {None}
  BY <1>1, TargetsIs
<1>7. Calls'
  BY <1>1, <1>2, <1>4, <1>5, <1>6, StartedCalls
<1>8. Forms'
  BY <1>1, <1>2, <1>3 DEF Shape, Forms
<1> QED BY <1>7, <1>8

LEMMA LookShape ==
  ASSUME Shape, NEW i \in OnScreen, NEW r, Look(i, r)
  PROVE  Forms' /\ Calls'
<1>1. /\ UNCHANGED <<page, hand, match, no, cache>>
      /\ r \in Targets(i)
      /\ Dialog[i[1]].does = "view"
      /\ opened = None
      /\ opened' = IF Dialog[i[1]].modal THEN i ELSE opened
      /\ form' = [form EXCEPT ![i] =
           [Blank EXCEPT !.who = IF opened' = None /\ form[i].who = r THEN None ELSE r]]
      /\ Started(i, r) \/ tasks' = tasks
  BY DEF Look
<1>2. This.query # "dialog"
  <2>1. i[1] \in This.holds /\ PageFact(page) /\ i[1] # "PermissionsForm"
    <3>1. Dialog["PermissionsForm"].does = "update"
      BY DEF Dialog, PermissionsForm, Form, Anew
    <3> QED BY <1>1, <3>1, OnScreenIs, PageFacts DEF Shape, Kept
  <2> QED BY <2>1 DEF PageFact, This
<1>3. OnScreen' = OnScreen /\ This' = This /\ InForm' = InForm
  BY <1>1, <1>2, StayShape
<1>4. r \in Row \cup {None}
  BY <1>1, TargetsIs
<1>5. form' \in [InForm -> Fields]
  <2>1. [Blank EXCEPT !.who = IF opened' = None /\ form[i].who = r THEN None ELSE r] \in Fields
    BY <1>4 DEF Blank, Fields
  <2>2. form \in [InForm -> Fields]
    BY DEF Shape, Forms
  <2> QED BY <1>1, <2>1, <2>2
<1>6. Calls'
  <2>1. Dialog[i[1]].then # <<"done">>
    BY <1>1, OnScreenIs DEF StepsFact
  <2>2. CASE Started(i, r)
    BY <1>1, <1>3, <1>4, <2>1, <2>2, StartedCalls
  <2>3. CASE tasks' = tasks
    BY <1>1, <1>3, <2>3 DEF Shape, Calls
  <2> QED BY <1>1, <2>2, <2>3
<1>7. opened' \in OnScreen \cup {None} /\ (opened' # None => Dialog[opened'[1]].modal)
  BY <1>1
<1> QED BY <1>3, <1>5, <1>6, <1>7 DEF Forms

LEMMA ShutShape ==
  ASSUME Shape, NEW forms, forms \in [InForm -> Fields], Shut(forms),
         opened' = None, page' = page, hand' = hand, no' = no, match' = match, cache' = cache
  PROVE  Forms'
<1>1. OnScreen' = OnScreen /\ This' = This /\ InForm' = Fielded(Screen, None)
  BY StayShape
<1>2. CASE This.query = "dialog"
  <2>1. InForm' = {}
    BY <1>1, <1>2, OnScreenIs DEF Fielded, OnScreen
  <2>2. form' = Nothing
    BY <1>2 DEF Shut
  <2>3. form' \in [InForm' -> Fields]
    BY <2>1, <2>2 DEF Nothing
  <2> QED BY <1>1, <2>3 DEF Forms
<1>3. CASE This.query # "dialog"
  <2>1. InForm' = InForm /\ form' = forms
    BY <1>1, <1>3 DEF Shut, Fielded, InForm
  <2> QED BY <1>1, <2>1 DEF Forms
<1> QED BY <1>2, <1>3

LEMMA TaskIs ==
  ASSUME Shape, NEW s \in DOMAIN tasks, tasks[s] # None
  PROVE  /\ tasks[s] \in Handler /\ tasks[s].name \in DOMAIN Dialog /\ tasks[s].name \in This.holds
         /\ KindFact(tasks[s].name) /\ StepsFact(tasks[s].name) /\ InsertFact(tasks[s].name)
         /\ tasks[s].of # None =>
              tasks[s].of \in OnScreen /\ tasks[s].of[1] = tasks[s].name /\ tasks[s].of[1] \in hand
<1>1. tasks[s] \in Handler /\ tasks[s].name \in This.holds
  BY DEF Shape, Calls
<1>2. tasks[s].of # None => tasks[s].of \in OnScreen /\ tasks[s].of[1] = tasks[s].name
  BY DEF Shape, Calls
<1>3. tasks[s].of # None => tasks[s].of[1] \in hand
  BY <1>2, OnScreenIs
<1> QED BY <1>1, <1>2, <1>3, DialogFacts DEF Shape, Kept

LEMMA CloseShape ==
  ASSUME Shape, Close
  PROVE  Forms' /\ Calls'
<1>1. /\ UNCHANGED <<page, hand, match, no, cache>> /\ opened' = None /\ Shut(Emptied)
      /\ tasks' = [s \in DOMAIN tasks |->
           IF /\ tasks[s] # None /\ tasks[s].of = opened
              /\ Dialog[opened[1]].does = "view" \/ Dialog[opened[1]].fresh
             THEN [tasks[s] EXCEPT !.of = None] ELSE tasks[s]]
  BY DEF Close
<1>0. opened # None
  BY DEF Close, Shuttable
<1>2. Emptied \in [InForm -> Fields]
  BY BlankFields DEF Emptied, Shape, Forms
<1>3. Forms'
  BY <1>1, <1>2, ShutShape
<1>4. OnScreen' = OnScreen /\ This' = This
  BY <1>1, StayShape
<1>5. ASSUME NEW s \in DOMAIN tasks
      PROVE  /\ tasks'[s] \in Handler \cup {None}
             /\ tasks'[s] # None =>
                  /\ tasks[s] # None
                  /\ tasks'[s].name = tasks[s].name
                  /\ tasks'[s].of = tasks[s].of \/ (tasks'[s].of = None /\ Dialog[tasks[s].name].then # <<"done">>)
                  /\ tasks'[s].at = tasks[s].at
  <2>1. tasks[s] # None /\ tasks[s].of = opened /\ opened # None =>
          Dialog[tasks[s].name].then # <<"done">>
    BY TaskIs DEF StepsFact, Shape, Forms
  <2> QED BY <1>0, <1>1, <2>1 DEF Shape, Calls, Handler
<1>6. Calls'
  BY <1>1, <1>4, <1>5, CallsSame DEF Shape
<1> QED BY <1>3, <1>6

LEMMA FoldShape ==
  ASSUME Shape, Fold
  PROVE  Forms' /\ Calls'
<1>1. /\ UNCHANGED <<page, hand, match, no, cache, opened>>
      /\ form' = [i \in DOMAIN form |-> IF i[2] = 0 THEN form[i] ELSE Seeded(Screen, i)]
      /\ tasks' = [s \in DOMAIN tasks |->
           IF tasks[s] # None /\ tasks[s].of # None /\ tasks[s].of[2] # 0
             THEN [tasks[s] EXCEPT !.of = None] ELSE tasks[s]]
  BY DEF Fold
<1>2. OnScreen' = OnScreen /\ This' = This /\ InForm' = InForm
  BY <1>1, StayShape
<1>3. ASSUME NEW i \in InForm
      PROVE  Seeded(Screen, i) \in Fields
  BY InFormIs, OnScreenIs, SeededIs, ScreenListing DEF Shape
<1>4. form' \in [InForm -> Fields]
  BY <1>1, <1>3 DEF Shape, Forms
<1>5. ASSUME NEW s \in DOMAIN tasks
      PROVE  /\ tasks'[s] \in Handler \cup {None}
             /\ tasks'[s] # None =>
                  /\ tasks[s] # None
                  /\ tasks'[s].name = tasks[s].name
                  /\ tasks'[s].of = tasks[s].of \/ (tasks'[s].of = None /\ Dialog[tasks[s].name].then # <<"done">>)
                  /\ tasks'[s].at = tasks[s].at
  <2>1. tasks[s] # None /\ tasks[s].of # None /\ tasks[s].of[2] # 0 =>
          Dialog[tasks[s].name].then # <<"done">>
    <3>1. tasks[s] # None /\ tasks[s].of # None /\ tasks[s].of[2] # 0 => Dialog[tasks[s].name].per # "page"
      BY TaskIs, ScreenListing, MountedIs DEF OnScreen, Shape
    <3> QED BY <3>1, TaskIs DEF StepsFact
  <2> QED BY <1>1, <2>1 DEF Shape, Calls, Handler
<1>6. Calls'
  BY <1>1, <1>2, <1>5, CallsSame DEF Shape
<1>7. Forms'
  BY <1>1, <1>2, <1>4 DEF Shape, Forms
<1> QED BY <1>6, <1>7

-----------------------------------------------------------------------------
(* The server, and what it answers.                                      *)

(* An answer is on its way.                                              *)
LEMMA AnsweredIs ==
  ASSUME Shape, NEW s \in DOMAIN tasks, tasks[s] # None,
         NEW at \in {"ok", "error"}, NEW ver \in Nat, Answered(s, at, ver)
  PROVE  /\ tasks' \in [DOMAIN tasks -> Handler \cup {None}]
         /\ DOMAIN tasks' = DOMAIN tasks
         /\ tasks'[s] # None
         /\ tasks'[s].of = tasks[s].of /\ tasks'[s].name = tasks[s].name
         /\ tasks'[s].row = tasks[s].row
         /\ tasks'[s].at = at /\ tasks'[s].ver = ver
         /\ \A q \in DOMAIN tasks \ {s} : tasks'[q] = tasks[q]
<1>1. tasks \in [DOMAIN tasks -> Handler \cup {None}] /\ tasks[s] \in Handler
  BY DEF Shape, Calls
<1>2. tasks' = [tasks EXCEPT ![s] = [tasks[s] EXCEPT !.at = at, !.ver = ver]]
  BY <1>1 DEF Answered
<1>3. /\ [tasks[s] EXCEPT !.at = at, !.ver = ver] \in Handler
      /\ [tasks[s] EXCEPT !.at = at, !.ver = ver].of = tasks[s].of
      /\ [tasks[s] EXCEPT !.at = at, !.ver = ver].name = tasks[s].name
      /\ [tasks[s] EXCEPT !.at = at, !.ver = ver].row = tasks[s].row
      /\ [tasks[s] EXCEPT !.at = at, !.ver = ver].at = at
      /\ [tasks[s] EXCEPT !.at = at, !.ver = ver].ver = ver
  BY <1>1 DEF Handler
<1> HIDE DEF Handler
<1> QED BY <1>1, <1>2, <1>3, AdminPagesAssumption

LEMMA AnsweredCalls ==
  ASSUME Shape, NEW s \in DOMAIN tasks, tasks[s] # None,
         NEW at \in {"ok", "error"}, NEW ver \in Nat, Answered(s, at, ver),
         UNCHANGED <<page, hand, match, no, cache, form, opened>>
  PROVE  Forms' /\ Calls'
<1>1. OnScreen' = OnScreen /\ This' = This /\ InForm' = InForm
  BY StayShape
<1>2. Calls'
  BY <1>1, AnsweredIs, CallsSame DEF Shape
<1> QED BY <1>1, <1>2 DEF Shape, Forms

LEMMA ServerShape ==
  ASSUME Shape, \/ Elsewhere
                \/ \E s \in DOMAIN tasks : Serve(s) \/ ServeNothing(s)
  PROVE  Forms' /\ Calls'
<1>1. CASE Elsewhere
  <2>1. UNCHANGED <<page, hand, match, no, cache, form, opened, tasks>>
    BY <1>1 DEF Elsewhere
  <2>2. OnScreen' = OnScreen /\ This' = This /\ InForm' = InForm
    BY <2>1, StayShape
  <2> QED BY <2>1, <2>2 DEF Shape, Forms, Calls
<1>2. ASSUME NEW s \in DOMAIN tasks, Serve(s) \/ ServeNothing(s)
      PROVE  Forms' /\ Calls'
  <2>1. /\ tasks[s] # None
        /\ UNCHANGED <<page, hand, match, no, cache, form, opened>>
        /\ \/ Answered(s, "ok", clock + 1)
           \/ Answered(s, "error", 0)
           \/ Answered(s, "ok", 0)
    BY <1>2 DEF Serve, ServeNothing, Due
  <2>2. clock + 1 \in Nat
    BY AdminPagesAssumption DEF Shape, Kept
  <2> QED BY <2>1, <2>2, AnsweredCalls
<1> QED BY <1>1, <1>2

-----------------------------------------------------------------------------
(* A handler and its answer.                                             *)
LEMMA AnswersIs ==
  ASSUME Calls, NEW s \in DOMAIN tasks, NEW at \in Answers(tasks[s])
  PROVE  /\ tasks[s] # None /\ tasks[s] \in Handler /\ at \in {"ok", "error"}
         /\ Dialog[tasks[s].name].does = "view" \/ tasks[s].at = at
         /\ [tasks[s] EXCEPT !.at = at] \in Handler
         /\ [tasks[s] EXCEPT !.at = at].of = tasks[s].of
         /\ [tasks[s] EXCEPT !.at = at].name = tasks[s].name
         /\ [tasks[s] EXCEPT !.at = at].row = tasks[s].row
         /\ [tasks[s] EXCEPT !.at = at].at = at
         /\ [tasks[s] EXCEPT !.at = at].ver = tasks[s].ver
<1>1. tasks[s] # None /\ tasks[s] \in Handler /\ at \in {"ok", "error"}
  BY DEF Answers, Calls
<1>2. Dialog[tasks[s].name].does = "view" \/ tasks[s].at = at
  BY <1>1 DEF Answers
<1> QED BY <1>1, <1>2 DEF Handler

(* What is done with an answer.                                          *)
Did(s, at) ==
  Now(IF at = "ok" THEN Dialog[tasks[s].name].then ELSE Dialog[tasks[s].name].fails)

Left(s, at) == IF "done" \in Did(s, at) THEN {tasks[s].name} ELSE {}

(* The dialog that is shut, if one is.                                   *)
Shuts(s, at) ==
  /\ "close" \in Did(s, at)
  /\ opened # None
  /\ opened = tasks[s].of \/ (Dialog[tasks[s].name].fresh /\ opened[1] = tasks[s].name)

LEMMA ReceiveIs ==
  ASSUME Calls, NEW s \in DOMAIN tasks, NEW at \in Answers(tasks[s]), Receive(s, at)
  PROVE  /\ tasks' = [tasks EXCEPT ![s] =
              IF "await" \in Did(s, at) THEN [tasks[s] EXCEPT !.at = "refetch"] ELSE None]
         /\ hand' = hand \ Left(s, at)
         /\ opened' = IF Shuts(s, at) THEN None ELSE opened
         /\ acked' = IF FirstLoad THEN acked ELSE Larger(acked, tasks[s].ver)
         /\ \E forms :
              /\ forms = [i \in {i \in DOMAIN form : i[1] \notin Left(s, at)} |->
                   IF i = tasks[s].of THEN Told(form[i], [tasks[s] EXCEPT !.at = at], Did(s, at)) ELSE form[i]]
              /\ \/ /\ Did(s, at) \cap {"invalidate", "await"} # {}
                    /\ form' = forms /\ invalidateQueries
                 \/ /\ Did(s, at) \cap {"invalidate", "await"} = {}
                    /\ cache' = cache
                    /\ \/ opened' = None /\ opened # None /\ Shut(forms)
                       \/ opened' = opened /\ form' = forms /\ fetch' = fetch
         /\ UNCHANGED <<page, match, rows, clock, no, odd>>
<1> DEFINE t == [tasks[s] EXCEPT !.at = at]
<1>1. t.of = tasks[s].of /\ t.name = tasks[s].name /\ t.ver = tasks[s].ver
  BY AnswersIs
<1>2. PICK did : did = Did(s, at)
  OBVIOUS
<1>3. Now(IF at = "ok" THEN Dialog[t.name].then ELSE Dialog[t.name].fails) = did
  BY <1>1, <1>2 DEF Did
<1>4. PICK gone : gone = Left(s, at)
  OBVIOUS
<1>5. (IF "done" \in did THEN {t.name} ELSE {}) = gone
  BY <1>1, <1>2, <1>4 DEF Left
<1>6. tasks' = [tasks EXCEPT ![s] = IF "await" \in did THEN [tasks[s] EXCEPT !.at = "refetch"] ELSE None]
  BY <1>3 DEF Receive, Calls
<1>7. hand' = hand \ gone
  BY <1>3, <1>5 DEF Receive
<1>8. PICK shut : shut = Shuts(s, at)
  OBVIOUS
<1>15. (/\ "close" \in did /\ opened # None
        /\ opened = t.of \/ (Dialog[t.name].fresh /\ opened[1] = t.name)) <=> shut
  BY <1>1, <1>2, <1>8 DEF Shuts
<1>16. opened' = IF shut THEN None ELSE opened
  BY <1>3, <1>15 DEF Receive
<1>9. acked' = IF FirstLoad THEN acked ELSE Larger(acked, tasks[s].ver)
  BY <1>1 DEF Receive
<1>10. UNCHANGED <<page, match, rows, clock, no, odd>>
  BY DEF Receive
<1>11. PICK forms : forms = [i \in {i \in DOMAIN form : i[1] \notin gone} |->
                   IF i = tasks[s].of THEN Told(form[i], t, did) ELSE form[i]]
  OBVIOUS
<1>12. forms = [i \in {i \in DOMAIN form : i[1] \notin gone} |->
                   IF i = t.of THEN Told(form[i], t, did) ELSE form[i]]
  BY <1>1, <1>11
<1>13. \/ /\ did \cap {"invalidate", "await"} # {}
          /\ form' = forms /\ invalidateQueries
       \/ /\ did \cap {"invalidate", "await"} = {}
          /\ cache' = cache
          /\ IF shut THEN Shut(forms) ELSE form' = forms /\ fetch' = fetch
  BY <1>3, <1>5, <1>12, <1>15 DEF Receive
<1>14. \/ /\ did \cap {"invalidate", "await"} # {}
          /\ form' = forms /\ invalidateQueries
       \/ /\ did \cap {"invalidate", "await"} = {}
          /\ cache' = cache
          /\ \/ opened' = None /\ opened # None /\ Shut(forms)
             \/ opened' = opened /\ form' = forms /\ fetch' = fetch
  BY <1>8, <1>13, <1>16 DEF Shuts
<1> HIDE DEF t
<1> QED BY <1>2, <1>4, <1>6, <1>7, <1>8, <1>9, <1>10, <1>11, <1>14, <1>16 DEF t

LEMMA ReceiveTask ==
  ASSUME Shape, NEW s \in DOMAIN tasks, NEW at \in Answers(tasks[s]), Receive(s, at)
  PROVE  /\ DOMAIN tasks' = DOMAIN tasks
         /\ tasks' \in [DOMAIN tasks -> Handler \cup {None}]
         /\ \A q \in DOMAIN tasks \ {s} : tasks'[q] = tasks[q]
         /\ tasks'[s] = None <=> "await" \notin Did(s, at)
         /\ tasks'[s] # None =>
              /\ tasks'[s].of = tasks[s].of /\ tasks'[s].name = tasks[s].name
              /\ tasks'[s].row = tasks[s].row
              /\ tasks'[s].at = "refetch" /\ tasks'[s].ver = tasks[s].ver
<1>1. tasks' = [tasks EXCEPT ![s] =
        IF "await" \in Did(s, at) THEN [tasks[s] EXCEPT !.at = "refetch"] ELSE None]
  BY ReceiveIs DEF Shape
<1>2. tasks[s] \in Handler /\ tasks \in [DOMAIN tasks -> Handler \cup {None}]
  BY AnswersIs DEF Shape, Calls
<1>3. /\ [tasks[s] EXCEPT !.at = "refetch"] \in Handler
      /\ [tasks[s] EXCEPT !.at = "refetch"].of = tasks[s].of
      /\ [tasks[s] EXCEPT !.at = "refetch"].name = tasks[s].name
      /\ [tasks[s] EXCEPT !.at = "refetch"].row = tasks[s].row
      /\ [tasks[s] EXCEPT !.at = "refetch"].at = "refetch"
      /\ [tasks[s] EXCEPT !.at = "refetch"].ver = tasks[s].ver
  BY <1>2 DEF Handler
<1> HIDE DEF Handler
<1> QED BY <1>1, <1>2, <1>3, AdminPagesAssumption

-----------------------------------------------------------------------------
(* The answer arrives.                                                   *)

(* The components that are left, a message having taken the place of     *)
(* one.                                                                  *)
LEMMA LeftIs ==
  ASSUME Shape, NEW s \in DOMAIN tasks, NEW at \in Answers(tasks[s])
  PROVE  /\ Left(s, at) \subseteq {tasks[s].name}
         /\ Left(s, at) # {} => Dialog[tasks[s].name].then = <<"done">> /\ ~Dialog[tasks[s].name].modal
         /\ Did(s, at) \subseteq {"await", "invalidate"} \cup {"show", "reset", "done", "close"}
         /\ "show" \in Did(s, at) => Dialog[tasks[s].name].does = "view"
         /\ "await" \in Did(s, at) => Dialog[tasks[s].name].then # <<"done">>
         /\ This.query = "dialog" => Left(s, at) = {} /\ Did(s, at) \cap {"invalidate", "await"} = {}
<1>1. tasks[s] # None /\ at \in {"ok", "error"}
  BY AnswersIs DEF Shape
<1>2. StepsFact(tasks[s].name)
  BY <1>1, TaskIs
<1>3. PICK steps \in {Dialog[tasks[s].name].then, Dialog[tasks[s].name].fails} : Did(s, at) = Now(steps)
  BY DEF Did
<1>4. steps \in Thens
  BY <1>2, <1>3 DEF StepsFact, Thens, Fails
<1>5. Did(s, at) \subseteq {"await", "invalidate"} \cup {"show", "reset", "done", "close"}
  BY <1>3, <1>4, NowIs DEF Thens
<1>6. /\ "done" \in Did(s, at) => Dialog[tasks[s].name].then = <<"done">> /\ ~Dialog[tasks[s].name].modal
      /\ "show" \in Did(s, at) => Dialog[tasks[s].name].does = "view"
      /\ "await" \in Did(s, at) => Dialog[tasks[s].name].then # <<"done">>
  BY <1>2, <1>3, StepsOf
<1>7. ASSUME This.query = "dialog"
      PROVE  Left(s, at) = {} /\ Did(s, at) \cap {"invalidate", "await"} = {}
  <2>1. tasks[s].name = "PermissionsForm"
    BY <1>1, <1>7, TaskIs, PageFacts DEF PageFact, This, Shape, Kept
  <2>2. Dialog["PermissionsForm"].then = <<"close">> /\ Dialog["PermissionsForm"].fails = <<>>
    BY DEF Dialog, PermissionsForm, Form, Anew
  <2>3. Did(s, at) \in {{"close"}, {}}
    BY <2>1, <2>2, NowIs DEF Did
  <2> QED BY <2>3 DEF Left
<1> QED BY <1>5, <1>6, <1>7 DEF Left

LEMMA ReceiveScreen ==
  ASSUME Shape, NEW s \in DOMAIN tasks, NEW at \in Answers(tasks[s]), Receive(s, at)
  PROVE  /\ Screen' = Screen /\ This' = This
         /\ OnScreen' = {i \in OnScreen : i[1] \notin Left(s, at)}
         /\ This.query # "dialog" => InForm' = {i \in InForm : i[1] \notin Left(s, at)}
         /\ This.query = "dialog" => InForm' = Fielded(Screen, opened')
<1>1. /\ hand' = hand \ Left(s, at) /\ page' = page /\ no' = no /\ match' = match
      /\ cache' = cache \/ cache' = [n \in DOMAIN cache |-> [cache[n] EXCEPT !.stale = cache[n].list # None]]
  BY ReceiveIs DEF Shape, invalidateQueries
<1>2. cache'[Slot(no)].list = cache[Slot(no)].list
  <2>1. Slot(no) \in DOMAIN cache /\ cache[Slot(no)] \in Entry
    BY ScreenListing DEF Shape, Kept
  <2>2. PICK b : b = (cache[Slot(no)].list # None)
    OBVIOUS
  <2>3. [cache[Slot(no)] EXCEPT !.stale = cache[Slot(no)].list # None].list = cache[Slot(no)].list
    BY <2>1 DEF Entry
  <2> QED BY <1>1, <2>1, <2>3
<1>3. Screen' = Screen /\ This' = This
  BY <1>1, <1>2, ScreenStays DEF This
<1>4. \A per : Held(per)' = Held(per) \ Left(s, at)
  BY <1>1 DEF Held
<1>5. OnScreen' = {i \in OnScreen : i[1] \notin Left(s, at)}
  <2>1. /\ Rows(Screen)' = Rows(Screen)
        /\ \A r : KeyOf(Screen, r)' = KeyOf(Screen, r)
    BY <1>3 DEF Rows, KeyOf
  <2>2. /\ Held("page")' = Held("page") \ Left(s, at)
        /\ Held("row")' = Held("row") \ Left(s, at)
    BY <1>4
  <2>3. OnScreen' = {<<d, 0>> : d \in Held("page") \ Left(s, at)}
               \cup {<<d, KeyOf(Screen, r)>> : d \in Held("row") \ Left(s, at), r \in Rows(Screen)}
    BY <2>1, <2>2 DEF OnScreen, Mounted
  <2>4. OnScreen = {<<d, 0>> : d \in Held("page")}
               \cup {<<d, KeyOf(Screen, r)>> : d \in Held("row"), r \in Rows(Screen)}
    BY DEF OnScreen, Mounted
  <2> QED BY <2>3, <2>4
<1>6. OnScreen' = {i \in OnScreen : i[1] \notin Left(s, at)}
  BY <1>5
<1>7. This.query # "dialog" => InForm' = {i \in InForm : i[1] \notin Left(s, at)}
  BY <1>3, <1>6 DEF InForm, Fielded, OnScreen
<1>8. This.query = "dialog" => InForm' = Fielded(Screen, opened')
  BY <1>3, <1>6, LeftIs DEF InForm, Fielded, OnScreen
<1> QED BY <1>3, <1>6, <1>7, <1>8

LEMMA ToldIs ==
  ASSUME NEW f \in Fields, NEW t \in Handler, NEW did
  PROVE  Told(f, t, did) \in Fields
  BY BlankFields DEF Told, Fields, Handler

LEMMA ReceiveShape ==
  ASSUME Shape, NEW s \in DOMAIN tasks, NEW at \in Answers(tasks[s]), Receive(s, at)
  PROVE  Forms' /\ Calls'
<1>1. Forms'
  <2>1. PICK forms :
          /\ forms = [i \in {i \in DOMAIN form : i[1] \notin Left(s, at)} |->
               IF i = tasks[s].of THEN Told(form[i], [tasks[s] EXCEPT !.at = at], Did(s, at)) ELSE form[i]]
          /\ \/ /\ Did(s, at) \cap {"invalidate", "await"} # {}
                /\ form' = forms /\ invalidateQueries
             \/ /\ Did(s, at) \cap {"invalidate", "await"} = {}
                /\ cache' = cache
                /\ \/ opened' = None /\ opened # None /\ Shut(forms)
                   \/ opened' = opened /\ form' = forms /\ fetch' = fetch
    BY ReceiveIs DEF Shape
  <2>2. forms \in [{i \in InForm : i[1] \notin Left(s, at)} -> Fields]
    <3>1. [tasks[s] EXCEPT !.at = at] \in Handler
      BY AnswersIs DEF Shape
    <3>2. form \in [InForm -> Fields]
      BY DEF Shape, Forms
    <3>3. \A i \in InForm : Told(form[i], [tasks[s] EXCEPT !.at = at], Did(s, at)) \in Fields
      BY <3>1, <3>2, ToldIs
    <3> QED BY <2>1, <3>2, <3>3
  <2>3. form' \in [InForm' -> Fields]
    <3>1. CASE This.query # "dialog"
      <4>1. form' = forms
        BY <2>1, <3>1 DEF Shut
      <4> QED BY <2>2, <3>1, <4>1, ReceiveScreen
    <3>2. CASE This.query = "dialog"
      <4>1. Left(s, at) = {} /\ Did(s, at) \cap {"invalidate", "await"} = {}
        BY <3>2, LeftIs
      <4>2. forms \in [InForm -> Fields]
        <5>1. {i \in InForm : i[1] \notin Left(s, at)} = InForm
          BY <4>1
        <5> QED BY <2>2, <5>1
      <4>3. CASE opened' = opened /\ form' = forms
        BY <3>2, <4>2, <4>3, ReceiveScreen DEF InForm
      <4>4. CASE opened' = None /\ Shut(forms)
        <5>1. hand' = hand /\ page' = page /\ no' = no /\ match' = match /\ cache' = cache
          BY <2>1, <4>1, ReceiveIs DEF Shape
        <5> QED BY <4>2, <4>4, <5>1, ShutShape DEF Forms
      <4> QED BY <2>1, <4>1, <4>3, <4>4
    <3> QED BY <3>1, <3>2
  <2>4. opened' \in {opened, None}
    BY ReceiveIs DEF Shape
  <2>5. opened # None => opened \in OnScreen /\ Dialog[opened[1]].modal
    BY DEF Shape, Forms
  <2>6. opened # None => opened[1] \notin Left(s, at)
    BY <2>5, LeftIs
  <2>7. opened' # None => opened' \in OnScreen' /\ Dialog[opened'[1]].modal
    BY <2>4, <2>5, <2>6, ReceiveScreen
  <2> QED BY <2>3, <2>7 DEF Forms
<1>2. Calls'
  <2>1. This' = This /\ OnScreen' = {i \in OnScreen : i[1] \notin Left(s, at)} /\ hand' = hand \ Left(s, at)
    BY ReceiveScreen, ReceiveIs DEF Shape
  <2>2. ASSUME NEW q \in DOMAIN tasks, tasks'[q] # None
        PROVE  /\ tasks[q] # None
               /\ tasks'[q].of = tasks[q].of /\ tasks'[q].name = tasks[q].name
               /\ tasks'[q].at = "refetch" => tasks[q].at = "refetch" \/ Dialog[tasks[q].name].then # <<"done">>
               /\ q = s => Left(s, at) = {}
    <3>1. CASE q = s
      <4>1. "await" \in Did(s, at)
        BY <2>2, <3>1, ReceiveTask
      <4>2. tasks[s] # None
        BY AnswersIs DEF Shape
      <4> QED BY <2>2, <3>1, <4>1, <4>2, LeftIs, ReceiveTask
    <3>2. CASE q # s
      BY <2>2, <3>2, ReceiveTask
    <3> QED BY <3>1, <3>2
  <2>3. ASSUME NEW q \in DOMAIN tasks, tasks'[q] # None, tasks'[q].of # None
        PROVE  tasks'[q].of \in OnScreen'
    <3>1. tasks[q].of \in OnScreen /\ tasks[q].of[1] = tasks[q].name /\ tasks[q].of[1] \in hand
      BY <2>2, <2>3, TaskIs
    <3>2. CASE tasks[q].name \in Left(s, at)
      <4>1. tasks[q].name = tasks[s].name /\ Dialog[tasks[s].name].then = <<"done">>
        BY <3>2, LeftIs
      <4>2. q # s /\ tasks[s] # None
        BY <2>2, <2>3, <3>2, AnswersIs DEF Shape
      <4>3. tasks[q].of = <<tasks[q].name, 0>> /\ tasks[s].of = <<tasks[q].name, 0>>
        BY <2>2, <2>3, <3>1, <4>1, <4>2 DEF Shape, Calls
      <4>4. tasks[q].of # None
        BY <2>2, <2>3
      <4> QED BY <2>2, <2>3, <4>1, <4>2, <4>3, <4>4 DEF Shape, Calls
    <3>3. CASE tasks[q].name \notin Left(s, at)
      BY <2>1, <2>2, <2>3, <3>1, <3>3
    <3> QED BY <3>2, <3>3
  <2>4. ASSUME NEW q \in DOMAIN tasks, tasks'[q] # None
        PROVE  /\ tasks'[q].name \in This'.holds
               /\ tasks'[q].of # None => tasks'[q].of[1] = tasks'[q].name
               /\ tasks'[q].at = "refetch" => Dialog[tasks'[q].name].then # <<"done">>
               /\ Dialog[tasks'[q].name].then = <<"done">> /\ tasks'[q].name \in hand' =>
                    tasks'[q].of = <<tasks'[q].name, 0>>
    BY <2>1, <2>2, <2>4 DEF Shape, Calls
  <2>5. ASSUME NEW p \in DOMAIN tasks, NEW q \in DOMAIN tasks,
               tasks'[p] # None, tasks'[q] # None, tasks'[p].of # None,
               tasks'[p].of = tasks'[q].of, Dialog[tasks'[p].name].then = <<"done">>
        PROVE  p = q
    BY <2>2, <2>5 DEF Shape, Calls
  <2>6. DOMAIN tasks \subseteq 1..MaxTask
    BY DEF Shape, Calls
  <2>7. DOMAIN tasks' = DOMAIN tasks /\ tasks' \in [DOMAIN tasks -> Handler \cup {None}]
    BY ReceiveTask
  <2> HIDE DEF Handler
  <2> QED BY <2>3, <2>4, <2>5, <2>6, <2>7 DEF Calls
<1> QED BY <1>1, <1>2

-----------------------------------------------------------------------------
(* The shape is kept, and the types with it.                             *)

LEMMA ShapeInit == Init => Shape
<1> SUFFICES ASSUME Init PROVE Shape
  OBVIOUS
<1> USE AdminPagesAssumption
<1>1. Kept
  <2>1. NewFetch \in Fetching /\ NewEntry \in Entry
    BY DEF NewFetch, NewEntry, Fetching, Entry
  <2>2. hand \subseteq This.holds /\ match \subseteq Row /\ no = 1 /\ clock = 0 /\ acked = 0
        /\ page \in DOMAIN Pages
    BY DEF Init
  <2>3. rows \in [Row -> 0..clock \cup {None, Gone}]
    BY DEF Init
  <2>4. cache \in [1..(IF This.paging = "server" THEN MaxPage ELSE 1) -> Entry]
    BY <2>1 DEF Init
  <2>5. fetch \in Fetching \cup {None}
    BY <2>1 DEF Init
  <2> QED BY <2>2, <2>3, <2>4, <2>5 DEF Kept
<1>2. Screen = Nothing
  <2>1. Slot(no) \in DOMAIN cache
    BY <1>1, ScreenListing
  <2>2. cache[Slot(no)].list = None
    BY <2>1 DEF Init, NewEntry
  <2> QED BY <2>2 DEF Screen, Shown
<1>3. Forms
  <2>1. opened = None
    BY DEF Init
  <2>2. form \in [{<<d, 0>> : d \in {d \in Held("page") : Dialog[d].seed # "none"}} -> Fields]
    BY BlankFields DEF Init
  <2>3. InForm = {<<d, 0>> : d \in {d \in Held("page") : Dialog[d].seed # "none"}}
    <3>1. CASE This.query = "dialog"
      <4>1. hand \subseteq {"PermissionsForm"}
        BY <1>1, <3>1, PageFacts DEF Kept, PageFact, This
      <4>2. Dialog["PermissionsForm"].per = "row"
        BY DEF Dialog, PermissionsForm, Form, Anew
      <4>3. Held("page") = {}
        BY <4>1, <4>2 DEF Held
      <4>4. None \notin Mounted(Screen)
        BY <1>1, MountedIs, ScreenListing
      <4>5. InForm = {}
        BY <2>1, <3>1, <4>4 DEF InForm, Fielded
      <4> QED BY <4>3, <4>5
    <3>2. CASE This.query # "dialog"
      <4>1. Rows(Nothing) = {}
        BY <3>2 DEF Rows, Nothing
      <4>2. Mounted(Nothing) = {<<d, 0>> : d \in Held("page")}
        BY <4>1 DEF Mounted
      <4> QED BY <1>2, <3>2, <4>2 DEF InForm, Fielded
    <3> QED BY <3>1, <3>2
  <2> QED BY <2>1, <2>2, <2>3 DEF Forms
<1>4. Calls
  <2>1. PICK n \in 1..MaxTask : tasks = [s \in 1..n |-> None]
    BY DEF Init
  <2>2. DOMAIN tasks \subseteq 1..MaxTask
    BY <2>1
  <2> QED BY <2>1, <2>2 DEF Calls
<1> QED BY <1>1, <1>3, <1>4 DEF Shape

LEMMA ShapeNext == Shape /\ [Next]_vars => Shape'
<1> SUFFICES ASSUME Shape, [Next]_vars PROVE Shape'
  OBVIOUS
<1>1. Kept'
  BY KeptNext
<1>2. CASE FetchServe \/ FetchDone \/ FetchFail \/ Refocus
  BY <1>1, <1>2, FetchShape DEF Shape
<1>3. ASSUME NEW n \in 1..MaxPage, Turn(n) PROVE Shape'
  BY <1>1, <1>3, TurnShape DEF Shape
<1>4. ASSUME NEW i \in OnScreen, Open(i) PROVE Shape'
  BY <1>1, <1>4, OpenShape DEF Shape
<1>5. ASSUME NEW i \in OnScreen, Type(i) PROVE Shape'
  BY <1>1, <1>5, TypeShape DEF Shape
<1>6. ASSUME NEW i, Search(i) PROVE Shape'
  BY <1>1, <1>6, SearchShape DEF Shape
<1>7. ASSUME NEW i \in OnScreen, NEW r, Press(i, r) PROVE Shape'
  BY <1>1, <1>7, PressShape DEF Shape
<1>8. ASSUME NEW i \in OnScreen, NEW r, Look(i, r) PROVE Shape'
  BY <1>1, <1>8, LookShape DEF Shape
<1>9. CASE Close
  BY <1>1, <1>9, CloseShape DEF Shape
<1>10. CASE Fold
  BY <1>1, <1>10, FoldShape DEF Shape
<1>11. CASE Elsewhere \/ \E s \in DOMAIN tasks : Serve(s) \/ ServeNothing(s)
  BY <1>1, <1>11, ServerShape DEF Shape
<1>12. ASSUME NEW s \in DOMAIN tasks, NEW at \in Answers(tasks[s]), Receive(s, at) PROVE Shape'
  BY <1>1, <1>12, ReceiveShape DEF Shape
<1>13. CASE UNCHANGED vars
  <2>1. UNCHANGED <<page, hand, match, no, cache, form, opened, tasks>>
    BY <1>13 DEF vars
  <2>2. OnScreen' = OnScreen /\ This' = This /\ InForm' = InForm
    BY <2>1, StayShape
  <2> QED BY <1>1, <2>1, <2>2 DEF Shape, Forms, Calls
<1> QED BY <1>2, <1>3, <1>4, <1>5, <1>6, <1>7, <1>8, <1>9, <1>10, <1>11, <1>12, <1>13 DEF Next, OnScreen

LEMMA ShapeTypeOK == Shape => TypeOK
<1> SUFFICES ASSUME Shape PROVE TypeOK
  OBVIOUS
<1>1. \A n \in DOMAIN cache : cache[n].list # None => DOMAIN cache[n].list \subseteq Row
  <2>1. \A n \in DOMAIN cache : cache[n].list \in Listing \cup {None}
    BY DEF Shape, Kept, Entry
  <2> QED BY <2>1, ListingIs
<1>2. rows \in [Row -> 0..MaxWrites \cup {None, Gone}]
  <2>1. clock \in 0..MaxWrites /\ rows \in [Row -> 0..clock \cup {None, Gone}]
    BY DEF Shape, Kept
  <2>2. 0..clock \subseteq 0..MaxWrites
    BY <2>1, AdminPagesAssumption
  <2> QED BY <2>1, <2>2
<1>3. DOMAIN form = Fielded(Screen, opened)
  BY DEF Shape, Forms, InForm
<1>4. opened \in Mounted(Screen) \cup {None}
  BY DEF Shape, Forms, OnScreen
<1>5. \A s \in DOMAIN tasks : tasks[s] # None => tasks[s].of \in Mounted(Screen) \cup {None}
  BY DEF Shape, Calls, OnScreen
<1> QED BY <1>1, <1>2, <1>3, <1>4, <1>5 DEF TypeOK, Shape, Kept

(* Every variable has its type, the forms are those of what is mounted,  *)
(* what is open is mounted, and so is the component that a handler still *)
(* knows.                                                                *)
THEOREM AdminPagesType == Spec => []TypeOK
<1>1. Init => Shape
  BY ShapeInit
<1>2. Shape /\ [Next]_vars => Shape'
  BY ShapeNext
<1>3. Shape => TypeOK
  BY ShapeTypeOK
<1> QED BY <1>1, <1>2, <1>3, PTL DEF Spec

-----------------------------------------------------------------------------
(* What becomes of a handler in a step.                                  *)

(* A handler goes on as it was.                                          *)
Same(q) ==
  /\ tasks[q] # None
  /\ tasks'[q].name = tasks[q].name /\ tasks'[q].row = tasks[q].row
  /\ tasks'[q].at = tasks[q].at /\ tasks'[q].ver = tasks[q].ver
  /\ tasks'[q].of \in {tasks[q].of, None}

LEMMA OrphanedSame ==
  ASSUME Shape, NEW ts, ts \in [DOMAIN tasks -> Handler \cup {None}], NEW l,
         \A s \in DOMAIN tasks : ts[s] \in {tasks[s], None},
         tasks' = Orphaned(ts, l), NEW q \in DOMAIN tasks', tasks'[q] # None
  PROVE  q \in DOMAIN tasks /\ Same(q)
<1>1. DOMAIN tasks' = DOMAIN tasks /\ ts[q] # None
  BY OrphanedIs
<1>2. ts[q] = tasks[q] /\ q \in DOMAIN tasks
  BY <1>1
<1> QED BY <1>1, <1>2, OrphanedIs DEF Same

LEMMA RenderSame ==
  ASSUME Shape, NEW n, NEW m, NEW entries, Render(entries, n, m, Screen),
         NEW q \in DOMAIN tasks', tasks'[q] # None
  PROVE  q \in DOMAIN tasks /\ Same(q)
<1>1. PICK l : tasks' = Orphaned(Ended, l)
  BY DEF Render
<1>2. Ended \in [DOMAIN tasks -> Handler \cup {None}] /\ \A s \in DOMAIN tasks : Ended[s] \in {tasks[s], None}
  BY EndedIs DEF Shape
<1> HIDE DEF Handler
<1> QED BY <1>1, <1>2, OrphanedSame

(* What changes the rows.                                                *)
Writing == {"insert", "update", "delete", "clean"}

(* What becomes of a handler in a step.                                  *)
Begun(q) ==
  /\ tasks[q] = None
  /\ \E i \in OnScreen : \E r \in Targets(i) :
       /\ Press(i, r) \/ Look(i, r)
       /\ tasks'[q].of = i /\ tasks'[q].name = i[1] /\ tasks'[q].row = r
       /\ tasks'[q].at = "wire" /\ tasks'[q].ver = 0

Served(q) ==
  /\ q \in Due
  /\ tasks'[q].of = tasks[q].of /\ tasks'[q].name = tasks[q].name /\ tasks'[q].row = tasks[q].row
  /\ \/ tasks'[q].at \in {"ok", "error"} /\ tasks'[q].ver = 0
     \/ /\ tasks'[q].at = "ok" /\ tasks'[q].ver = clock'
        /\ Dialog[tasks[q].name].does \in Writing

Awaiting(q) ==
  /\ tasks[q] # None
  /\ tasks'[q].of = tasks[q].of /\ tasks'[q].name = tasks[q].name /\ tasks'[q].row = tasks[q].row
  /\ tasks'[q].at = "refetch" /\ tasks'[q].ver = tasks[q].ver
  /\ \E at \in Answers(tasks[q]) : Receive(q, at) /\ "await" \in Did(q, at)

LEMMA StartedNext ==
  ASSUME Shape, NEW i \in OnScreen, NEW r \in Targets(i), Started(i, r), Press(i, r) \/ Look(i, r),
         NEW q \in DOMAIN tasks', tasks'[q] # None
  PROVE  q \in DOMAIN tasks /\ (Same(q) \/ Begun(q))
<1>1. r \in Row \cup {None}
  BY TargetsIs
<1>2. PICK s \in DOMAIN tasks :
           /\ tasks[s] = None
           /\ DOMAIN tasks' = DOMAIN tasks
           /\ tasks'[s] # None
           /\ tasks'[s].of = i /\ tasks'[s].name = i[1] /\ tasks'[s].row = r
           /\ tasks'[s].at = "wire" /\ tasks'[s].ver = 0
           /\ \A p \in DOMAIN tasks \ {s} : tasks'[p] = tasks[p]
  BY <1>1, StartedIs
<1>3. CASE q = s
  <2>1. Begun(s)
    BY <1>2 DEF Begun
  <2> QED BY <1>2, <1>3, <2>1
<1>4. CASE q # s
  BY <1>2, <1>4 DEF Same
<1> QED BY <1>3, <1>4

LEMMA ServedNext ==
  ASSUME Shape, NEW s \in DOMAIN tasks, Serve(s) \/ ServeNothing(s),
         NEW q \in DOMAIN tasks', tasks'[q] # None
  PROVE  q \in DOMAIN tasks /\ (Same(q) \/ Served(q))
<1>1. PICK at \in {"ok", "error"}, ver \in Nat :
        /\ Answered(s, at, ver)
        /\ s \in Due
        /\ ver = 0 \/ (at = "ok" /\ ver = clock' /\ Dialog[tasks[s].name].does \in Writing)
  <2>1. CASE Serve(s)
    <3>1. Dialog[tasks[s].name].does \in Writing
      BY <2>1 DEF Serve, Changed, Writing
    <3>2. clock' \in Nat /\ clock' = clock + 1
      BY <2>1, AdminPagesAssumption DEF Serve, Shape, Kept
    <3> QED BY <2>1, <3>1, <3>2 DEF Serve
  <2>2. CASE ServeNothing(s)
    BY <2>2 DEF ServeNothing
  <2> QED BY <2>1, <2>2
<1>2. tasks[s] # None
  BY <1>1 DEF Due
<1>3. /\ DOMAIN tasks' = DOMAIN tasks
      /\ tasks'[s].of = tasks[s].of /\ tasks'[s].name = tasks[s].name
      /\ tasks'[s].row = tasks[s].row
      /\ tasks'[s].at = at /\ tasks'[s].ver = ver
      /\ \A p \in DOMAIN tasks \ {s} : tasks'[p] = tasks[p]
  BY <1>1, <1>2, AnsweredIs
<1>4. CASE q = s
  BY <1>1, <1>3, <1>4 DEF Served
<1>5. CASE q # s
  BY <1>3, <1>5 DEF Same
<1> QED BY <1>4, <1>5

LEMMA ReceivedNext ==
  ASSUME Shape, NEW s \in DOMAIN tasks, NEW at \in Answers(tasks[s]), Receive(s, at),
         NEW q \in DOMAIN tasks', tasks'[q] # None
  PROVE  q \in DOMAIN tasks /\ (Same(q) \/ Awaiting(q))
<1>1. q \in DOMAIN tasks
  BY ReceiveTask
<1>2. CASE q = s
  <2>1. tasks[s] # None
    BY AnswersIs DEF Shape
  <2> QED BY <1>1, <1>2, <2>1, ReceiveTask DEF Awaiting
<1>3. CASE q # s
  BY <1>1, <1>3, ReceiveTask DEF Same
<1> QED BY <1>2, <1>3

LEMMA TaskNext ==
  ASSUME Shape, [Next]_vars, NEW q \in DOMAIN tasks', tasks'[q] # None
  PROVE  q \in DOMAIN tasks /\ (Same(q) \/ Begun(q) \/ Served(q) \/ Awaiting(q))
<1>1. ASSUME UNCHANGED tasks
      PROVE  q \in DOMAIN tasks /\ Same(q)
  BY <1>1 DEF Same
<1>2. CASE FetchServe \/ Refocus \/ Elsewhere \/ (\E i \in OnScreen : Open(i) \/ Type(i)) \/ UNCHANGED vars
  BY <1>1, <1>2 DEF FetchServe, Refocus, Elsewhere, Open, Type, vars
<1>3. CASE FetchDone \/ FetchFail
  BY <1>3, RenderSame DEF FetchDone, FetchFail
<1>4. ASSUME NEW n, Turn(n) PROVE q \in DOMAIN tasks /\ Same(q)
  <2>1. CASE This.paging = "server"
    BY <1>4, <2>1, RenderSame DEF Turn
  <2>2. CASE This.paging # "server"
    <3>1. PICK l : tasks' = Orphaned(tasks, l)
      BY <1>4, <2>2 DEF Turn
    <3>2. tasks \in [DOMAIN tasks -> Handler \cup {None}]
      BY DEF Shape, Calls
    <3> HIDE DEF Handler
    <3> QED BY <3>1, <3>2, OrphanedSame
  <2> QED BY <2>1, <2>2
<1>5. ASSUME NEW i, Search(i) PROVE q \in DOMAIN tasks /\ Same(q)
  BY <1>5, RenderSame DEF Search, Filtered
<1>6. ASSUME NEW i \in OnScreen, NEW r \in Targets(i), Press(i, r) \/ Look(i, r)
      PROVE  q \in DOMAIN tasks /\ (Same(q) \/ Begun(q))
  <2>1. Started(i, r) \/ UNCHANGED tasks
    BY <1>6 DEF Press, Look
  <2> QED BY <1>1, <1>6, <2>1, StartedNext
<1>7. CASE Close \/ Fold
  <2>1. /\ DOMAIN tasks' = DOMAIN tasks
        /\ \A s \in DOMAIN tasks : tasks'[s] = tasks[s] \/ (tasks[s] # None /\ tasks'[s] = [tasks[s] EXCEPT !.of = None])
    BY <1>7 DEF Close, Fold
  <2>2. tasks[q] \in Handler \cup {None}
    BY <2>1 DEF Shape, Calls
  <2> QED BY <2>1, <2>2 DEF Same, Handler
<1>8. ASSUME NEW s \in DOMAIN tasks, Serve(s) \/ ServeNothing(s)
      PROVE  q \in DOMAIN tasks /\ (Same(q) \/ Served(q))
  BY <1>8, ServedNext
<1>9. ASSUME NEW s \in DOMAIN tasks, NEW at \in Answers(tasks[s]), Receive(s, at)
      PROVE  q \in DOMAIN tasks /\ (Same(q) \/ Awaiting(q))
  BY <1>9, ReceivedNext
<1> QED BY <1>2, <1>3, <1>4, <1>5, <1>6, <1>7, <1>8, <1>9 DEF Next, OnScreen

-----------------------------------------------------------------------------
(* A list that passes for fresh shows what this tab was told.            *)

(* What the tab was told, and what it has listed since.                  *)
Answering ==
  /\ acked <= clock
  /\ \A s \in DOMAIN tasks :
       tasks[s] # None =>
         /\ tasks[s].ver <= clock
         /\ tasks[s].ver # 0 =>
              tasks[s].at \in {"ok", "refetch"} /\ Dialog[tasks[s].name].does \in Writing

Listed ==
  This.query = "page" =>
    /\ fetch # None /\ fetch.list # None => fetch.at >= acked
    /\ \A n \in DOMAIN cache : cache[n].list = None \/ cache[n].stale \/ cache[n].at >= acked

LEMMA ClockGrows ==
  ASSUME Shape, [Next]_vars
  PROVE  /\ page' = page /\ This' = This
         /\ clock' >= clock /\ clock \in Nat /\ clock' \in Nat /\ acked \in Nat
<1> DEFINE Goes == page' = page /\ clock' \in {clock, clock + 1}
<1>1. ASSUME FetchServe \/ FetchDone \/ FetchFail \/ Refocus PROVE Goes
  BY <1>1 DEF FetchServe, FetchDone, FetchFail, Refocus
<1>2. ASSUME NEW n, Turn(n) PROVE Goes
  BY <1>2 DEF Turn
<1>3. ASSUME NEW i, Open(i) \/ Type(i) PROVE Goes
  BY <1>3 DEF Open, Type
<1>4. ASSUME NEW i, Search(i) PROVE Goes
  BY <1>4 DEF Search, Filtered
<1>5. ASSUME NEW i, NEW r, Press(i, r) \/ Look(i, r) PROVE Goes
  BY <1>5 DEF Press, Look
<1>6. ASSUME Close \/ Fold \/ Elsewhere PROVE Goes
  BY <1>6 DEF Close, Fold, Elsewhere
<1>7. ASSUME NEW s, Serve(s) \/ ServeNothing(s) PROVE Goes
  BY <1>7 DEF Serve, ServeNothing
<1>8. ASSUME NEW s, NEW at, Receive(s, at) PROVE Goes
  BY <1>8 DEF Receive
<1>9. ASSUME UNCHANGED vars PROVE Goes
  BY <1>9 DEF vars
<1>10. Goes
  BY <1>1, <1>2, <1>3, <1>4, <1>5, <1>6, <1>7, <1>8, <1>9 DEF Next
<1>11. clock \in Nat /\ acked \in Nat
  BY AdminPagesAssumption DEF Shape, Kept
<1> QED BY <1>10, <1>11 DEF This

(* A write is over only when its rows are to be fetched again.           *)
LEMMA WriteRefetches ==
  ASSUME Shape, Answering, This.query = "page", NEW s \in DOMAIN tasks, NEW at \in Answers(tasks[s]),
         tasks[s].ver # 0
  PROVE  Did(s, at) \cap {"invalidate", "await"} # {}
<1>1. tasks[s] # None
  BY AnswersIs DEF Shape
<1>2. Dialog[tasks[s].name].does \in Writing /\ tasks[s].at \in {"ok", "refetch"}
  BY <1>1 DEF Answering
<1>3. at = "ok"
  BY <1>1, <1>2, AnswersIs DEF Shape, Writing
<1>4. tasks[s].name \notin {"PermissionsForm", "ForgotPasswordForm"}
  BY <1>1, TaskIs, PageFacts DEF PageFact, This, Shape, Kept
<1>5. Dialog[tasks[s].name].then \in
        Thens \ {<<>>, <<"show">>, <<"reset">>, <<"done">>, <<"close">>, <<"reset", "close">>}
  BY <1>1, <1>2, <1>4, TaskIs DEF StepsFact, Writing
<1>6. Did(s, at) = Now(Dialog[tasks[s].name].then)
  BY <1>3 DEF Did
<1>7. PICK steps : steps = Dialog[tasks[s].name].then
  OBVIOUS
<1>8. "invalidate" \in Now(steps) \/ "await" \in Now(steps)
  BY <1>5, <1>7, NowIs DEF Thens
<1> QED BY <1>6, <1>7, <1>8

LEMMA AnsweringNext ==
  ASSUME Shape, Answering, [Next]_vars
  PROVE  Answering'
<1>1. clock' >= clock /\ clock \in Nat /\ clock' \in Nat /\ acked \in Nat
  BY ClockGrows
<1>2. acked' <= clock'
  <2>1. ASSUME NEW s \in DOMAIN tasks, NEW at \in Answers(tasks[s]), Receive(s, at)
        PROVE  acked' <= clock'
    <3>1. tasks[s] # None /\ tasks[s].ver \in Nat
      BY AnswersIs DEF Shape, Handler
    <3>2. acked' \in {acked, tasks[s].ver}
      BY <2>1, <3>1, ReceiveIs DEF Larger, Shape
    <3> QED BY <1>1, <3>1, <3>2 DEF Answering
  <2>2. CASE acked' = acked
    BY <1>1, <2>2 DEF Answering
  <2> QED BY <2>1, <2>2 DEF Next, vars, FetchServe, FetchDone, FetchFail, Refocus, Turn, Open, Type,
        Search, Filtered, Press, Look, Close, Fold, Serve, ServeNothing, Elsewhere
<1>3. ASSUME NEW q \in DOMAIN tasks', tasks'[q] # None
      PROVE  /\ tasks'[q].ver <= clock'
             /\ tasks'[q].ver # 0 =>
                  tasks'[q].at \in {"ok", "refetch"} /\ Dialog[tasks'[q].name].does \in Writing
  <2>1. q \in DOMAIN tasks /\ (Same(q) \/ Begun(q) \/ Served(q) \/ Awaiting(q))
    BY <1>3, TaskNext
  <2>2. q \in DOMAIN tasks /\ tasks[q] # None => tasks[q].ver \in Nat
    BY DEF Shape, Calls, Handler
  <2>3. CASE Same(q) \/ Awaiting(q)
    BY <1>1, <2>1, <2>2, <2>3 DEF Same, Awaiting, Answering
  <2>4. CASE Begun(q) \/ Served(q)
    BY <1>1, <2>1, <2>4 DEF Begun, Served
  <2> QED BY <2>1, <2>3, <2>4
<1> QED BY <1>2, <1>3 DEF Answering

LEMMA ListedNext ==
  ASSUME Shape, Answering, Listed, [Next]_vars
  PROVE  Listed'
<1> USE AdminPagesAssumption
<1>1. clock' >= clock /\ clock \in Nat /\ clock' \in Nat /\ acked \in Nat
  BY ClockGrows
<1>2. This' = This
  BY ClockGrows
<1> SUFFICES ASSUME This.query = "page"
             PROVE  /\ fetch' # None /\ fetch'.list # None => fetch'.at >= acked'
                    /\ \A n \in DOMAIN cache' :
                         cache'[n].list = None \/ cache'[n].stale \/ cache'[n].at >= acked'
  BY <1>2 DEF Listed
<1>3. /\ fetch # None /\ fetch.list # None => fetch.at >= acked
      /\ \A n \in DOMAIN cache : cache[n].list = None \/ cache[n].stale \/ cache[n].at >= acked
  BY DEF Listed
<1>4. NewFetch.list = None /\ NewEntry.list = None
  BY DEF NewFetch, NewEntry
<1>5. ASSUME cache' = cache, fetch' \in {fetch, NewFetch, None}, acked' = acked
      PROVE  /\ fetch' # None /\ fetch'.list # None => fetch'.at >= acked'
             /\ \A n \in DOMAIN cache' :
                  cache'[n].list = None \/ cache'[n].stale \/ cache'[n].at >= acked'
  BY <1>3, <1>4, <1>5
<1>6. CASE FetchServe
  <2>1. fetch \in Fetching
    BY <1>6 DEF FetchServe, Shape, Kept
  <2>2. fetch'.at = clock
    BY <1>6, <2>1 DEF FetchServe, Fetching
  <2> QED BY <1>1, <1>3, <1>6, <2>2 DEF FetchServe, Answering
<1>7. CASE FetchDone
  <2>1. PICK e : e = [list |-> fetch.list, more |-> fetch.more, at |-> fetch.at, stale |-> FALSE]
    OBVIOUS
  <2>2. e.list = None \/ e.at >= acked
    BY <1>3, <1>7, <2>1 DEF FetchDone
  <2>3. cache' = [cache EXCEPT ![Slot(no)] = e] /\ fetch' = None /\ acked' = acked
    BY <1>7, <2>1 DEF FetchDone, Render
  <2>4. cache \in [DOMAIN cache -> Entry]
    BY DEF Shape, Kept
  <2> QED BY <1>3, <2>2, <2>3, <2>4
<1>8. CASE FetchFail \/ Refocus
  BY <1>5, <1>8 DEF FetchFail, Refocus, Render
<1>9. ASSUME NEW n, Turn(n)
      PROVE  cache' = cache /\ fetch' \in {fetch, NewFetch, None} /\ acked' = acked
  BY <1>9 DEF Turn, Observe, Render
<1>10. ASSUME NEW i, Open(i)
       PROVE  cache' = cache /\ fetch' \in {fetch, NewFetch, None} /\ acked' = acked
  BY <1>10 DEF Open, Observe
<1>11. ASSUME NEW i, Search(i)
       PROVE  /\ fetch' # None /\ fetch'.list # None => fetch'.at >= acked'
              /\ \A n \in DOMAIN cache' :
                   cache'[n].list = None \/ cache'[n].stale \/ cache'[n].at >= acked'
  <2>1. PICK m \in SUBSET Row : Filtered(i, m, 1)
    BY <1>11 DEF Search
  <2>2. CASE This.paging # "client"
    BY <1>4, <2>1, <2>2 DEF Filtered, Render
  <2>3. CASE This.paging = "client"
    BY <1>5, <2>1, <2>3 DEF Filtered, Render
  <2> QED BY <2>2, <2>3
<1>12. ASSUME NEW i, NEW r, Type(i) \/ Press(i, r) \/ Look(i, r)
       PROVE  cache' = cache /\ fetch' = fetch /\ acked' = acked
  BY <1>12 DEF Type, Press, Look
<1>13. ASSUME Close \/ Fold \/ Elsewhere \/ (\E s \in DOMAIN tasks : Serve(s) \/ ServeNothing(s)) \/ UNCHANGED vars
       PROVE  cache' = cache /\ fetch' \in {fetch, NewFetch, None} /\ acked' = acked
  BY <1>13 DEF Close, Shut, Fold, Elsewhere, Serve, ServeNothing, vars
<1>14. ASSUME NEW s \in DOMAIN tasks, NEW at \in Answers(tasks[s]), Receive(s, at)
       PROVE  /\ fetch' # None /\ fetch'.list # None => fetch'.at >= acked'
              /\ \A n \in DOMAIN cache' :
                   cache'[n].list = None \/ cache'[n].stale \/ cache'[n].at >= acked'
  <2>1. CASE Did(s, at) \cap {"invalidate", "await"} # {}
    <3>1. /\ cache' = [n \in DOMAIN cache |-> [cache[n] EXCEPT !.stale = cache[n].list # None]]
          /\ fetch' = IF FirstLoad THEN fetch ELSE NewFetch
          /\ acked' = IF FirstLoad THEN acked ELSE Larger(acked, tasks[s].ver)
      BY <1>14, <2>1, ReceiveIs DEF invalidateQueries, Shape
    <3>2. ASSUME NEW n \in DOMAIN cache'
          PROVE  cache'[n].list = None \/ cache'[n].stale
      <4>1. cache[n] \in Entry
        BY <3>1 DEF Shape, Kept
      <4>2. PICK b \in BOOLEAN : b = (cache[n].list # None)
        OBVIOUS
      <4>3. cache'[n] = [cache[n] EXCEPT !.stale = b]
        BY <3>1, <4>2
      <4> QED BY <4>1, <4>2, <4>3 DEF Entry
    <3> QED BY <1>3, <1>4, <3>1, <3>2
  <2>2. CASE Did(s, at) \cap {"invalidate", "await"} = {}
    <3>1. tasks[s].ver = 0
      BY <2>2, WriteRefetches
    <3>2. acked' = acked
      <4>1. acked' = IF FirstLoad THEN acked ELSE Larger(acked, tasks[s].ver)
        BY <1>14, ReceiveIs DEF Shape
      <4> QED BY <1>1, <3>1, <4>1 DEF Larger
    <3>3. cache' = cache /\ fetch' \in {fetch, NewFetch, None}
      BY <1>14, <2>2, ReceiveIs DEF Shut, Shape
    <3> QED BY <1>5, <3>2, <3>3
  <2> QED BY <2>1, <2>2
<1> QED BY <1>5, <1>6, <1>7, <1>8, <1>9, <1>10, <1>11, <1>12, <1>13, <1>14 DEF Next

(* OwnWriteListed: a list that passes for fresh has what this tab was    *)
(* told it changed.  Every handler that changes the list invalidates it  *)
(* with the answer (WriteRefetches), so that an entry is marked in the   *)
(* step in which the tab is told, and whatever is listed after that has  *)
(* been read after it.                                                   *)
THEOREM OwnWritesListed == Spec => []OwnWriteListed
<1> DEFINE IInv == Shape /\ Answering /\ Listed
<1>1. Init => IInv
  <2> SUFFICES ASSUME Init PROVE Answering /\ Listed
    BY ShapeInit
  <2>1. Answering
    BY DEF Init, Answering
  <2>2. Listed
    BY DEF Init, Listed, NewFetch, NewEntry
  <2> QED BY <2>1, <2>2
<1>2. IInv /\ [Next]_vars => IInv'
  BY ShapeNext, AnsweringNext, ListedNext
<1>3. IInv => OwnWriteListed
  BY DEF Listed, OwnWriteListed
<1> QED BY <1>1, <1>2, <1>3, PTL DEF Spec

-----------------------------------------------------------------------------
(* What becomes of a form in a step.                                     *)

(* Fields that are just filled in, or empty.                             *)
Fresh(f, i) ==
  /\ f.sent = "no" /\ f.shows = None
  /\ i[2] = 0 => f.who = None
  /\ i[2] # 0 /\ This.key # "place" => f.who \in {None, i[2]}
  /\ Dialog[i[1]].does = "update" /\ i[1] \notin {"SiteSettingsForm", "PermissionsForm"} => f.who # None

LEMMA SeededFresh ==
  ASSUME Kept, NEW l \in Listing, NEW i \in Mounted(l), Dialog[i[1]].seed # "none"
  PROVE  Fresh(Seeded(l, i), i)
<1>1. KindFact(i[1]) /\ i[1] \in This.holds
  BY MountedIs, DialogFacts DEF Kept
<1>2. ASSUME Dialog[i[1]].does = "update", i[1] \notin {"SiteSettingsForm", "PermissionsForm"}
      PROVE  Seeded(l, i).who # None
  <2>1. Dialog[i[1]].per = "row" /\ Dialog[i[1]].seed \in {"mount", "tracks", "open", "effect"}
    BY <1>1, <1>2 DEF KindFact
  <2>2. This.query # "dialog"
    BY <1>1, <1>2, PageFacts DEF PageFact, This, Kept
  <2>3. RowOf(l, i) \in DOMAIN l /\ RowOf(l, i) \in Row
    BY <2>1, <2>2, MountedIs DEF Rows
  <2> QED BY <2>1, <2>3, SeededIs, AdminPagesAssumption
<1>3. i[2] = 0 => RowOf(l, i) = None
  BY MountedIs
<1>4. i[2] # 0 /\ This.key # "place" => RowOf(l, i) = i[2]
  BY MountedIs
<1> QED BY <1>2, <1>3, <1>4, SeededIs DEF Fresh

LEMMA BlankFresh ==
  ASSUME NEW i, Dialog[i[1]].does # "update"
  PROVE  Fresh(Blank, i)
  BY DEF Fresh, Blank

(* What becomes of a form in a step.                                     *)
Stays(i) == i \in InForm /\ form'[i] = form[i]

Typed(i) ==
  /\ i \in InForm /\ i \in OnScreen /\ Type(i)
  /\ form'[i].shows = form[i].shows
  /\ form'[i].who = IF Dialog[i[1]].seed = "blank" THEN RowOf(Screen, i) ELSE form[i].who
  /\ form'[i].sent = IF Dialog[i[1]].does = "update" THEN form[i].sent ELSE "no"

Pressed(i) ==
  /\ i \in InForm /\ i \in OnScreen
  /\ \E r \in Targets(i) : Press(i, r)
  /\ form'[i].shows = form[i].shows /\ form'[i].who = form[i].who
  /\ form'[i].sent = IF form[i].sent \in {"no", "moved"} /\ Dialog[i[1]].does \in {"insert", "update"}
                       THEN "sent" ELSE form[i].sent

(* Another dictionary has been selected.                                 *)
Displaced(i) ==
  /\ i \in InForm /\ i[1] = "CreateDictItemDialog" /\ Dialog[i[1]].does = "insert"
  /\ form'[i].who = form[i].who /\ form'[i].shows = form[i].shows

Looked(i) ==
  /\ i \in OnScreen
  /\ \E r \in Targets(i) : /\ Look(i, r) /\ form'[i].shows = None /\ form'[i].sent = "no"
                           /\ Dialog[i[1]].modal => form'[i].who = r

Informed(i) ==
  /\ i \in InForm
  /\ \E s \in DOMAIN tasks : \E at \in Answers(tasks[s]) :
       /\ Receive(s, at) /\ tasks[s].of = i
       /\ form'[i] = Told(form[i], [tasks[s] EXCEPT !.at = at], Did(s, at))

(* Only an item of a dictionary may go elsewhere.                        *)
LEMMA NestedIs ==
  ASSUME Shape, This.nested, NEW d \in This.holds, Dialog[d].does = "insert"
  PROVE  d = "CreateDictItemDialog"
<1>1. d \in {"CreateDictItemDialog", "EditDictItemDialog", "DeleteDictItemDialog", "DictSelect"}
  BY PageFacts DEF PageFact, This, Shape, Kept
<1>2. Dialog["EditDictItemDialog"].does = "update"
  BY DEF Dialog, DictItemDialog, Form
<1>3. Dialog["DeleteDictItemDialog"].does = "delete"
  BY DEF Dialog, DeleteDictItemDialog, Confirm
<1>4. Dialog["DictSelect"].does = "search"
  BY DEF Dialog, DictSelect, Filters, Inline, Form
<1> QED BY <1>1, <1>2, <1>3, <1>4

LEMMA RefetchedFresh ==
  ASSUME Shape, NEW i \in InForm
  PROVE  \/ i \notin Resetting /\ AfterRefetch[i] = form[i]
         \/ AfterRefetch[i] = Blank /\ Fresh(Blank, i)
<1>1. AfterRefetch[i] = IF i \in Resetting THEN Blank ELSE form[i]
  BY AfterRefetchIs DEF Shape
<1>2. ASSUME i \in Resetting PROVE Fresh(Blank, i)
  <2>1. PICK s \in DOMAIN tasks :
          tasks[s] # None /\ i = tasks[s].of /\ "reset" \in Later(Dialog[tasks[s].name].then)
    BY <1>2 DEF Resetting, Resumed
  <2>2. i \in OnScreen /\ Dialog[i[1]].seed # "none" /\ i # None
    BY InFormIs, OnScreenIs
  <2>3. i[1] = tasks[s].name
    BY <2>1, <2>2, TaskIs
  <2>4. StepsFact(i[1])
    BY <2>2, OnScreenIs
  <2>5. "reset" \in Later(Dialog[i[1]].then)
    BY <2>1, <2>3
  <2>6. ASSUME Dialog[i[1]].does = "update" PROVE FALSE
    <3>1. Dialog[i[1]].then \in {<<"await">>, <<"await", "close">>, <<"invalidate", "close">>,
                              <<"close", "invalidate">>, <<"close">>}
      BY <2>2, <2>4, <2>6 DEF StepsFact
    <3>2. /\ Later(<<"invalidate", "close">>) = {}
          /\ Later(<<"close", "invalidate">>) = {}
          /\ Later(<<"close">>) = {}
      BY NowIs DEF Later
    <3> QED BY <2>5, <3>1, <3>2, LaterIs
  <2> QED BY <2>6, BlankFresh
<1> QED BY <1>1, <1>2

LEMMA RenderedNext ==
  ASSUME Shape, NEW l \in Listing, NEW old, NEW o, NEW forms, \A i \in DOMAIN forms : forms[i] \in Fields,
         form' = Rendered(forms, old, l, o), NEW i \in DOMAIN form'
  PROVE  /\ i \in Mounted(l)
         /\ \/ Fresh(form'[i], i)
            \/ i \in DOMAIN forms /\ form'[i] = forms[i]
<1>1. i \in Fielded(l, o)
  BY RenderedIs DEF Shape
<1>2. i \in Mounted(l) /\ Dialog[i[1]].seed # "none"
  BY <1>1 DEF Fielded
<1>3. form'[i] = Seeded(l, i) \/ (i \in DOMAIN forms /\ form'[i] = forms[i])
  BY <1>1, RenderedIs DEF Shape
<1> QED BY <1>2, <1>3, SeededFresh DEF Shape

(* The dialog for a new item is never reset.                             *)
LEMMA KeptUnreset ==
  ASSUME Shape, NEW i \in InForm, i[1] = "CreateDictItemDialog"
  PROVE  i \notin Resetting
<1>1. Dialog["CreateDictItemDialog"].then = <<"await", "close">>
  BY DEF Dialog, DictItemDialog, Form
<1>2. "reset" \notin Later(<<"await", "close">>)
  BY LaterIs
<1> SUFFICES ASSUME i \in Resetting PROVE FALSE
  OBVIOUS
<1>3. PICK s \in DOMAIN tasks :
        tasks[s] # None /\ i = tasks[s].of /\ "reset" \in Later(Dialog[tasks[s].name].then)
  BY DEF Resetting, Resumed
<1>4. tasks[s].name = i[1]
  BY <1>3, TaskIs, InFormIs, OnScreenIs
<1> QED BY <1>1, <1>2, <1>3, <1>4

LEMMA RenderNext ==
  ASSUME Shape, NEW n \in 1..MaxPage, NEW m \in SUBSET Row,
         NEW entries, entries \in [DOMAIN cache -> Entry],
         Render(entries, n, m, Screen), NEW i \in DOMAIN form'
  PROVE  Fresh(form'[i], i) \/ Displaced(i) \/ (Stays(i) /\ i \notin Resetting)
<1>1. Slot(n) \in DOMAIN cache
  BY AdminPagesAssumption DEF Slot, Shape, Kept
<1>2. entries[Slot(n)].list \in Listing \cup {None}
  BY <1>1 DEF Entry
<1>3. PICK forms : forms = Moved(AfterRefetch, m)
  OBVIOUS
<1>4. PICK l \in Listing : \E o : form' = Rendered(forms, Screen, l, o)
  BY <1>2, <1>3, ShownListing DEF Render
<1>5. forms \in [InForm -> Fields] /\ AfterRefetch \in [InForm -> Fields]
  BY <1>3, AfterRefetchIs, MovedIs DEF Shape
<1>6. \/ Fresh(form'[i], i)
      \/ i \in InForm /\ form'[i] = forms[i]
  <2>1. PICK o : form' = Rendered(forms, Screen, l, o)
    BY <1>4
  <2> QED BY <1>5, <2>1, RenderedNext
<1>7. CASE i \in InForm /\ form'[i] = forms[i] /\ forms[i] = AfterRefetch[i]
  BY <1>7, RefetchedFresh DEF Stays
<1>8. CASE i \in InForm /\ form'[i] = forms[i] /\ forms[i] # AfterRefetch[i]
  <2>1. Dialog[i[1]].does = "insert" /\ This.nested
    BY <1>3, <1>5, <1>8, MovedIs
  <2>2. i[1] = "CreateDictItemDialog"
    BY <1>8, <2>1, NestedIs, InFormIs, OnScreenIs
  <2>3. form'[i].who = AfterRefetch[i].who /\ form'[i].shows = AfterRefetch[i].shows
    BY <1>3, <1>5, <1>8, MovedIs
  <2>4. i \notin Resetting
    BY <2>2, <1>8, KeptUnreset
  <2>5. AfterRefetch[i] = form[i]
    BY <1>8, <2>4, AfterRefetchIs DEF Shape
  <2> QED BY <1>8, <2>1, <2>2, <2>3, <2>5 DEF Displaced
<1> QED BY <1>6, <1>7, <1>8

LEMMA OpenNext ==
  ASSUME Shape, NEW i \in OnScreen, Open(i), NEW j \in DOMAIN form'
  PROVE  Fresh(form'[j], j) \/ Stays(j)
<1> DEFINE forms == Rendered(form, Screen, Screen, i)
           new == IF Dialog[i[1]].seed = "open" THEN [forms EXCEPT ![i] = Seeded(Screen, i)] ELSE forms
<1>1. form' = new
  BY DEF Open
<1>2. Screen \in Listing /\ i \in Mounted(Screen) /\ form \in [InForm -> Fields]
  BY ScreenListing DEF OnScreen, Shape, Forms
<1>3. forms \in [Fielded(Screen, i) -> Fields]
  BY <1>2, RenderedIs DEF Shape
<1>4. j \in Fielded(Screen, i)
  BY <1>1, <1>3
<1>5. j \in Mounted(Screen) /\ Dialog[j[1]].seed # "none"
  BY <1>4 DEF Fielded
<1>6. Fresh(Seeded(Screen, j), j)
  BY <1>2, <1>5, SeededFresh DEF Shape
<1>7. forms[j] = Seeded(Screen, j) \/ (j \in InForm /\ forms[j] = form[j])
  BY <1>2, <1>4, RenderedIs DEF Shape
<1> HIDE DEF forms
<1>8. form'[j] \in {forms[j], Seeded(Screen, j)}
  BY <1>1, <1>3, <1>4
<1> QED BY <1>6, <1>7, <1>8 DEF Stays

LEMMA TypeNext ==
  ASSUME Shape, NEW i \in OnScreen, Type(i), NEW j \in DOMAIN form'
  PROVE  Stays(j) \/ Typed(j)
<1>1. i \in DOMAIN form /\ form \in [InForm -> Fields]
  BY DEF Type, Shape, Forms
<1>2. PICK b : b = (Dialog[i[1]].seed \in {"tracks", "effect"})
  OBVIOUS
<1>3. PICK v : v = IF Dialog[i[1]].does = "update" THEN form[i].sent ELSE "no"
  OBVIOUS
<1>4. PICK w : w = IF Dialog[i[1]].seed = "blank" THEN RowOf(Screen, i) ELSE form[i].who
  OBVIOUS
<1>5. form' = [form EXCEPT ![i].touched = b, ![i].sent = v, ![i].who = w]
  BY <1>1, <1>2, <1>3, <1>4 DEF Type
<1>6. form[i] \in Fields
  BY <1>1
<1>7. form'[i].shows = form[i].shows /\ form'[i].who = w /\ form'[i].sent = v
  BY <1>1, <1>5, <1>6 DEF Fields
<1>8. CASE j = i
  BY <1>1, <1>3, <1>4, <1>7, <1>8 DEF Typed
<1>9. CASE j # i
  BY <1>1, <1>5, <1>9 DEF Stays
<1> QED BY <1>8, <1>9

LEMMA PressNext ==
  ASSUME Shape, NEW i \in OnScreen, NEW r \in Targets(i), Press(i, r), NEW j \in DOMAIN form'
  PROVE  Stays(j) \/ (j = i /\ Pressed(j))
<1>1. form \in [InForm -> Fields]
  BY DEF Shape, Forms
<1>2. CASE i \in DOMAIN form
  <2>1. PICK b : b = (form[i].touched \/ Dialog[i[1]].seed = "tracks")
    OBVIOUS
  <2>2. PICK v \in {form[i].sent, "sent"} :
          v = IF form[i].sent \in {"no", "moved"} /\ Dialog[i[1]].does \in {"insert", "update"}
                THEN "sent" ELSE form[i].sent
    OBVIOUS
  <2>3. form' = [form EXCEPT ![i].sent = v, ![i].touched = b]
    BY <1>1, <1>2, <2>1, <2>2 DEF Press
  <2>4. form[i] \in Fields
    BY <1>1, <1>2
  <2>5. form'[i].shows = form[i].shows /\ form'[i].who = form[i].who /\ form'[i].sent = v
    BY <1>2, <2>3, <2>4 DEF Fields
  <2>6. CASE j = i
    BY <1>1, <1>2, <2>2, <2>5, <2>6 DEF Pressed
  <2>7. CASE j # i
    BY <1>1, <2>3, <2>7 DEF Stays
  <2> QED BY <2>6, <2>7
<1>3. CASE i \notin DOMAIN form
  BY <1>1, <1>3 DEF Press, Stays
<1> QED BY <1>2, <1>3

LEMMA LookNext ==
  ASSUME Shape, NEW i \in OnScreen, NEW r \in Targets(i), Look(i, r), NEW j \in DOMAIN form'
  PROVE  Stays(j) \/ Looked(j)
<1>1. form \in [InForm -> Fields]
  BY DEF Shape, Forms
<1>2. /\ form' = [form EXCEPT ![i] =
           [Blank EXCEPT !.who = IF opened' = None /\ form[i].who = r THEN None ELSE r]]
      /\ opened' = IF Dialog[i[1]].modal THEN i ELSE opened
  BY DEF Look
<1>3. i # None
  BY OnScreenIs
<1>4. CASE j = i
  <2>1. form'[i].shows = None /\ form'[i].sent = "no" /\ (Dialog[i[1]].modal => form'[i].who = r)
    BY <1>1, <1>2, <1>3, <1>4 DEF Blank
  <2> QED BY <1>4, <2>1 DEF Looked
<1>5. CASE j # i
  BY <1>1, <1>2, <1>5 DEF Stays
<1> QED BY <1>4, <1>5

LEMMA ShutNext ==
  ASSUME Shape, Close \/ Fold, NEW j \in DOMAIN form'
  PROVE  Fresh(form'[j], j) \/ Stays(j)
<1>1. form \in [InForm -> Fields]
  BY DEF Shape, Forms
<1>2. CASE Close
  <2>1. form' = Emptied
    BY <1>2 DEF Close, Shut, Nothing
  <2>2. CASE j = opened /\ Dialog[j[1]].does = "view"
    BY <2>1, <2>2, BlankFresh DEF Emptied
  <2>3. CASE ~(j = opened /\ Dialog[j[1]].does = "view")
    BY <1>1, <2>1, <2>3 DEF Emptied, Stays
  <2> QED BY <2>2, <2>3
<1>3. CASE Fold
  <2>1. form' = [i \in DOMAIN form |-> IF i[2] = 0 THEN form[i] ELSE Seeded(Screen, i)]
    BY <1>3 DEF Fold
  <2>2. j \in InForm
    BY <1>1, <2>1
  <2>3. Fresh(Seeded(Screen, j), j)
    BY <2>2, InFormIs, OnScreenIs, ScreenListing, SeededFresh DEF Shape
  <2> QED BY <1>1, <2>1, <2>2, <2>3 DEF Stays
<1> QED BY <1>2, <1>3

LEMMA ReceiveNext ==
  ASSUME Shape, NEW s \in DOMAIN tasks, NEW at \in Answers(tasks[s]), Receive(s, at), NEW j \in DOMAIN form'
  PROVE  Stays(j) \/ Informed(j)
<1>1. PICK forms :
        /\ forms = [i \in {i \in DOMAIN form : i[1] \notin Left(s, at)} |->
             IF i = tasks[s].of THEN Told(form[i], [tasks[s] EXCEPT !.at = at], Did(s, at)) ELSE form[i]]
        /\ \/ /\ Did(s, at) \cap {"invalidate", "await"} # {}
              /\ form' = forms /\ invalidateQueries
           \/ /\ Did(s, at) \cap {"invalidate", "await"} = {}
              /\ cache' = cache
              /\ \/ opened' = None /\ opened # None /\ Shut(forms)
                 \/ opened' = opened /\ form' = forms /\ fetch' = fetch
  BY ReceiveIs DEF Shape
<1>2. form' = forms
  BY <1>1 DEF Shut, Nothing
<1>3. form \in [InForm -> Fields]
  BY DEF Shape, Forms
<1>4. j \in InForm
  BY <1>1, <1>2, <1>3
<1>5. form'[j] = IF j = tasks[s].of THEN Told(form[j], [tasks[s] EXCEPT !.at = at], Did(s, at)) ELSE form[j]
  BY <1>1, <1>2
<1>6. CASE j = tasks[s].of
  BY <1>4, <1>5, <1>6 DEF Informed
<1> QED BY <1>4, <1>5, <1>6 DEF Stays

LEMMA FormNext ==
  ASSUME Shape, [Next]_vars, NEW i \in DOMAIN form'
  PROVE  \/ Stays(i) \/ Fresh(form'[i], i) \/ Displaced(i)
         \/ Typed(i) \/ Pressed(i) \/ Looked(i) \/ Informed(i)
<1>0. form \in [InForm -> Fields] /\ cache \in [DOMAIN cache -> Entry]
      /\ no \in 1..MaxPage /\ match \in SUBSET Row
  BY DEF Shape, Forms, Kept
<1>1. ASSUME form' = form PROVE Stays(i)
  BY <1>0, <1>1 DEF Stays
<1>2. CASE FetchServe \/ Refocus
  BY <1>1, <1>2 DEF FetchServe, Refocus
<1>3. CASE FetchDone
  <2>1. fetch \in Fetching
    BY <1>3 DEF FetchDone, Shape, Kept
  <2>2. [list |-> fetch.list, more |-> fetch.more, at |-> fetch.at, stale |-> FALSE] \in Entry
    BY <2>1 DEF Fetching, Entry
  <2> QED BY <1>0, <1>3, <2>2, RenderNext DEF FetchDone
<1>4. CASE FetchFail
  BY <1>0, <1>4, RenderNext DEF FetchFail
<1>5. ASSUME NEW n \in 1..MaxPage, Turn(n) PROVE Fresh(form'[i], i) \/ Displaced(i) \/ Stays(i)
  <2>1. CASE This.paging = "server"
    BY <1>0, <1>5, <2>1, RenderNext DEF Turn
  <2>2. CASE This.paging # "server"
    <3>1. form' = Rendered(form, Screen, Shown(cache[Slot(n)].list, n, match), None)
      BY <1>5, <2>2 DEF Turn
    <3>2. Slot(n) \in DOMAIN cache
      BY AdminPagesAssumption DEF Slot, Shape, Kept
    <3>3. cache[Slot(n)].list \in Listing \cup {None}
      BY <1>0, <3>2 DEF Entry
    <3>4. Shown(cache[Slot(n)].list, n, match) \in Listing
      BY <3>3, ShownListing
    <3>5. \A j \in DOMAIN form : form[j] \in Fields
      BY <1>0
    <3> QED BY <1>0, <3>1, <3>4, <3>5, RenderedNext DEF Stays
  <2> QED BY <2>1, <2>2
<1>6. ASSUME NEW k, Search(k) PROVE Fresh(form'[i], i) \/ Displaced(i) \/ Stays(i)
  <2>1. PICK m \in SUBSET Row : Filtered(k, m, 1)
    BY <1>6 DEF Search
  <2>2. [n \in DOMAIN cache |-> NewEntry] \in [DOMAIN cache -> Entry] /\ 1 \in 1..MaxPage
    BY AdminPagesAssumption DEF NewEntry, Entry
  <2> QED BY <1>0, <2>1, <2>2, RenderNext DEF Filtered
<1>7. CASE Close \/ Fold
  BY <1>7, ShutNext
<1>8. CASE Elsewhere \/ (\E s \in DOMAIN tasks : Serve(s) \/ ServeNothing(s)) \/ UNCHANGED vars
  BY <1>1, <1>8 DEF Elsewhere, Serve, ServeNothing, vars
<1> QED BY <1>2, <1>3, <1>4, <1>5, <1>6, <1>7, <1>8,
           OpenNext, TypeNext, PressNext, LookNext, ReceiveNext DEF Next, OnScreen

-----------------------------------------------------------------------------
(* What counts as odd, the dialogs that open with old fields, and forms  *)
(* that were never filled.                                               *)

(* What odd gains in a step.                                             *)
LEMMA WipedIs ==
  ASSUME Shape, NEW l, NEW o \in Wiped(Screen, l)
  PROVE  o[1] = "wiped" /\ o[2] \in {"SiteSettingsForm", "PermissionsForm"}
<1>1. PICK i \in DOMAIN form : o = <<"wiped", i[1]>> /\ Dialog[i[1]].seed = "effect"
  BY DEF Wiped
<1>2. i \in InForm
  BY <1>1 DEF Shape, Forms
<1> QED BY <1>1, <1>2, InFormIs, OnScreenIs DEF KindFact

LEMMA OddNext ==
  ASSUME Shape, [Next]_vars, NEW o \in odd'
  PROVE  \/ o \in odd
         \/ o[1] = "wiped" /\ o[2] \in {"SiteSettingsForm", "PermissionsForm"}
         \/ \E i \in OnScreen : Open(i) /\ i \in DOMAIN form' /\ o \in OddShown(i[1], form'[i], RowOf(Screen, i))
         \/ \E i \in OnScreen : \E r \in Targets(i) :
              Press(i, r) /\ i \in InForm /\ o \in OddSent(i[1], form[i], r)
<1>1. ASSUME NEW n, NEW m, NEW entries, Render(entries, n, m, Screen)
      PROVE  o \in odd \/ (o[1] = "wiped" /\ o[2] \in {"SiteSettingsForm", "PermissionsForm"})
  <2>1. PICK l : odd' = odd \cup Wiped(Screen, l)
    BY <1>1 DEF Render
  <2> QED BY <2>1, WipedIs
<1>2. CASE FetchServe \/ Refocus \/ Close \/ Fold \/ Elsewhere \/ UNCHANGED vars
  BY <1>2 DEF FetchServe, Refocus, Close, Fold, Elsewhere, vars
<1>3. CASE FetchDone \/ FetchFail
  BY <1>1, <1>3 DEF FetchDone, FetchFail
<1>4. ASSUME NEW n, Turn(n)
      PROVE  o \in odd \/ (o[1] = "wiped" /\ o[2] \in {"SiteSettingsForm", "PermissionsForm"})
  BY <1>1, <1>4 DEF Turn
<1>5. ASSUME NEW i, Search(i)
      PROVE  o \in odd \/ (o[1] = "wiped" /\ o[2] \in {"SiteSettingsForm", "PermissionsForm"})
  BY <1>1, <1>5 DEF Search, Filtered
<1>6. ASSUME NEW i \in OnScreen, Open(i)
      PROVE  o \in odd \/ (i \in DOMAIN form' /\ o \in OddShown(i[1], form'[i], RowOf(Screen, i)))
  BY <1>6 DEF Open
<1>7. ASSUME NEW i \in OnScreen, Type(i) PROVE o \in odd
  BY <1>7 DEF Type
<1>8. ASSUME NEW i \in OnScreen, NEW r \in Targets(i), Press(i, r)
      PROVE  o \in odd \/ (i \in InForm /\ o \in OddSent(i[1], form[i], r))
  BY <1>8 DEF Press, Shape, Forms
<1>9. ASSUME NEW i, NEW r, Look(i, r) PROVE o \in odd
  BY <1>9 DEF Look
<1>10. ASSUME NEW s, Serve(s) \/ ServeNothing(s) PROVE o \in odd
  BY <1>10 DEF Serve, ServeNothing
<1>11. ASSUME NEW s, NEW at, Receive(s, at) PROVE o \in odd
  BY <1>11 DEF Receive
<1> QED BY <1>2, <1>3, <1>4, <1>5, <1>6, <1>7, <1>8, <1>9, <1>10, <1>11 DEF Next, OnScreen

LEMMA OddShownIs ==
  ASSUME NEW d, NEW f, NEW r, NEW o \in OddShown(d, f, r)
  PROVE  o[1] = "outdated" /\ o[2] = d /\ Behind(d, f, r)
  BY DEF OddShown

LEMMA OddSentIs ==
  ASSUME NEW d, NEW f, NEW r, NEW o \in OddSent(d, f, r)
  PROVE  /\ o[2] = d
         /\ \/ o[1] = "crossed" /\ (f.who \notin {None, r} \/ f.sent = "moved")
            \/ o[1] = "outdated" /\ ~Dialog[d].modal /\ Behind(d, f, r)
            \/ o[1] = "blind" /\ Dialog[d].does = "update" /\ f.who = None
            \/ o[1] = "twice" /\ Dialog[d].does = "insert" /\ f.sent # "no"
  BY DEF OddSent

LEMMA ByNext ==
  ASSUME NEW what, NEW S, By(what) \subseteq S, \A o \in odd' : o[1] = what => o \in odd \/ o[2] \in S
  PROVE  By(what)' \subseteq S
  BY DEF By

-----------------------------------------------------------------------------
(* The forms that open with what they have had for a while.              *)
LEMMA StaleForms ==
  ASSUME NEW d \in DOMAIN Dialog, KindFact(d), Dialog[d].does = "update", Dialog[d].seed # "none"
  PROVE  \/ d \in {"EditApiDialog", "EditProductDialog"} /\ Dialog[d].seed = "open"
         \/ d \in {"EditUserDialog", "EditJobDialog", "EditMenuDialog", "EditRoleDialog", "EditDictDialog",
                   "EditDictItemDialog", "EditParamDialog", "PermissionsForm", "ProfileForm", "SiteSettingsForm"}
<1>1. d \in RowForms
  BY DEF KindFact
<1>2. Dialog["EditApiDialog"].seed = "open"
  BY DEF Dialog, EditApiDialog, Form
<1>3. Dialog["EditProductDialog"].seed = "open"
  BY DEF Dialog, ProductDialog, Form, Anew
<1>4. Dialog["ResetPasswordDialog"].does = "other"
  BY DEF Dialog, ResetPasswordDialog, Form
<1> QED BY <1>1, <1>2, <1>3, <1>4 DEF RowForms

LEMMA OpensNext ==
  ASSUME Shape, OpensAsListed, [Next]_vars
  PROVE  OpensAsListed'
<1> DEFINE old == {"EditUserDialog", "EditJobDialog", "EditMenuDialog", "EditRoleDialog", "EditDictDialog",
                     "EditDictItemDialog", "EditParamDialog", "PermissionsForm", "ProfileForm",
                     "SiteSettingsForm"}
<1>1. ASSUME NEW o \in odd', o[1] = "outdated"
      PROVE  o \in odd \/ o[2] \in old
  <2>1. ASSUME NEW i \in OnScreen, Open(i), i \in DOMAIN form', o \in OddShown(i[1], form'[i], RowOf(Screen, i))
        PROVE  o[2] \in old
    <3>1. o[2] = i[1] /\ Behind(i[1], form'[i], RowOf(Screen, i))
      BY <2>1, OddShownIs
    <3>2. i \in Mounted(Screen) /\ KindFact(i[1]) /\ i[1] \in This.holds /\ i[1] \in DOMAIN Dialog
      BY OnScreenIs
    <3>3. Dialog[i[1]].does = "update"
      BY <3>1 DEF Behind
    <3>4. i \in InForm' /\ InForm' = Fielded(Screen, i)
      <4>1. i \in DOMAIN form' /\ opened' = i /\ UNCHANGED <<page, hand, match, no, cache>>
        BY <2>1 DEF Open
      <4>2. form' \in [InForm' -> Fields]
        BY <2>1, OpenShape DEF Forms
      <4> QED BY <4>1, <4>2, StayShape
    <3>5. Dialog[i[1]].seed # "none"
      BY <3>4 DEF Fielded
    <3>6. CASE Dialog[i[1]].seed = "open" /\ i[1] \in {"EditApiDialog", "EditProductDialog"}
      <4>1. form'[i] = Seeded(Screen, i)
        BY <2>1, <3>4, <3>6, ScreenListing, RenderedIs DEF Open, Shape, Forms
      <4>2. This.key # "single"
        BY <3>2, <3>6, PageFacts DEF PageFact, This, Shape, Kept
      <4>3. RowOf(Screen, i) \in DOMAIN Screen /\ form'[i].base < Screen[RowOf(Screen, i)]
        BY <3>1, <4>2 DEF Behind
      <4>4. form'[i].base = Screen[RowOf(Screen, i)]
        BY <3>2, <3>6, <4>1, <4>3, ScreenListing, SeededIs DEF Shape
      <4>5. Screen[RowOf(Screen, i)] \in Nat
        BY <4>3, ScreenListing, ListingIs DEF Shape
      <4> QED BY <4>3, <4>4, <4>5
    <3> QED BY <3>1, <3>2, <3>3, <3>5, <3>6, StaleForms
  <2>2. ASSUME NEW i \in OnScreen, NEW r \in Targets(i), i \in InForm, o \in OddSent(i[1], form[i], r)
        PROVE  o[2] \in old
    <3>1. o[2] = i[1] /\ ~Dialog[i[1]].modal /\ Behind(i[1], form[i], r)
      BY <1>1, <2>2, OddSentIs
    <3>2. Dialog[i[1]].does = "update" /\ Dialog[i[1]].seed # "none"
      BY <2>2, <3>1, InFormIs DEF Behind
    <3>3. KindFact(i[1]) /\ i[1] \in DOMAIN Dialog
      BY OnScreenIs
    <3> QED BY <3>1, <3>2, <3>3, StaleForms DEF KindFact
  <2> QED BY <1>1, <2>1, <2>2, OddNext
<1>2. By("outdated") \subseteq old
  BY DEF OpensAsListed
<1> HIDE DEF old
<1>3. By("outdated")' \subseteq old
  BY <1>1, <1>2, ByNext
<1> QED BY <1>3 DEF old, OpensAsListed

(* OpensAsListed: of the dialogs that update, only those that are filled *)
(* on each opening may be missing from the exceptions, and these take    *)
(* the row from the screen.                                              *)
THEOREM DialogsOpenAsListed == Spec => []OpensAsListed
<1>1. Init => Shape /\ OpensAsListed
  BY ShapeInit DEF Init, OpensAsListed, By
<1>2. Shape /\ OpensAsListed /\ [Next]_vars => Shape' /\ OpensAsListed'
  BY ShapeNext, OpensNext
<1> QED BY <1>1, <1>2, PTL DEF Spec

-----------------------------------------------------------------------------
(* Every form of an update is filled, and the handlers know their rows.  *)
Filled ==
  /\ \A s \in DOMAIN tasks :
       tasks[s] # None /\ Dialog[tasks[s].name].per = "row" => tasks[s].row \in Row
  /\ \A i \in DOMAIN form :
       Dialog[i[1]].does = "update" /\ i[1] \notin {"SiteSettingsForm", "PermissionsForm"} =>
         form[i].who # None

LEMMA ToldWho ==
  ASSUME Shape, NEW i, Informed(i)
  PROVE  /\ i \in OnScreen /\ i[1] \in hand /\ KindFact(i[1]) /\ Dialog[i[1]].seed # "none"
         /\ \/ form'[i].who = form[i].who
            \/ form'[i] = Blank /\ Dialog[i[1]].does # "update"
            \/ \E s \in DOMAIN tasks : /\ tasks[s] # None /\ tasks[s].of = i /\ tasks[s].name = i[1]
                                       /\ form'[i].who = tasks[s].row
                                       /\ Dialog[i[1]].does # "insert" /\ form[i].sent = "sent"
<1>0. PICK s \in DOMAIN tasks :
        \E at \in Answers(tasks[s]) :
          /\ Receive(s, at) /\ tasks[s].of = i
          /\ form'[i] = Told(form[i], [tasks[s] EXCEPT !.at = at], Did(s, at))
  BY DEF Informed
<1>1. PICK at \in Answers(tasks[s]) :
        /\ Receive(s, at) /\ tasks[s].of = i
        /\ form'[i] = Told(form[i], [tasks[s] EXCEPT !.at = at], Did(s, at))
  BY <1>0
<1>2. i \in InForm /\ i \in OnScreen /\ i[1] \in hand /\ KindFact(i[1]) /\ StepsFact(i[1]) /\ Dialog[i[1]].seed # "none"
      /\ i # None
  BY InFormIs, OnScreenIs DEF Informed
<1>3. tasks[s] # None /\ tasks[s].name = i[1] /\ at \in {"ok", "error"}
  BY <1>1, <1>2, AnswersIs, TaskIs DEF Shape
<1>4. form[i] \in Fields
  BY <1>2 DEF Shape, Forms
<1>5. PICK t : t = [tasks[s] EXCEPT !.at = at] /\ t.row = tasks[s].row /\ t.name = i[1]
  <2>1. [tasks[s] EXCEPT !.at = at].row = tasks[s].row /\ [tasks[s] EXCEPT !.at = at].name = tasks[s].name
    BY AnswersIs DEF Shape
  <2> QED BY <1>3, <2>1
<1>6. "reset" \in Did(s, at) => Dialog[i[1]].does # "update"
  <2>1. ASSUME Dialog[i[1]].does = "update"
        PROVE  "reset" \notin Did(s, at)
    <3>1. /\ Dialog[i[1]].then \in {<<"await">>, <<"await", "close">>, <<"invalidate", "close">>,
                                    <<"close", "invalidate">>, <<"close">>}
          /\ Dialog[i[1]].fails = <<>>
      BY <1>2, <2>1 DEF StepsFact
    <3>2. PICK steps : /\ steps \in {<<"await">>, <<"await", "close">>, <<"invalidate", "close">>,
                                     <<"close", "invalidate">>, <<"close">>, <<>>}
                       /\ Did(s, at) = Now(steps)
      BY <1>3, <3>1 DEF Did
    <3> QED BY <3>2, NowIs
  <2> QED BY <2>1
<1>7. form'[i] = Told(form[i], t, Did(s, at))
  BY <1>1, <1>5
<1>8. \/ form'[i].who = form[i].who
      \/ form'[i] = Blank /\ Dialog[i[1]].does # "update"
      \/ form'[i].who = t.row /\ Dialog[i[1]].does # "insert" /\ form[i].sent = "sent"
  BY <1>4, <1>5, <1>6, <1>7 DEF Told, Fields
<1> QED BY <1>1, <1>2, <1>3, <1>5, <1>8

LEMMA FilledNext ==
  ASSUME Shape, Filled, [Next]_vars
  PROVE  Filled'
<1>1. ASSUME NEW q \in DOMAIN tasks', tasks'[q] # None, Dialog[tasks'[q].name].per = "row"
      PROVE  tasks'[q].row \in Row
  <2>1. q \in DOMAIN tasks /\ (Same(q) \/ Begun(q) \/ Served(q) \/ Awaiting(q))
    BY <1>1, TaskNext
  <2>2. CASE Begun(q)
    BY <1>1, <2>2, TargetsIs DEF Begun
  <2>3. CASE Same(q) \/ Served(q) \/ Awaiting(q)
    BY <1>1, <2>1, <2>3 DEF Same, Served, Due, Awaiting, Filled
  <2> QED BY <2>1, <2>2, <2>3
<1>2. ASSUME NEW i \in DOMAIN form', Dialog[i[1]].does = "update",
             i[1] \notin {"SiteSettingsForm", "PermissionsForm"}
      PROVE  form'[i].who # None
  <2>1. i \in InForm => form[i].who # None /\ KindFact(i[1]) /\ Dialog[i[1]].seed # "none"
    BY <1>2, InFormIs, OnScreenIs DEF Filled, Shape, Forms
  <2>2. CASE Stays(i) \/ Displaced(i) \/ Pressed(i)
    BY <2>1, <2>2 DEF Stays, Displaced, Pressed
  <2>3. CASE Fresh(form'[i], i)
    BY <1>2, <2>3 DEF Fresh
  <2>4. CASE Typed(i)
    BY <1>2, <2>1, <2>4 DEF Typed, KindFact
  <2>5. CASE Looked(i)
    BY <1>2, <2>5 DEF Looked, Look
  <2>6. CASE Informed(i)
    <3>1. i \in InForm
      BY <2>6 DEF Informed
    <3>2. Dialog[i[1]].per = "row"
      BY <1>2, <2>1, <3>1 DEF KindFact
    <3>3. ASSUME NEW s \in DOMAIN tasks, tasks[s] # None, tasks[s].name = i[1]
          PROVE  tasks[s].row # None
      BY <3>2, <3>3, AdminPagesAssumption DEF Filled
    <3> QED BY <1>2, <2>1, <2>6, <3>1, <3>3, ToldWho
  <2> QED BY <2>2, <2>3, <2>4, <2>5, <2>6, FormNext
<1> QED BY <1>1, <1>2 DEF Filled

(* TypedIsKept: an effect that fills a form again, and a form that was   *)
(* never filled, are the two forms named, on every page.                 *)
THEOREM TypingKept == Spec => []TypedIsKept
<1> DEFINE IInv == Shape /\ Filled /\ TypedIsKept
<1>1. Init => IInv
  <2> SUFFICES ASSUME Init PROVE Filled /\ TypedIsKept
    BY ShapeInit
  <2>1. TypedIsKept
    BY DEF Init, TypedIsKept, By
  <2>2. \A s \in DOMAIN tasks : tasks[s] = None
    BY DEF Init
  <2>3. ASSUME NEW i \in DOMAIN form PROVE Dialog[i[1]].does # "update"
    <3>1. Shape
      BY ShapeInit
    <3>2. PICK d \in Held("page") : i = <<d, 0>> /\ Dialog[d].seed # "none"
      BY <2>3 DEF Init
    <3>3. KindFact(d)
      BY <3>1, <3>2, DialogFacts DEF Held, Shape, Kept
    <3> QED BY <3>2, <3>3 DEF KindFact, Held
  <2> QED BY <2>1, <2>2, <2>3 DEF Filled
<1>2. IInv /\ [Next]_vars => IInv'
  <2> SUFFICES ASSUME IInv, [Next]_vars PROVE TypedIsKept'
    BY ShapeNext, FilledNext
  <2> DEFINE S == {"SiteSettingsForm", "PermissionsForm"}
  <2>1. ASSUME NEW o \in odd', o[1] \in {"wiped", "blind"}
        PROVE  o \in odd \/ o[2] \in S
    <3>1. ASSUME NEW i \in OnScreen, NEW r \in Targets(i), i \in InForm, o \in OddSent(i[1], form[i], r)
          PROVE  o[2] \in S
      <4>1. o[2] = i[1] /\ Dialog[i[1]].does = "update" /\ form[i].who = None
        BY <2>1, <3>1, OddSentIs
      <4> QED BY <3>1, <4>1 DEF Filled, Shape, Forms
    <3>2. ASSUME NEW i, o \in OddShown(i[1], form'[i], RowOf(Screen, i))
          PROVE  FALSE
      BY <2>1, <3>2, OddShownIs
    <3> QED BY <2>1, <3>1, <3>2, OddNext
  <2>2. By("wiped") \subseteq S /\ By("blind") \subseteq S
    BY DEF TypedIsKept
  <2>3. By("wiped")' \subseteq S /\ By("blind")' \subseteq S
    BY <2>1, <2>2, ByNext
  <2> QED BY <2>3 DEF TypedIsKept
<1> QED BY <1>1, <1>2, PTL DEF Spec

-----------------------------------------------------------------------------
(* What is sent for which row.                                           *)

(* Where a form is.                                                      *)
Placed ==
  \A i \in DOMAIN form :
    /\ i \in Component /\ i # None /\ i \in InForm /\ i[1] \in hand /\ i[1] \in This.holds
    /\ KindFact(i[1]) /\ StepsFact(i[1]) /\ InsertFact(i[1])
    /\ Dialog[i[1]].seed # "none"
    /\ i[2] = 0 <=> Dialog[i[1]].per = "page"

LEMMA ShapePlaced == Shape => Placed
<1> SUFFICES ASSUME Shape, NEW i \in DOMAIN form
             PROVE  /\ i \in Component /\ i # None /\ i \in InForm /\ i[1] \in hand /\ i[1] \in This.holds
                    /\ KindFact(i[1]) /\ StepsFact(i[1]) /\ InsertFact(i[1])
                    /\ Dialog[i[1]].seed # "none"
                    /\ i[2] = 0 <=> Dialog[i[1]].per = "page"
  BY DEF Placed
<1>1. i \in InForm
  BY DEF Shape, Forms
<1>2. i[2] = 0 <=> Dialog[i[1]].per = "page"
  BY <1>1, InFormIs, OnScreenIs, ScreenListing, MountedIs DEF Shape
<1> QED BY <1>1, <1>2, InFormIs, OnScreenIs

LEMMA PlacedNext == Shape /\ [Next]_vars => Placed'
  BY ShapeNext, ShapePlaced, PTL

-----------------------------------------------------------------------------
(* The dialogs of the pages whose rows are told apart by their place.    *)
Crossing == {"EditUserDialog", "ResetPasswordDialog", "EditJobDialog"}

(* Forms and handlers are of the row their place stands for.             *)
Aimed ==
  /\ \A s \in DOMAIN tasks :
       tasks[s] # None /\ tasks[s].of # None =>
         tasks[s].of[2] = 0 \/ This.key = "place" \/ tasks[s].row = tasks[s].of[2]
  /\ \A i \in DOMAIN form :
       \/ Dialog[i[1]].does = "view"
       \/ i[1] \in Crossing
       \/ form[i].who = None
       \/ i[2] # 0 /\ This.key # "place" /\ form[i].who = i[2]

(* Only what creates and what updates counts as sent.                    *)
Sendable ==
  \A i \in DOMAIN form : form[i].sent # "no" => Dialog[i[1]].does \in {"insert", "update"}

LEMMA SendableNext ==
  ASSUME Shape, Sendable, [Next]_vars
  PROVE  Sendable'
<1> SUFFICES ASSUME NEW i \in DOMAIN form', Dialog[i[1]].does \notin {"insert", "update"}
             PROVE  form'[i].sent = "no"
  BY DEF Sendable
<1>1. i \in InForm => form[i].sent = "no"
  BY DEF Sendable, Shape, Forms
<1>2. CASE Stays(i) \/ Displaced(i) \/ Typed(i) \/ Pressed(i)
  BY <1>1, <1>2 DEF Stays, Displaced, Typed, Pressed
<1>3. CASE Fresh(form'[i], i) \/ Looked(i)
  BY <1>3 DEF Fresh, Looked
<1>4. CASE Informed(i)
  <2>1. form[i].sent = "no" /\ form[i] \in Fields
    BY <1>1, <1>4 DEF Informed, Shape, Forms
  <2>2. PICK t, did : form'[i] = Told(form[i], t, did)
    BY <1>4 DEF Informed
  <2> QED BY <2>1, <2>2 DEF Told, Blank, Fields
<1> QED BY <1>2, <1>3, <1>4, FormNext

(* What has been typed for one dictionary and is sent for another.       *)
Displacing == \A i \in DOMAIN form : form[i].sent = "moved" => i[1] = "CreateDictItemDialog"

LEMMA DisplacingNext ==
  ASSUME Shape, Displacing, [Next]_vars
  PROVE  Displacing'
<1> SUFFICES ASSUME NEW i \in DOMAIN form', i[1] # "CreateDictItemDialog"
             PROVE  form'[i].sent # "moved"
  BY DEF Displacing
<1>1. i \in InForm => form[i].sent # "moved"
  BY DEF Displacing, Shape, Forms
<1>2. CASE Stays(i) \/ Displaced(i) \/ Typed(i) \/ Pressed(i)
  BY <1>1, <1>2 DEF Stays, Displaced, Typed, Pressed
<1>3. CASE Fresh(form'[i], i) \/ Looked(i)
  BY <1>3 DEF Fresh, Looked
<1>4. CASE Informed(i)
  <2>1. form[i].sent # "moved" /\ form[i] \in Fields
    BY <1>1, <1>4 DEF Informed, Shape, Forms
  <2>2. PICK t, did : form'[i] = Told(form[i], t, did)
    BY <1>4 DEF Informed
  <2> QED BY <2>1, <2>2 DEF Told, Blank, Fields
<1> QED BY <1>2, <1>3, <1>4, FormNext

LEMMA AimIs ==
  ASSUME Shape, NEW i \in OnScreen, NEW r \in Targets(i), i[2] # 0, This.key # "place"
  PROVE  r = i[2]
<1>1. i \in Mounted(Screen) /\ Screen \in Listing
  BY ScreenListing, OnScreenIs DEF Shape
<1> QED BY <1>1, MountedIs, TargetsIs DEF Shape

LEMMA AimedNext ==
  ASSUME Shape, Sendable, Aimed, [Next]_vars
  PROVE  Aimed'
<1>0. This' = This
  BY ClockGrows
<1>1. ASSUME NEW q \in DOMAIN tasks', tasks'[q] # None, tasks'[q].of # None
      PROVE  tasks'[q].of[2] = 0 \/ This.key = "place" \/ tasks'[q].row = tasks'[q].of[2]
  <2>1. q \in DOMAIN tasks /\ (Same(q) \/ Begun(q) \/ Served(q) \/ Awaiting(q))
    BY <1>1, TaskNext
  <2>2. CASE Begun(q)
    BY <2>2, AimIs DEF Begun
  <2>3. CASE Same(q) \/ Served(q) \/ Awaiting(q)
    BY <1>1, <2>1, <2>3 DEF Same, Served, Due, Awaiting, Aimed
  <2> QED BY <2>1, <2>2, <2>3
<1>2. ASSUME NEW i \in DOMAIN form'
      PROVE  \/ Dialog[i[1]].does = "view"
             \/ i[1] \in Crossing
             \/ form'[i].who = None
             \/ i[2] # 0 /\ This.key # "place" /\ form'[i].who = i[2]
  <2>0. /\ KindFact(i[1]) /\ i[1] \in This.holds /\ Dialog[i[1]].seed # "none"
        /\ i[2] = 0 <=> Dialog[i[1]].per = "page"
    BY <1>0, PlacedNext DEF Placed
  <2>1. i[1] \notin Crossing /\ i[2] # 0 => This.key # "place"
    BY <2>0, PageFacts DEF PageFact, KindFact, This, Crossing, Shape, Kept
  <2>2. i \in InForm =>
             \/ Dialog[i[1]].does = "view"
             \/ i[1] \in Crossing
             \/ form[i].who = None
             \/ i[2] # 0 /\ This.key # "place" /\ form[i].who = i[2]
    BY DEF Aimed, Shape, Forms
  <2>3. CASE Stays(i) \/ Displaced(i) \/ Pressed(i)
    BY <2>2, <2>3 DEF Stays, Displaced, Pressed
  <2>4. CASE Fresh(form'[i], i)
    BY <2>1, <2>4 DEF Fresh
  <2>5. CASE Typed(i)
    <3>1. i \in Mounted(Screen) /\ Screen \in Listing
      BY <2>5, ScreenListing, OnScreenIs DEF Typed, Shape
    <3>2. i[2] = 0 => RowOf(Screen, i) = None
      BY <3>1, MountedIs DEF Shape
    <3>3. i[2] # 0 /\ This.key # "place" => RowOf(Screen, i) = i[2]
      BY <3>1, MountedIs DEF Shape
    <3> QED BY <2>1, <2>2, <2>5, <3>2, <3>3 DEF Typed
  <2>6. CASE Looked(i)
    BY <2>6 DEF Looked, Look
  <2>7. CASE Informed(i)
    <3>1. i \in InForm
      BY <2>7 DEF Informed
    <3>2. CASE form'[i].who = form[i].who
      BY <2>2, <3>1, <3>2
    <3>3. CASE form'[i] = Blank
      BY <3>3 DEF Blank
    <3>4. ASSUME NEW s \in DOMAIN tasks, tasks[s] # None, tasks[s].of = i, form'[i].who = tasks[s].row,
                 Dialog[i[1]].does # "insert", form[i].sent = "sent", i[1] \notin Crossing
          PROVE  i[2] # 0 /\ This.key # "place" /\ form'[i].who = i[2]
      <4>1. Dialog[i[1]].does = "update"
        BY <3>1, <3>4 DEF Sendable, Shape, Forms
      <4>2. i[2] # 0
        BY <2>0, <4>1 DEF KindFact
      <4>3. i # None
        BY PlacedNext DEF Placed
      <4> QED BY <2>1, <3>4, <4>2, <4>3 DEF Aimed
    <3> QED BY <2>7, <3>2, <3>3, <3>4, ToldWho
  <2> QED BY <2>3, <2>4, <2>5, <2>6, <2>7, FormNext
<1> QED BY <1>0, <1>1, <1>2 DEF Aimed

(* SentForItsRow: where React tells the rows apart by their id, a form   *)
(* holds the row of its key or none, and what its button sends is for    *)
(* that row; and only what is typed for an item of a dictionary goes     *)
(* elsewhere.                                                            *)
THEOREM SentForTheirRows == Spec => []SentForItsRow
<1> DEFINE IInv == Shape /\ Sendable /\ Displacing /\ Aimed /\ SentForItsRow
       Exempt == Crossing \cup {"CreateDictItemDialog"}
<1>1. Init => IInv
  <2> SUFFICES ASSUME Init PROVE Sendable /\ Displacing /\ Aimed /\ SentForItsRow
    BY ShapeInit
  <2>1. \A s \in DOMAIN tasks : tasks[s] = None
    BY DEF Init
  <2>2. \A i \in DOMAIN form : form[i] = Blank
    BY DEF Init
  <2>3. SentForItsRow
    BY DEF Init, SentForItsRow, By
  <2> QED BY <2>1, <2>2, <2>3 DEF Sendable, Displacing, Aimed, Blank
<1>2. IInv /\ [Next]_vars => IInv'
  <2> SUFFICES ASSUME IInv, [Next]_vars PROVE SentForItsRow'
    BY ShapeNext, SendableNext, DisplacingNext, AimedNext
  <2>1. ASSUME NEW o \in odd', o[1] = "crossed"
        PROVE  o \in odd \/ o[2] \in Exempt
    <3>1. ASSUME NEW i \in OnScreen, NEW r \in Targets(i), Press(i, r), i \in InForm, o \in OddSent(i[1], form[i], r)
          PROVE  o[2] \in Exempt
      <4>1. o[2] = i[1] /\ (form[i].who \notin {None, r} \/ form[i].sent = "moved")
        BY <2>1, <3>1, OddSentIs
      <4>2. Dialog[i[1]].does # "view"
        BY <3>1 DEF Press
      <4>3. CASE form[i].sent = "moved"
        BY <3>1, <4>1, <4>3 DEF Displacing, Shape, Forms
      <4>4. CASE form[i].who \notin {None, r}
        <5>1. i[2] # 0 /\ This.key # "place" => form[i].who # i[2]
          BY <3>1, <4>4, AimIs
        <5> QED BY <3>1, <4>1, <4>2, <4>4, <5>1 DEF Aimed, Shape, Forms
      <4> QED BY <4>1, <4>3, <4>4
    <3>2. ASSUME NEW i, o \in OddShown(i[1], form'[i], RowOf(Screen, i))
          PROVE  FALSE
      BY <2>1, <3>2, OddShownIs
    <3> QED BY <2>1, <3>1, <3>2, OddNext
  <2>2. By("crossed") \subseteq Exempt
    BY DEF SentForItsRow, Crossing
  <2>3. By("crossed")' \subseteq Exempt
    BY <2>1, <2>2, ByNext
  <2> QED BY <2>3 DEF SentForItsRow, Crossing
<1> QED BY <1>1, <1>2, PTL DEF Spec

-----------------------------------------------------------------------------
(* Views: how they open, and what becomes of them.                       *)

(* A dialog opens.                                                       *)
LEMMA OpeningIs ==
  ASSUME Shape, [Next]_vars, opened' # opened, opened' # None
  PROVE  /\ opened = None
         /\ \E i \in OnScreen : opened' = i /\ (Open(i) \/ \E r \in Targets(i) : Look(i, r))
<1>1. ASSUME NEW n, NEW m, NEW entries, Render(entries, n, m, Screen) PROVE FALSE
  <2>1. opened' \in {opened, None}
    BY <1>1 DEF Render, StillOpen
  <2> QED BY <2>1
<1>2. CASE FetchServe \/ Refocus \/ Close \/ Fold \/ Elsewhere \/ UNCHANGED vars
  BY <1>2 DEF FetchServe, Refocus, Close, Fold, Elsewhere, vars
<1>3. CASE FetchDone \/ FetchFail
  BY <1>1, <1>3 DEF FetchDone, FetchFail
<1>4. ASSUME NEW n, Turn(n) PROVE FALSE
  BY <1>1, <1>4 DEF Turn
<1>5. ASSUME NEW i, Search(i) PROVE FALSE
  BY <1>1, <1>5 DEF Search, Filtered
<1>6. ASSUME NEW i \in OnScreen, Open(i) PROVE opened = None /\ opened' = i
  BY <1>6 DEF Open
<1>7. ASSUME NEW i \in OnScreen, NEW r, Type(i) \/ Press(i, r) PROVE FALSE
  BY <1>7 DEF Type, Press
<1>8. ASSUME NEW i \in OnScreen, NEW r \in Targets(i), Look(i, r) PROVE opened = None /\ opened' = i
  BY <1>8 DEF Look
<1>9. ASSUME NEW s, Serve(s) \/ ServeNothing(s) PROVE FALSE
  BY <1>9 DEF Serve, ServeNothing
<1>10. ASSUME NEW s \in DOMAIN tasks, NEW at \in Answers(tasks[s]), Receive(s, at) PROVE FALSE
  <2>1. opened' \in {opened, None}
    BY <1>10, ReceiveIs DEF Shape
  <2> QED BY <2>1
<1> QED BY <1>2, <1>3, <1>4, <1>5, <1>6, <1>7, <1>8, <1>9, <1>10 DEF Next, OnScreen

(* What the code says of a view.                                         *)
LEMMA ViewIs ==
  ASSUME NEW d, KindFact(d), StepsFact(d), Dialog[d].does = "view"
  PROVE  /\ Dialog[d].per = "page" /\ Dialog[d].seed = "copy" /\ Dialog[d].fails = <<>>
         /\ Dialog[d].then = IF Dialog[d].modal THEN <<"show">> ELSE <<>>
         /\ "reset" \notin Later(Dialog[d].then) /\ "close" \notin Later(Dialog[d].then)
         /\ Now(Dialog[d].fails) = {}
         /\ Now(Dialog[d].then) = IF Dialog[d].modal THEN {"show"} ELSE {}
<1>1. Later(<<>>) = {} /\ Later(<<"show">>) = {}
  BY NowIs DEF Later
<1> QED BY <1>1, NowIs DEF KindFact, StepsFact

LEMMA ViewAt ==
  ASSUME Shape, NEW i \in OnScreen, Dialog[i[1]].does = "view"
  PROVE  /\ i[2] = 0 /\ i = <<i[1], 0>>
         /\ \A l : i \in Mounted(l)
         /\ This.query # "dialog"
         /\ i \notin Closing /\ i \notin Resetting
<1>1. KindFact(i[1]) /\ StepsFact(i[1]) /\ i \in Component /\ i[1] \in hand /\ i[1] \in This.holds /\ i # None
  BY OnScreenIs
<1>2. Dialog[i[1]].per = "page"
  BY <1>1, ViewIs
<1>3. i[2] = 0
  BY <1>2, OnScreenIs, ScreenListing, MountedIs DEF Shape
<1>4. i = <<i[1], 0>>
  BY <1>1, <1>3 DEF Component
<1>5. \A l : i \in Mounted(l)
  BY <1>1, <1>2, <1>4 DEF Mounted, Held
<1>6. This.query # "dialog"
  <2>1. Dialog["PermissionsForm"].does = "update"
    BY DEF Dialog, PermissionsForm, Form, Anew
  <2> QED BY <1>1, <2>1, PageFacts DEF PageFact, This, Shape, Kept
<1>7. ASSUME NEW s \in DOMAIN tasks, s \in Resumed, i = tasks[s].of
      PROVE  Later(Dialog[tasks[s].name].then) = Later(Dialog[i[1]].then)
  BY <1>1, <1>7, TaskIs DEF Resumed
<1>8. i \notin Closing /\ i \notin Resetting
  BY <1>1, <1>7, ViewIs DEF Closing, Resetting, Resumed
<1> QED BY <1>3, <1>4, <1>5, <1>6, <1>8

LEMMA ViewRender ==
  ASSUME Shape, NEW n \in 1..MaxPage, NEW m \in SUBSET Row,
         NEW entries, entries \in [DOMAIN cache -> Entry],
         Render(entries, n, m, Screen), NEW i \in InForm, Dialog[i[1]].does = "view"
  PROVE  /\ i \in DOMAIN form' => Stays(i)
         /\ opened = i => opened' = i
<1>1. Slot(n) \in DOMAIN cache
  BY AdminPagesAssumption DEF Slot, Shape, Kept
<1>2. entries[Slot(n)].list \in Listing \cup {None}
  BY <1>1 DEF Entry
<1>3. PICK l \in Listing : /\ opened' = StillOpen(l, IF opened \in Closing THEN None ELSE opened)
                           /\ form' = Rendered(Moved(AfterRefetch, m), Screen, l, opened')
  BY <1>2, ShownListing DEF Render
<1>4. i \in OnScreen /\ i \in Mounted(l) /\ i \notin Closing /\ i \notin Resetting
  BY InFormIs, ViewAt
<1>5. PICK forms : /\ forms = Moved(AfterRefetch, m)
                   /\ forms \in [InForm -> Fields] /\ forms[i] = form[i]
  <2>1. AfterRefetch \in [InForm -> Fields] /\ AfterRefetch[i] = form[i]
    BY <1>4, AfterRefetchIs DEF Shape
  <2>2. Moved(AfterRefetch, m) \in [InForm -> Fields] /\ Moved(AfterRefetch, m)[i] = AfterRefetch[i]
    BY <2>1, MovedIs
  <2> QED BY <2>1, <2>2
<1>6. Dialog[i[1]].seed = "copy"
  BY <1>4, OnScreenIs, ViewIs
<1>7. ASSUME i \in DOMAIN form' PROVE form'[i] = form[i]
  <2>1. i \in Fielded(l, opened')
    BY <1>3, <1>5, <1>7, RenderedIs DEF Shape
  <2> QED BY <1>3, <1>5, <1>6, <2>1, RenderedIs DEF Shape
<1> QED BY <1>3, <1>4, <1>7 DEF Stays, StillOpen

LEMMA ViewNext ==
  ASSUME Shape, [Next]_vars, NEW i \in InForm, Dialog[i[1]].does = "view", i \in DOMAIN form'
  PROVE  \/ Stays(i) /\ (opened = i => opened' = i)
         \/ Looked(i) /\ opened = None
         \/ Informed(i) /\ (opened = i => opened' = i)
         \/ Close
<1>0. form \in [InForm -> Fields] /\ cache \in [DOMAIN cache -> Entry]
      /\ no \in 1..MaxPage /\ match \in SUBSET Row
  BY DEF Shape, Forms, Kept
<1>a. i \in OnScreen /\ i[2] = 0 /\ KindFact(i[1]) /\ StepsFact(i[1])
  BY InFormIs, ViewAt, OnScreenIs
<1>1. ASSUME form' = form PROVE Stays(i)
  BY <1>0, <1>1 DEF Stays
<1>2. CASE FetchServe \/ Refocus
  BY <1>1, <1>2 DEF FetchServe, Refocus
<1>3. CASE FetchDone
  <2>1. fetch \in Fetching
    BY <1>3 DEF FetchDone, Shape, Kept
  <2>2. [list |-> fetch.list, more |-> fetch.more, at |-> fetch.at, stale |-> FALSE] \in Entry
    BY <2>1 DEF Fetching, Entry
  <2> QED BY <1>0, <1>3, <2>2, ViewRender DEF FetchDone
<1>4. CASE FetchFail
  BY <1>0, <1>4, ViewRender DEF FetchFail
<1>5. ASSUME NEW n \in 1..MaxPage, Turn(n) PROVE Stays(i) /\ (opened = i => opened' = i)
  <2>1. CASE This.paging = "server"
    BY <1>0, <1>5, <2>1, ViewRender DEF Turn
  <2>2. CASE This.paging # "server"
    <3>1. /\ form' = Rendered(form, Screen, Shown(cache[Slot(n)].list, n, match), None)
          /\ opened' = opened
      BY <1>5, <2>2 DEF Turn
    <3>2. Slot(n) \in DOMAIN cache
      BY AdminPagesAssumption DEF Slot, Shape, Kept
    <3>3. cache[Slot(n)].list \in Listing \cup {None}
      BY <1>0, <3>2 DEF Entry
    <3>4. PICK l \in Listing : l = Shown(cache[Slot(n)].list, n, match)
      BY <3>3, ShownListing
    <3>5. i \in Fielded(l, None)
      BY <1>0, <3>1, <3>4, RenderedIs DEF Shape
    <3>6. form'[i] = form[i]
      BY <1>0, <1>a, <3>1, <3>4, <3>5, ViewIs, RenderedIs DEF Shape
    <3> QED BY <3>1, <3>6 DEF Stays
  <2> QED BY <2>1, <2>2
<1>6. ASSUME NEW k, Search(k) PROVE Stays(i) /\ (opened = i => opened' = i)
  <2>1. PICK m \in SUBSET Row : Filtered(k, m, 1)
    BY <1>6 DEF Search
  <2>2. [n \in DOMAIN cache |-> NewEntry] \in [DOMAIN cache -> Entry] /\ 1 \in 1..MaxPage
    BY AdminPagesAssumption DEF NewEntry, Entry
  <2> QED BY <1>0, <2>1, <2>2, ViewRender DEF Filtered
<1>7. ASSUME NEW k \in OnScreen, Open(k) PROVE Stays(i) /\ (opened = i => opened' = i)
  <2> DEFINE forms == Rendered(form, Screen, Screen, k)
             new == IF Dialog[k[1]].seed = "open" THEN [forms EXCEPT ![k] = Seeded(Screen, k)] ELSE forms
  <2>1. form' = new /\ opened = None /\ Dialog[k[1]].does # "view"
    BY <1>7 DEF Open
  <2>2. Screen \in Listing
    BY ScreenListing DEF Shape
  <2>3. forms \in [Fielded(Screen, k) -> Fields]
    BY <1>0, <2>2, RenderedIs DEF Shape
  <2>4. i \in Fielded(Screen, k)
    BY <2>1, <2>3
  <2>5. forms[i] = form[i]
    BY <1>0, <1>a, <2>2, <2>4, ViewIs, RenderedIs DEF Shape
  <2>6. i # k /\ i # None
    BY <1>a, <2>1, OnScreenIs
  <2> HIDE DEF forms
  <2> QED BY <2>1, <2>3, <2>4, <2>5, <2>6 DEF Stays
<1>8. ASSUME NEW k \in OnScreen, Type(k) PROVE Stays(i) /\ (opened = i => opened' = i)
  <2>1. ~Typed(i)
    BY DEF Typed, Type
  <2> QED BY <1>8, <2>1, TypeNext DEF Type
<1>9. ASSUME NEW k \in OnScreen, NEW r \in Targets(k), Press(k, r) PROVE Stays(i) /\ (opened = i => opened' = i)
  <2>1. ~Pressed(i)
    BY DEF Pressed, Press
  <2> QED BY <1>9, <2>1, PressNext DEF Press
<1>10. ASSUME NEW k \in OnScreen, NEW r \in Targets(k), Look(k, r)
       PROVE  opened = None /\ (Stays(i) \/ Looked(i))
  BY <1>10, LookNext DEF Look
<1>11. CASE Fold
  <2>1. form'[i] = form[i] /\ opened' = opened
    BY <1>0, <1>a, <1>11 DEF Fold
  <2> QED BY <2>1 DEF Stays
<1>12. CASE Elsewhere \/ (\E s \in DOMAIN tasks : Serve(s) \/ ServeNothing(s)) \/ UNCHANGED vars
  BY <1>1, <1>12 DEF Elsewhere, Serve, ServeNothing, vars
<1>13. ASSUME NEW s \in DOMAIN tasks, NEW at \in Answers(tasks[s]), Receive(s, at)
       PROVE  (Stays(i) \/ Informed(i)) /\ (opened = i => opened' = i)
  <2>1. ASSUME opened = i PROVE opened' = i
    <3>1. opened' = IF Shuts(s, at) THEN None ELSE opened
      BY <1>13, ReceiveIs DEF Shape
    <3>2. ASSUME tasks[s].of = i PROVE tasks[s].name = i[1]
      BY <1>a, <3>2, AnswersIs, TaskIs, OnScreenIs DEF Shape
    <3>3. ASSUME tasks[s].name = i[1] PROVE "close" \notin Did(s, at)
      BY <1>a, <3>3, ViewIs DEF Did
    <3> QED BY <2>1, <3>1, <3>2, <3>3 DEF Shuts
  <2> QED BY <1>13, <2>1, ReceiveNext
<1>14. i # None
  BY <1>a, OnScreenIs
<1> QED BY <1>2, <1>3, <1>4, <1>5, <1>6, <1>7, <1>8, <1>9, <1>10, <1>11, <1>12, <1>13, <1>14 DEF Next, OnScreen

-----------------------------------------------------------------------------
(* A view shows what belongs to its row.                                 *)

(* What is shown goes with the row the view was opened for, and so does  *)
(* whatever the view is still loading.                                   *)
Viewed ==
  /\ \A i \in DOMAIN form : Dialog[i[1]].does # "view" => form[i].shows = None
  /\ \A s \in DOMAIN tasks :
       tasks[s] # None /\ tasks[s].of # None /\ Dialog[tasks[s].name].does = "view" =>
         opened = tasks[s].of /\ tasks[s].row = form[tasks[s].of].who

(* What an answer does to what is shown.                                 *)
LEMMA ToldShows ==
  ASSUME Shape, Sendable, NEW i, Informed(i)
  PROVE  /\ Dialog[i[1]].does # "view" => form'[i].shows \in {None, form[i].shows}
         /\ Dialog[i[1]].does = "view" =>
              \/ form'[i] = form[i]
              \/ \E s \in DOMAIN tasks : /\ tasks[s] # None /\ tasks[s].of = i /\ tasks[s].name = i[1]
                                         /\ form'[i].who = form[i].who /\ form'[i].shows = tasks[s].row
<1>0. PICK s \in DOMAIN tasks :
        \E at \in Answers(tasks[s]) :
          /\ Receive(s, at) /\ tasks[s].of = i
          /\ form'[i] = Told(form[i], [tasks[s] EXCEPT !.at = at], Did(s, at))
  BY DEF Informed
<1>1. PICK at \in Answers(tasks[s]) :
        /\ Receive(s, at) /\ tasks[s].of = i
        /\ form'[i] = Told(form[i], [tasks[s] EXCEPT !.at = at], Did(s, at))
  BY <1>0
<1>2. i \in InForm /\ i \in OnScreen /\ KindFact(i[1]) /\ StepsFact(i[1]) /\ i # None
  BY InFormIs, OnScreenIs DEF Informed
<1>3. tasks[s] # None /\ tasks[s].name = i[1] /\ at \in {"ok", "error"}
  BY <1>1, <1>2, AnswersIs, TaskIs DEF Shape
<1>4. form[i] \in Fields
  BY <1>2 DEF Shape, Forms
<1>5. [tasks[s] EXCEPT !.at = at].row = tasks[s].row
  BY AnswersIs DEF Shape
<1>6. "show" \in Did(s, at) => Dialog[i[1]].does = "view"
  BY <1>3, LeftIs
<1>7. CASE Dialog[i[1]].does # "view"
  <2> DEFINE t == [tasks[s] EXCEPT !.at = at]
  <2> HIDE DEF t
  <2>1. form'[i] = Told(form[i], t, Did(s, at))
    BY <1>1 DEF t
  <2>2. form'[i].shows \in {None, form[i].shows}
    BY <1>4, <1>6, <1>7, <2>1 DEF Told, Blank, Fields
  <2> QED BY <1>7, <2>2
<1>8. CASE Dialog[i[1]].does = "view"
  <2>1. "reset" \notin Did(s, at)
    BY <1>2, <1>3, <1>8, ViewIs DEF Did
  <2>2. form[i].sent = "no"
    BY <1>2, <1>8 DEF Sendable, Shape, Forms
  <2>3. \/ form'[i] = form[i]
        \/ form'[i] = [form[i] EXCEPT !.shows = tasks[s].row]
    BY <1>1, <1>5, <2>1, <2>2 DEF Told
  <2>4. [form[i] EXCEPT !.shows = tasks[s].row].who = form[i].who
        /\ [form[i] EXCEPT !.shows = tasks[s].row].shows = tasks[s].row
    BY <1>4 DEF Fields
  <2> QED BY <1>1, <1>3, <1>8, <2>3, <2>4
<1> QED BY <1>7, <1>8

LEMMA ViewInForm ==
  ASSUME Shape, NEW i \in OnScreen, Dialog[i[1]].does = "view"
  PROVE  i \in InForm
<1>1. Dialog[i[1]].seed = "copy" /\ This.query # "dialog" /\ i \in Mounted(Screen)
  BY OnScreenIs, ViewAt, ViewIs
<1> QED BY <1>1 DEF InForm, Fielded

LEMMA LookIs ==
  ASSUME Shape, NEW i \in OnScreen, NEW r \in Targets(i), Look(i, r)
  PROVE  /\ form'[i].shows = None
         /\ Dialog[i[1]].modal => opened' = i /\ form'[i].who = r
         /\ tasks' # tasks => Dialog[i[1]].modal
<1>1. i \in DOMAIN form /\ Dialog[i[1]].does = "view" /\ i # None /\ KindFact(i[1]) /\ StepsFact(i[1])
  BY ViewInForm, OnScreenIs DEF Look, Shape, Forms
<1>2. /\ form' = [form EXCEPT ![i] =
           [Blank EXCEPT !.who = IF opened' = None /\ form[i].who = r THEN None ELSE r]]
      /\ opened' = IF Dialog[i[1]].modal THEN i ELSE opened
      /\ tasks' # tasks => "show" \in Now(Dialog[i[1]].then)
  BY DEF Look
<1>3. form'[i] = [Blank EXCEPT !.who = IF opened' = None /\ form[i].who = r THEN None ELSE r]
  BY <1>1, <1>2 DEF Shape, Forms
<1>4. form'[i].shows = None /\ (opened' # None => form'[i].who = r)
  BY <1>3 DEF Blank
<1> QED BY <1>1, <1>2, <1>4, ViewIs

LEMMA ViewedNext ==
  ASSUME Shape, Sendable, Viewed, [Next]_vars
  PROVE  Viewed'
<1>1. ASSUME NEW i \in DOMAIN form', Dialog[i[1]].does # "view"
      PROVE  form'[i].shows = None
  <2>1. i \in InForm => form[i].shows = None
    BY <1>1 DEF Viewed, Shape, Forms
  <2>2. CASE Stays(i) \/ Displaced(i) \/ Typed(i) \/ Pressed(i)
    BY <2>1, <2>2 DEF Stays, Displaced, Typed, Pressed
  <2>3. CASE Fresh(form'[i], i) \/ Looked(i)
    BY <2>3 DEF Fresh, Looked
  <2>4. CASE Informed(i)
    BY <1>1, <2>1, <2>4, ToldShows DEF Informed
  <2> QED BY <2>2, <2>3, <2>4, FormNext
<1>2. ASSUME NEW q \in DOMAIN tasks', tasks'[q] # None, tasks'[q].of # None,
             Dialog[tasks'[q].name].does = "view"
      PROVE  opened' = tasks'[q].of /\ tasks'[q].row = form'[tasks'[q].of].who
  <2>0. q \in DOMAIN tasks /\ (Same(q) \/ Begun(q) \/ Served(q) \/ Awaiting(q))
    BY <1>2, TaskNext
  <2>1. CASE Begun(q)
    <3>1. PICK i \in OnScreen : \E r \in Targets(i) :
               /\ Press(i, r) \/ Look(i, r)
               /\ tasks'[q].of = i /\ tasks'[q].name = i[1] /\ tasks'[q].row = r
      BY <2>1 DEF Begun
    <3>2. PICK r \in Targets(i) :
               /\ Press(i, r) \/ Look(i, r)
               /\ tasks'[q].of = i /\ tasks'[q].name = i[1] /\ tasks'[q].row = r
      BY <3>1
    <3>3. Look(i, r)
      BY <1>2, <3>2 DEF Press
    <3>4. tasks' # tasks
      BY <1>2, <2>1 DEF Begun
    <3> QED BY <3>2, <3>3, <3>4, LookIs
  <2>2. CASE Served(q)
    BY <1>2, <2>2 DEF Served, Due
  <2>3. CASE Awaiting(q)
    <3>1. PICK at \in Answers(tasks[q]) : "await" \in Did(q, at)
      BY <2>3 DEF Awaiting
    <3>2. tasks[q] # None /\ Dialog[tasks[q].name].does = "view"
      BY <1>2, <2>3 DEF Awaiting
    <3>3. KindFact(tasks[q].name) /\ StepsFact(tasks[q].name)
      BY <2>0, <3>2, TaskIs
    <3> QED BY <3>1, <3>2, <3>3, ViewIs DEF Did
  <2>4. CASE Same(q)
    <3>1. PICK i : i = tasks'[q].of
      OBVIOUS
    <3>2. /\ tasks[q] # None /\ tasks[q].of = i /\ tasks[q].name = tasks'[q].name
          /\ tasks'[q].row = tasks[q].row
      BY <1>2, <2>4, <3>1 DEF Same
    <3>3. i \in OnScreen /\ i # None /\ i[1] = tasks[q].name
      BY <1>2, <2>0, <3>1, <3>2, TaskIs
    <3>4. opened = i /\ tasks[q].row = form[i].who
      BY <1>2, <2>0, <3>1, <3>2 DEF Viewed
    <3>5. Dialog[i[1]].does = "view" /\ i \in InForm
      BY <1>2, <3>2, <3>3, ViewInForm
    <3>6. i \in DOMAIN form'
      <4>1. Shape'
        BY ShapeNext
      <4>2. i \in OnScreen'
        BY <1>2, <3>1, <4>1 DEF Shape, Calls
      <4>3. KindFact(i[1]) /\ StepsFact(i[1]) /\ This.query # "dialog"
        BY <3>3, <3>5, OnScreenIs, ViewAt
      <4>4. This' = This
        BY ClockGrows
      <4>5. i \in InForm'
        BY <3>5, <4>2, <4>3, <4>4, ViewIs DEF InForm, OnScreen, Fielded
      <4> QED BY <4>1, <4>5 DEF Shape, Forms
    <3>7. CASE Stays(i) /\ opened' = i
      BY <3>1, <3>2, <3>4, <3>7 DEF Stays
    <3>8. CASE opened = None
      BY <3>3, <3>4, <3>8
    <3>9. CASE Informed(i) /\ opened' = i
      BY <3>1, <3>2, <3>4, <3>5, <3>9, ToldShows
    <3>10. CASE Close
      <4>1. tasks'[q] = [tasks[q] EXCEPT !.of = None]
        BY <2>0, <3>2, <3>4, <3>5, <3>10 DEF Close
      <4>2. tasks[q] \in Handler
        BY <2>0, <3>2, TaskIs
      <4>3. tasks'[q].of = None
        BY <4>1, <4>2 DEF Handler
      <4> QED BY <1>2, <4>3
    <3> QED BY <3>4, <3>5, <3>6, <3>7, <3>8, <3>9, <3>10, ViewNext
  <2> QED BY <2>0, <2>1, <2>2, <2>3, <2>4
<1> QED BY <1>1, <1>2 DEF Viewed

LEMMA ShowsNext ==
  ASSUME Shape, Sendable, Viewed, ShowsItsRow, [Next]_vars
  PROVE  ShowsItsRow'
<1> SUFFICES ASSUME NEW i \in DOMAIN form', Dialog[i[1]].modal, opened' = i
             PROVE  form'[i].shows \in {None, form'[i].who}
  BY DEF ShowsItsRow
<1>0. i # None
  BY PlacedNext DEF Placed
<1>1. CASE Dialog[i[1]].does # "view"
  BY <1>1, ViewedNext DEF Viewed
<1>2. CASE Dialog[i[1]].does = "view" /\ opened # i
  <2>1. \E k \in OnScreen : opened' = k /\ (Open(k) \/ \E r \in Targets(k) : Look(k, r))
    BY <1>0, <1>2, OpeningIs
  <2>2. i \in OnScreen /\ \E r \in Targets(i) : Look(i, r)
    BY <1>2, <2>1 DEF Open
  <2> QED BY <2>2, LookIs
<1>3. CASE Dialog[i[1]].does = "view" /\ opened = i
  <2>1. i \in InForm
    BY <1>0, <1>3, ViewInForm DEF Shape, Forms
  <2>2. form[i].shows \in {None, form[i].who}
    BY <1>3, <2>1 DEF ShowsItsRow, Shape, Forms
  <2>3. CASE Stays(i)
    BY <2>2, <2>3 DEF Stays
  <2>4. CASE Informed(i)
    <3>1. ASSUME NEW s \in DOMAIN tasks, tasks[s] # None, tasks[s].of = i, tasks[s].name = i[1]
          PROVE  tasks[s].row = form[i].who
      BY <1>0, <1>3, <3>1 DEF Viewed
    <3> QED BY <1>3, <2>2, <2>4, <3>1, ToldShows
  <2>5. CASE Close
    BY <1>0, <2>5 DEF Close
  <2> QED BY <1>0, <1>3, <2>1, <2>3, <2>4, <2>5, ViewNext
<1> QED BY <1>1, <1>2, <1>3

(* ShowsItsRow: what a view is still loading is always for the row it    *)
(* was opened for, as its handlers forget it when it is put away.        *)
THEOREM ViewsShowTheirRow == Spec => []ShowsItsRow
<1> DEFINE IInv == Shape /\ Sendable /\ Viewed /\ ShowsItsRow
<1>1. Init => IInv
  <2> SUFFICES ASSUME Init PROVE Sendable /\ Viewed /\ ShowsItsRow
    BY ShapeInit
  <2>1. \A s \in DOMAIN tasks : tasks[s] = None
    BY DEF Init
  <2>2. \A i \in DOMAIN form : form[i].sent = "no" /\ form[i].shows = None
    BY DEF Init, Blank
  <2> QED BY <2>1, <2>2 DEF Sendable, Viewed, ShowsItsRow
<1>2. IInv /\ [Next]_vars => IInv'
  BY ShapeNext, SendableNext, ViewedNext, ShowsNext
<1> QED BY <1>1, <1>2, PTL DEF Spec

-----------------------------------------------------------------------------
(* The handlers of a form that creates.                                  *)

(* What is on its way for a form that creates, and what awaits the       *)
(* refetch.                                                              *)
Underway(i) == {s \in DOMAIN tasks : tasks[s] # None /\ tasks[s].of = i /\ tasks[s].at # "refetch"}

Refetching(i) == {s \in DOMAIN tasks : tasks[s] # None /\ tasks[s].of = i /\ tasks[s].at = "refetch"}

(* What creates and does not keep its fields.                            *)
Once(d) == Dialog[d].does = "insert" /\ d \notin Keeping

(* A form counts as sent for as long as its handler keeps it from being  *)
(* sent again - or else it is filled anew before that can be.            *)
Created ==
  \A i \in DOMAIN form : Once(i[1]) =>
    \/ form[i].sent = "no"
    \/ Dialog[i[1]].seed = "open" /\ opened # i
    \/ form[i].sent = "sent" /\ Underway(i) # {}
    \/ /\ form[i].sent = "stored" /\ Refetching(i) # {}
       /\ Dialog[i[1]].then = <<"await", "reset", "close">>

(* A handler of a form that creates: it goes on, or it has its answer,   *)
(* or the refetch it has awaited has ended.                              *)
LEMMA WitnessRender ==
  ASSUME Shape, NEW i \in InForm, Dialog[i[1]].does = "insert", i \in DOMAIN form',
         NEW n \in 1..MaxPage, NEW m \in SUBSET Row,
         NEW entries, entries \in [DOMAIN cache -> Entry], Render(entries, n, m, Screen)
  PROVE  /\ Underway(i) # {} => Underway(i)' # {}
         /\ Refetching(i) # {} => Fresh(form'[i], i) \/ i \notin Resetting
<1>1. i \in OnScreen /\ i # None /\ KindFact(i[1])
  BY InFormIs, OnScreenIs
<1>2. Dialog[i[1]].per = "page"
  BY <1>1 DEF KindFact
<1>3. \A l : i \in Mounted(l)
  <2>1. i[2] = 0
    BY <1>1, <1>2, OnScreenIs, ScreenListing, MountedIs DEF Shape
  <2>2. i = <<i[1], 0>> /\ i[1] \in hand
    BY <1>1, <2>1, OnScreenIs DEF Component
  <2> QED BY <1>2, <2>2 DEF Mounted, Held
<1>4. PICK l : tasks' = Orphaned(Ended, l)
  BY DEF Render
<1>5. Ended \in [DOMAIN tasks -> Handler \cup {None}]
      /\ \A s \in DOMAIN tasks : Ended[s] = IF s \in Resumed THEN None ELSE tasks[s]
  BY EndedIs DEF Shape
<1>6. ASSUME NEW s \in Underway(i) PROVE s \in Underway(i)'
  <2>1. Ended[s] = tasks[s] /\ tasks[s] # None
    BY <1>5, <1>6 DEF Underway, Resumed
  <2>2. /\ DOMAIN tasks' = DOMAIN tasks /\ s \in DOMAIN tasks
        /\ tasks'[s] # None /\ tasks'[s].of = tasks[s].of /\ tasks'[s].at = tasks[s].at
    <3> HIDE DEF Handler
    <3> QED BY <1>3, <1>4, <1>5, <1>6, <2>1, OrphanedIs DEF Underway
  <2> QED BY <1>6, <2>2 DEF Underway
<1>7. Fresh(form'[i], i) \/ i \notin Resetting
  BY RenderNext, KeptUnreset DEF Displaced
<1> QED BY <1>6, <1>7

LEMMA WitnessNext ==
  ASSUME Shape, [Next]_vars, NEW i \in InForm, Dialog[i[1]].does = "insert", i \in DOMAIN form'
  PROVE  \/ Informed(i)
         \/ Close /\ opened = i /\ Dialog[i[1]].fresh
         \/ /\ Underway(i) # {} => Underway(i)' # {}
            /\ Refetching(i) # {} =>
                 Refetching(i)' # {} \/ Fresh(form'[i], i) \/ i \notin Resetting
<1> DEFINE OK == /\ Underway(i) # {} => Underway(i)' # {}
                 /\ Refetching(i) # {} =>
                      Refetching(i)' # {} \/ Fresh(form'[i], i) \/ i \notin Resetting
<1> SUFFICES Informed(i) \/ (Close /\ opened = i /\ Dialog[i[1]].fresh) \/ OK
  OBVIOUS
<1>0. /\ cache \in [DOMAIN cache -> Entry] /\ no \in 1..MaxPage /\ match \in SUBSET Row
      /\ i \in OnScreen /\ i # None /\ KindFact(i[1])
      /\ tasks \in [DOMAIN tasks -> Handler \cup {None}]
  BY InFormIs, OnScreenIs DEF Shape, Kept, Calls
<1>a. i[2] = 0 /\ i = <<i[1], 0>> /\ \A l : i \in Mounted(l)
  <2>1. Dialog[i[1]].per = "page"
    BY <1>0 DEF KindFact
  <2>2. i[2] = 0
    BY <1>0, <2>1, OnScreenIs, ScreenListing, MountedIs DEF Shape
  <2>3. i = <<i[1], 0>> /\ i[1] \in hand
    BY <1>0, <2>2, OnScreenIs DEF Component
  <2> QED BY <2>1, <2>2, <2>3 DEF Mounted, Held
<1>1. ASSUME DOMAIN tasks' = DOMAIN tasks,
             \A s \in DOMAIN tasks : tasks[s] # None /\ tasks[s].of = i =>
               /\ tasks'[s] # None /\ tasks'[s].of = i
               /\ tasks'[s].at = "refetch" <=> tasks[s].at = "refetch"
      PROVE  OK
  BY <1>1 DEF Underway, Refetching
<1> HIDE DEF OK
<1>2. ASSUME UNCHANGED tasks PROVE OK
  BY <1>1, <1>2
<1>3. ASSUME NEW n \in 1..MaxPage, NEW m \in SUBSET Row,
             NEW entries, entries \in [DOMAIN cache -> Entry], Render(entries, n, m, Screen)
      PROVE  OK
  BY <1>3, WitnessRender DEF OK
<1>4. CASE FetchServe \/ Refocus \/ Elsewhere \/ (\E k \in OnScreen : Open(k) \/ Type(k)) \/ UNCHANGED vars
  BY <1>2, <1>4 DEF FetchServe, Refocus, Elsewhere, Open, Type, vars
<1>5. CASE FetchDone
  <2>1. fetch \in Fetching
    BY <1>5 DEF FetchDone, Shape, Kept
  <2>2. [list |-> fetch.list, more |-> fetch.more, at |-> fetch.at, stale |-> FALSE] \in Entry
    BY <2>1 DEF Fetching, Entry
  <2> QED BY <1>0, <1>3, <1>5, <2>2 DEF FetchDone
<1>6. CASE FetchFail
  BY <1>0, <1>3, <1>6 DEF FetchFail
<1>7. ASSUME NEW n \in 1..MaxPage, Turn(n) PROVE OK
  <2>1. CASE This.paging = "server"
    BY <1>0, <1>3, <1>7, <2>1 DEF Turn
  <2>2. CASE This.paging # "server"
    <3>1. PICK l : tasks' = Orphaned(tasks, l)
      BY <1>7, <2>2 DEF Turn
    <3> HIDE DEF Handler
    <3>2. DOMAIN tasks' = DOMAIN tasks
      BY <1>0, <3>1, OrphanedIs
    <3>3. ASSUME NEW s \in DOMAIN tasks, tasks[s] # None, tasks[s].of = i
          PROVE  /\ tasks'[s] # None /\ tasks'[s].of = i
                 /\ tasks'[s].at = tasks[s].at
      BY <1>0, <1>a, <3>1, <3>3, OrphanedIs
    <3> QED BY <1>1, <3>2, <3>3
  <2> QED BY <2>1, <2>2
<1>8. ASSUME NEW k, Search(k) PROVE OK
  <2>1. PICK m \in SUBSET Row : Filtered(k, m, 1)
    BY <1>8 DEF Search
  <2>2. [n \in DOMAIN cache |-> NewEntry] \in [DOMAIN cache -> Entry] /\ 1 \in 1..MaxPage
    BY AdminPagesAssumption DEF NewEntry, Entry
  <2> QED BY <1>0, <1>3, <2>1, <2>2 DEF Filtered
<1>9. ASSUME NEW k \in OnScreen, NEW r \in Targets(k), Press(k, r) \/ Look(k, r) PROVE OK
  <2>1. CASE Started(k, r)
    <3>1. r \in Row \cup {None}
      BY TargetsIs
    <3>2. PICK s \in DOMAIN tasks : /\ tasks[s] = None /\ DOMAIN tasks' = DOMAIN tasks
                                    /\ \A q \in DOMAIN tasks \ {s} : tasks'[q] = tasks[q]
      BY <2>1, <3>1, StartedIs
    <3> QED BY <1>1, <3>2
  <2> QED BY <1>2, <1>9, <2>1 DEF Press, Look
<1>10. CASE Close /\ ~(opened = i /\ Dialog[i[1]].fresh)
  <2>1. /\ DOMAIN tasks' = DOMAIN tasks
        /\ \A s \in DOMAIN tasks : tasks[s].of = i => tasks'[s] = tasks[s]
    BY <1>0, <1>10 DEF Close
  <2> QED BY <1>1, <2>1
<1>11. CASE Fold
  <2>1. /\ DOMAIN tasks' = DOMAIN tasks
        /\ \A s \in DOMAIN tasks : tasks[s].of = i => tasks'[s] = tasks[s]
    BY <1>a, <1>11 DEF Fold
  <2> QED BY <1>1, <2>1
<1>12. ASSUME NEW s \in DOMAIN tasks, Serve(s) \/ ServeNothing(s) PROVE OK
  <2>1. /\ tasks[s] # None /\ tasks[s].at = "wire"
        /\ \/ Answered(s, "ok", clock + 1)
           \/ Answered(s, "error", 0)
           \/ Answered(s, "ok", 0)
    BY <1>12 DEF Serve, ServeNothing, Due
  <2>2. clock + 1 \in Nat
    BY AdminPagesAssumption DEF Shape, Kept
  <2>3. /\ DOMAIN tasks' = DOMAIN tasks
        /\ tasks'[s] # None /\ tasks'[s].of = tasks[s].of /\ tasks'[s].at \in {"ok", "error"}
        /\ \A q \in DOMAIN tasks \ {s} : tasks'[q] = tasks[q]
    BY <2>1, <2>2, AnsweredIs
  <2>4. ASSUME NEW q \in DOMAIN tasks, tasks[q] # None, tasks[q].of = i
        PROVE  /\ tasks'[q] # None /\ tasks'[q].of = i
               /\ tasks'[q].at = "refetch" <=> tasks[q].at = "refetch"
    BY <2>1, <2>3, <2>4
  <2> QED BY <1>1, <2>3, <2>4
<1>13. ASSUME NEW s \in DOMAIN tasks, NEW at \in Answers(tasks[s]), Receive(s, at)
       PROVE  Informed(i) \/ OK
  <2>1. CASE tasks[s].of = i
    <3>1. PICK forms :
            /\ forms = [j \in {j \in DOMAIN form : j[1] \notin Left(s, at)} |->
                 IF j = tasks[s].of THEN Told(form[j], [tasks[s] EXCEPT !.at = at], Did(s, at)) ELSE form[j]]
            /\ \/ /\ Did(s, at) \cap {"invalidate", "await"} # {}
                  /\ form' = forms /\ invalidateQueries
               \/ /\ Did(s, at) \cap {"invalidate", "await"} = {}
                  /\ cache' = cache
                  /\ \/ opened' = None /\ opened # None /\ Shut(forms)
                     \/ opened' = opened /\ form' = forms /\ fetch' = fetch
      BY <1>13, ReceiveIs DEF Shape
    <3>2. form' = forms
      BY <3>1 DEF Shut, Nothing
    <3>3. form'[i] = Told(form[i], [tasks[s] EXCEPT !.at = at], Did(s, at))
      BY <2>1, <3>1, <3>2
    <3> QED BY <1>13, <2>1, <3>3 DEF Informed
  <2>2. CASE tasks[s].of # i
    <3>1. DOMAIN tasks' = DOMAIN tasks /\ \A q \in DOMAIN tasks \ {s} : tasks'[q] = tasks[q]
      BY <1>13, ReceiveTask
    <3> QED BY <1>1, <2>2, <3>1
  <2> QED BY <2>1, <2>2
<1> QED BY <1>4, <1>5, <1>6, <1>7, <1>8, <1>9, <1>10, <1>11, <1>12, <1>13 DEF Next, OnScreen

-----------------------------------------------------------------------------
(* Nothing is created twice.                                             *)

LEMMA OnceIs ==
  ASSUME NEW d, InsertFact(d), KindFact(d), Once(d), Dialog[d].seed # "none"
  PROVE  /\ Dialog[d].seed = "blank" \/ (Dialog[d].seed = "open" /\ Dialog[d].modal)
         /\ Dialog[d].guard \in {"pending", "submitting"}
         /\ Dialog[d].then = <<"await", "reset", "close">> =>
              Dialog[d].guard = "submitting" /\ Dialog[d].seed = "blank"
         /\ Dialog[d].then = <<"await", "reset", "close">> => "reset" \in Later(Dialog[d].then)
         /\ \/ /\ Now(Dialog[d].then) = {"await"} /\ Now(Dialog[d].fails) = {}
               /\ Dialog[d].then = <<"await", "reset", "close">>
            \/ "reset" \in Now(Dialog[d].then) /\ "reset" \in Now(Dialog[d].fails)
            \/ "done" \in Now(Dialog[d].then) /\ "done" \in Now(Dialog[d].fails)
            \/ "reset" \in Now(Dialog[d].then) /\ Now(Dialog[d].fails) = {}
            \/ /\ Now(Dialog[d].then) = {"close", "invalidate"} /\ Now(Dialog[d].fails) = {}
               /\ Dialog[d].seed = "open"
<1>1. CASE /\ Dialog[d].guard = "submitting" /\ Dialog[d].seed = "blank"
           /\ Dialog[d].then = <<"await", "reset", "close">> /\ Dialog[d].fails = <<>>
  BY <1>1, NowIs, LaterIs
<1>2. CASE /\ Dialog[d].guard = "submitting" /\ Dialog[d].seed = "blank"
           /\ Dialog[d].then = <<"invalidate", "reset", "close">> /\ Dialog[d].fails = Dialog[d].then
  BY <1>2, NowIs
<1>3. CASE /\ Dialog[d].guard = "pending" /\ Dialog[d].seed = "blank"
           /\ Dialog[d].then = <<"done">> /\ Dialog[d].fails = <<"done">>
  BY <1>3, NowIs
<1>4. CASE /\ Dialog[d].guard = "pending" /\ Dialog[d].seed = "blank"
           /\ Dialog[d].then = <<"reset", "invalidate">> /\ Dialog[d].fails = <<>>
  BY <1>4, NowIs
<1>5. CASE /\ Dialog[d].guard = "pending" /\ Dialog[d].seed = "open"
           /\ Dialog[d].then = <<"close", "invalidate">> /\ Dialog[d].fails = <<>>
  BY <1>5, NowIs DEF KindFact
<1> QED BY <1>1, <1>2, <1>3, <1>4, <1>5 DEF InsertFact, Once

(* What is created is sent from a form that is not on its way.           *)
LEMMA PressedAnew ==
  ASSUME Shape, Created, NEW i \in InForm, Once(i[1]), NEW r, Press(i, r)
  PROVE  form[i].sent = "no"
<1>1. i \in OnScreen /\ Dialog[i[1]].seed # "none" /\ KindFact(i[1]) /\ InsertFact(i[1])
      /\ i \in DOMAIN form
  BY InFormIs, OnScreenIs DEF Shape, Forms
<1>2. ~(Dialog[i[1]].seed = "open" /\ opened # i)
  BY <1>1 DEF Press, AtHand, KindFact
<1>3. Underway(i) = {}
  BY <1>1, OnceIs DEF Press, Enabled, Underway
<1>4. Dialog[i[1]].then = <<"await", "reset", "close">> => Refetching(i) = {}
  BY <1>1, OnceIs DEF Press, Enabled, Refetching
<1> QED BY <1>1, <1>2, <1>3, <1>4 DEF Created

(* The form and its handlers when the answer is there.                   *)
LEMMA ToldCreated ==
  ASSUME Shape, Created, [Next]_vars, NEW i \in DOMAIN form', Once(i[1]), Informed(i)
  PROVE  \/ form'[i].sent = "no"
         \/ Dialog[i[1]].seed = "open" /\ opened' # i
         \/ form'[i].sent = "sent" /\ Underway(i)' # {}
         \/ /\ form'[i].sent = "stored" /\ Refetching(i)' # {}
            /\ Dialog[i[1]].then = <<"await", "reset", "close">>
<1>0. PICK s \in DOMAIN tasks :
        \E at \in Answers(tasks[s]) :
          /\ Receive(s, at) /\ tasks[s].of = i
          /\ form'[i] = Told(form[i], [tasks[s] EXCEPT !.at = at], Did(s, at))
  BY DEF Informed
<1>1. PICK at \in Answers(tasks[s]) :
        /\ Receive(s, at) /\ tasks[s].of = i
        /\ form'[i] = Told(form[i], [tasks[s] EXCEPT !.at = at], Did(s, at))
  BY <1>0
<1>2. /\ i \in InForm /\ i \in OnScreen /\ i \in DOMAIN form /\ KindFact(i[1]) /\ StepsFact(i[1])
      /\ InsertFact(i[1]) /\ Dialog[i[1]].seed # "none" /\ i # None
  BY InFormIs, OnScreenIs DEF Informed, Shape, Forms
<1>3. tasks[s] # None /\ tasks[s].name = i[1] /\ at \in {"ok", "error"}
  BY <1>1, <1>2, AnswersIs, TaskIs DEF Shape
<1>4. form[i] \in Fields
  BY <1>2 DEF Shape, Forms
<1>5. PICK t : t = [tasks[s] EXCEPT !.at = at] /\ t.at = at /\ t.name = i[1] /\ t.row = tasks[s].row
  <2>1. /\ [tasks[s] EXCEPT !.at = at].at = at
        /\ [tasks[s] EXCEPT !.at = at].name = tasks[s].name
        /\ [tasks[s] EXCEPT !.at = at].row = tasks[s].row
    BY AnswersIs DEF Shape
  <2> QED BY <1>3, <2>1
<1>6. form'[i] = Told(form[i], t, Did(s, at))
  BY <1>1, <1>5
<1>7. i[1] \in hand' /\ hand' = hand \ Left(s, at) /\ opened' \in {None, opened}
      /\ ("close" \in Did(s, at) /\ opened = i => opened' = None)
  <2>1. i[1] \in hand'
    BY PlacedNext DEF Placed
  <2> QED BY <1>1, <1>2, <2>1, ReceiveIs DEF Shape, Shuts
<1>8. "done" \notin Did(s, at)
  BY <1>3, <1>7 DEF Left
<1>9. "show" \notin Did(s, at)
  BY <1>3, LeftIs DEF Once
<1>10. ASSUME "reset" \in Did(s, at) PROVE form'[i].sent = "no"
  BY <1>6, <1>10 DEF Told, Blank
<1>11. Did(s, at) = IF at = "ok" THEN Now(Dialog[i[1]].then) ELSE Now(Dialog[i[1]].fails)
  BY <1>3 DEF Did
<1>12. CASE at = "error" /\ Did(s, at) = {}
  <2>1. form'[i].sent = IF form[i].sent = "sent" THEN "no" ELSE form[i].sent
    BY <1>4, <1>5, <1>6, <1>12 DEF Told, Fields
  <2>2. ASSUME form[i].sent = "stored", Refetching(i) # {} PROVE Refetching(i)' # {}
    <3>1. PICK q \in DOMAIN tasks : tasks[q] # None /\ tasks[q].of = i /\ tasks[q].at = "refetch"
      BY <2>2 DEF Refetching
    <3>2. q # s
      <4>1. Dialog[tasks[s].name].does = "view" \/ tasks[s].at = at
        BY AnswersIs DEF Shape
      <4> QED BY <1>3, <3>1, <4>1 DEF Once
    <3>3. tasks'[q] = tasks[q] /\ DOMAIN tasks' = DOMAIN tasks
      BY <1>1, <3>2, ReceiveTask
    <3> QED BY <3>1, <3>3 DEF Refetching
  <2>3. opened # i => opened' # i
    BY <1>2, <1>7
  <2> QED BY <1>2, <2>1, <2>2, <2>3 DEF Created
<1>13. CASE at = "ok" /\ Did(s, at) = {"await"} /\ Dialog[i[1]].then = <<"await", "reset", "close">>
  <2>1. s \in Refetching(i)'
    BY <1>1, <1>13, ReceiveTask DEF Refetching
  <2>2. form'[i].sent = IF form[i].sent = "sent" THEN "stored" ELSE form[i].sent
    BY <1>4, <1>5, <1>6, <1>13 DEF Told, Fields, Once
  <2>3. form[i].sent \in {"no", "sent", "stored"}
    BY <1>2, <1>13, OnceIs DEF Created
  <2> QED BY <1>13, <2>1, <2>2, <2>3
<1>14. CASE Did(s, at) = {"close", "invalidate"} /\ Dialog[i[1]].seed = "open"
  BY <1>2, <1>7, <1>14
<1> QED BY <1>2, <1>3, <1>8, <1>10, <1>11, <1>12, <1>13, <1>14, OnceIs

LEMMA CreatedNext ==
  ASSUME Shape, Created, [Next]_vars
  PROVE  Created'
<1> SUFFICES ASSUME NEW i \in DOMAIN form', Once(i[1])
             PROVE  \/ form'[i].sent = "no"
                    \/ Dialog[i[1]].seed = "open" /\ opened' # i
                    \/ form'[i].sent = "sent" /\ Underway(i)' # {}
                    \/ /\ form'[i].sent = "stored" /\ Refetching(i)' # {}
                       /\ Dialog[i[1]].then = <<"await", "reset", "close">>
  BY DEF Created
<1>0. /\ i # None /\ KindFact(i[1]) /\ InsertFact(i[1]) /\ Dialog[i[1]].seed # "none"
      /\ Dialog[i[1]].does = "insert"
  BY PlacedNext DEF Placed, Once
<1>1. CASE Fresh(form'[i], i) \/ Displaced(i) \/ Typed(i)
  BY <1>0, <1>1 DEF Fresh, Displaced, Typed, Once, Keeping
<1>2. CASE Looked(i)
  BY <1>0, <1>2 DEF Looked, Look
<1>3. CASE Informed(i)
  BY <1>3, ToldCreated
<1>4. CASE Pressed(i)
  <2>1. PICK r \in Targets(i) : Press(i, r)
    BY <1>4 DEF Pressed
  <2>2. form'[i].sent = "sent"
    BY <1>0, <1>4, <2>1, PressedAnew DEF Pressed
  <2>3. PICK s \in DOMAIN tasks : /\ DOMAIN tasks' = DOMAIN tasks
                                  /\ tasks'[s] # None /\ tasks'[s].of = i /\ tasks'[s].at = "wire"
    <3>1. i \in OnScreen /\ r \in Row \cup {None}
      BY <1>4, TargetsIs DEF Pressed
    <3> QED BY <2>1, <3>1, StartedIs DEF Press
  <2>4. s \in Underway(i)'
    BY <2>3 DEF Underway
  <2> QED BY <2>2, <2>4
<1>5. CASE Stays(i) /\ ~Informed(i) /\ ~Fresh(form'[i], i)
  <2>1. i \in InForm /\ i \in DOMAIN form /\ form'[i] = form[i] /\ i \in OnScreen
    BY <1>5, InFormIs DEF Stays, Shape, Forms
  <2>2. CASE Dialog[i[1]].seed = "open" /\ opened # i /\ opened' = i
    <3>1. Open(i)
      BY <1>0, <2>2, OpeningIs DEF Open, Look
    <3>2. form'[i].sent = "no"
      <4>1. Screen \in Listing /\ i \in Mounted(Screen) /\ \A j \in DOMAIN form : form[j] \in Fields
        BY <2>1, ScreenListing, OnScreenIs DEF Shape, Forms
      <4>2. PICK forms : forms = Rendered(form, Screen, Screen, i) /\ form' = [forms EXCEPT ![i] = Seeded(Screen, i)]
        BY <2>2, <3>1 DEF Open
      <4>3. DOMAIN form' = DOMAIN forms
        BY <4>2
      <4>4. form'[i] = Seeded(Screen, i)
        BY <4>2, <4>3
      <4> QED BY <4>1, <4>4, SeededIs DEF Shape
    <3> QED BY <3>2
  <2>3. CASE Dialog[i[1]].seed = "open" /\ opened # i /\ opened' # i
    BY <2>3
  <2>6. CASE Close /\ opened = i /\ Dialog[i[1]].fresh
    BY <1>0, <2>6 DEF Close, KindFact
  <2>4. CASE form[i].sent = "sent" /\ Underway(i) # {}
    BY <1>0, <1>5, <2>1, <2>4, <2>6, WitnessNext
  <2>5. CASE /\ form[i].sent = "stored" /\ Refetching(i) # {}
             /\ Dialog[i[1]].then = <<"await", "reset", "close">>
    <3>1. i \in Resetting
      <4>1. PICK s \in DOMAIN tasks : tasks[s] # None /\ tasks[s].of = i /\ tasks[s].at = "refetch"
        BY <2>5 DEF Refetching
      <4>2. tasks[s].name = i[1]
        BY <1>0, <4>1, TaskIs
      <4>3. "reset" \in Later(Dialog[i[1]].then)
        BY <1>0, <2>5, OnceIs
      <4> QED BY <4>1, <4>2, <4>3 DEF Resetting, Resumed
    <3> QED BY <1>0, <1>5, <2>1, <2>5, <2>6, <3>1, WitnessNext
  <2> QED BY <2>1, <2>2, <2>3, <2>4, <2>5 DEF Created
<1> QED BY <1>1, <1>2, <1>3, <1>4, <1>5, FormNext

(* CreatedOnce: a form that counts as sent has a handler that disables   *)
(* its button, or is blank again before it can be opened.                *)
THEOREM CreatedOnlyOnce == Spec => []CreatedOnce
<1> DEFINE IInv == Shape /\ Created /\ CreatedOnce
<1>1. Init => IInv
  <2> SUFFICES ASSUME Init PROVE Created /\ CreatedOnce
    BY ShapeInit
  <2>1. \A i \in DOMAIN form : form[i].sent = "no"
    BY DEF Init, Blank
  <2>2. CreatedOnce
    BY DEF Init, CreatedOnce, By
  <2> QED BY <2>1, <2>2 DEF Created
<1>2. IInv /\ [Next]_vars => IInv'
  <2> SUFFICES ASSUME IInv, [Next]_vars PROVE CreatedOnce'
    BY ShapeNext, CreatedNext
  <2>1. ASSUME NEW o \in odd', o[1] = "twice"
        PROVE  o \in odd \/ o[2] \in Keeping
    <3>1. ASSUME NEW i \in OnScreen, NEW r \in Targets(i), Press(i, r), i \in InForm, o \in OddSent(i[1], form[i], r)
          PROVE  o[2] \in Keeping
      <4>1. o[2] = i[1] /\ Dialog[i[1]].does = "insert" /\ form[i].sent # "no"
        BY <2>1, <3>1, OddSentIs
      <4> QED BY <3>1, <4>1, PressedAnew DEF Once
    <3>2. ASSUME NEW i, o \in OddShown(i[1], form'[i], RowOf(Screen, i))
          PROVE  FALSE
      BY <2>1, <3>2, OddShownIs
    <3> QED BY <2>1, <3>1, <3>2, OddNext
  <2>2. By("twice") \subseteq Keeping
    BY DEF CreatedOnce, Keeping
  <2>3. By("twice")' \subseteq Keeping
    BY <2>1, <2>2, ByNext
  <2> QED BY <2>3 DEF CreatedOnce, Keeping
<1> QED BY <1>1, <1>2, PTL DEF Spec

-----------------------------------------------------------------------------
(* Filters and pages.                                                    *)

(* The ranks of the rows of a list are the numbers up to its length.     *)
LEMMA RankOnto ==
  ASSUME NEW s \in SUBSET Row, NEW p \in 1..Cardinality(s)
  PROVE  \E r \in s : Rank(r, s) = p
<1> DEFINE below(r) == {q \in s : q < r}
           rank == [r \in s |-> Rank(r, s)]
<1>1. IsFiniteSet(s) /\ s \subseteq Nat
  BY AdminPagesAssumption, FS_Subset
<1>2. Cardinality(s) \in Nat
  BY <1>1, FS_CardinalityType
<1>3. ASSUME NEW r \in s
      PROVE  /\ IsFiniteSet(below(r)) /\ Cardinality(below(r)) \in Nat
             /\ Rank(r, s) \in 1..Cardinality(s)
  <2>1. below(r) \in SUBSET s /\ below(r) \in SUBSET (s \ {r})
    BY <1>1
  <2>2. IsFiniteSet(below(r)) /\ Cardinality(below(r)) \in Nat
    BY <1>1, <2>1, FS_Subset, FS_CardinalityType
  <2>3. IsFiniteSet(s \ {r}) /\ Cardinality(s \ {r}) = Cardinality(s) - 1
    BY <1>1, <1>3, FS_RemoveElement
  <2>4. Cardinality(below(r)) <= Cardinality(s \ {r})
    BY <2>1, <2>3, FS_Subset
  <2>5. Rank(r, s) = Cardinality(below(r)) + 1
    BY DEF Rank
  <2> HIDE DEF below
  <2> QED BY <1>2, <2>2, <2>3, <2>4, <2>5
<1>4. ASSUME NEW r \in s, NEW t \in s, r < t
      PROVE  Rank(r, s) # Rank(t, s)
  <2>0. r \in Nat /\ t \in Nat /\ \A q \in s : q \in Nat
    BY <1>1
  <2>1. below(r) \in SUBSET below(t)
    <3>1. ASSUME NEW q \in s, q < r PROVE q < t
      BY <1>4, <2>0, <3>1
    <3> QED BY <3>1
  <2>2. r \in below(t) /\ r \notin below(r)
    BY <1>4, <2>0
  <2>3. IsFiniteSet(below(t)) /\ Cardinality(below(t)) \in Nat /\ Cardinality(below(r)) \in Nat
    BY <1>3
  <2>4. Cardinality(below(r)) # Cardinality(below(t))
    <3> HIDE DEF below
    <3> QED BY <2>1, <2>2, <2>3, FS_Subset
  <2>5. Rank(r, s) = Cardinality(below(r)) + 1 /\ Rank(t, s) = Cardinality(below(t)) + 1
    BY DEF Rank
  <2> HIDE DEF below
  <2> QED BY <2>3, <2>4, <2>5
<1>5. ASSUME NEW r \in s, NEW t \in s, rank[r] = rank[t]
      PROVE  r = t
  <2>1. Rank(r, s) = Rank(t, s) /\ r \in Nat /\ t \in Nat
    BY <1>1, <1>5
  <2> QED BY <1>4, <2>1
<1>6. rank \in Injection(s, 1..Cardinality(s))
  <2>1. rank \in [s -> 1..Cardinality(s)]
    BY <1>3
  <2> HIDE DEF rank
  <2> QED BY <1>5, <2>1 DEF Injection, IsInjective
<1>7. rank \in Surjection(s, 1..Cardinality(s))
  <2>1. IsFiniteSet(1..Cardinality(s)) /\ Cardinality(1..Cardinality(s)) = Cardinality(s)
    BY <1>2, FS_Interval
  <2> HIDE DEF rank
  <2> QED BY <1>6, <2>1, FS_Injection
<1>8. PICK r \in s : rank[r] = p
  <2> HIDE DEF rank
  <2> QED BY <1>7 DEF Surjection
<1> QED BY <1>8

LEMMA CountRows ==
  ASSUME NEW s \in SUBSET Row, NEW t \in SUBSET s
  PROVE  Cardinality(t) \in Nat /\ Cardinality(s) \in Nat /\ Cardinality(t) <= Cardinality(s)
<1>1. IsFiniteSet(s) /\ IsFiniteSet(t)
  BY AdminPagesAssumption, FS_Subset
<1> QED BY <1>1, FS_Subset, FS_CardinalityType

-----------------------------------------------------------------------------
(* The rows, while none has been deleted.                                *)
NoneGone == \A r \in Row : rows[r] # Gone

Matching == Cardinality(Live \cap match)

(* No page past the end is loaded or turned to before a row is deleted.  *)
Paged ==
  This.paging = "server" /\ NoneGone =>
    /\ no > 1 => ~Whole /\ no <= Matching
    /\ \A n \in DOMAIN cache :
         /\ cache[n].more => ~Whole /\ n < Matching
         /\ n > 1 /\ cache[n].list # None => DOMAIN cache[n].list # {}
    /\ fetch # None =>
         /\ fetch.more => ~Whole /\ no < Matching
         /\ no > 1 /\ fetch.list # None => DOMAIN fetch.list # {}

LEMMA ChangedRows ==
  ASSUME NEW does, NEW q, NEW at \in Nat, rows' \in Changed(does, q, at), rows \in [Row -> Nat \cup {None, Gone}]
  PROVE  NoneGone' => NoneGone /\ Live \subseteq Live'
<1> SUFFICES ASSUME NoneGone' PROVE NoneGone /\ Live \subseteq Live'
  OBVIOUS
<1>0. Gone \notin Nat /\ None # Gone
  BY AdminPagesAssumption
<1>1. CASE does \in {"insert", "update"}
  <2>1. PICK p \in Row : rows' = [rows EXCEPT ![p] = at] /\ rows[p] # Gone
    BY <1>0, <1>1 DEF Changed, Free, Live
  <2> QED BY <1>0, <2>1 DEF NoneGone, Live
<1>2. CASE does = "delete"
  <2>1. PICK p \in Live : rows' = [rows EXCEPT ![p] = Gone]
    BY <1>2 DEF Changed
  <2>2. rows'[p] = Gone /\ p \in Row
    BY <2>1 DEF Live
  <2> QED BY <2>2 DEF NoneGone
<1>3. CASE does = "clean"
  <2>1. rows' = [p \in Row |-> IF p \in Live THEN Gone ELSE rows[p]]
    BY <1>3 DEF Changed
  <2>2. Live = {}
    BY <2>1 DEF Live, NoneGone
  <2>3. rows' = rows
    BY <2>1, <2>2
  <2> QED BY <2>3 DEF NoneGone, Live
<1> QED BY <1>1, <1>2, <1>3 DEF Changed

LEMMA RowsNext ==
  ASSUME Shape, [Next]_vars
  PROVE  NoneGone' => NoneGone /\ Live \subseteq Live'
<1> DEFINE Goes == NoneGone' => NoneGone /\ Live \subseteq Live'
<1>0. rows \in [Row -> Nat \cup {None, Gone}] /\ clock + 1 \in Nat
  <2>1. clock \in Nat
    BY AdminPagesAssumption DEF Shape, Kept
  <2>2. 0..clock \subseteq Nat
    BY <2>1
  <2> QED BY <2>1, <2>2 DEF Shape, Kept
<1>1. ASSUME UNCHANGED rows PROVE Goes
  BY <1>1 DEF NoneGone, Live
<1>2. ASSUME NEW does, NEW q, rows' \in Changed(does, q, clock + 1) PROVE Goes
  BY <1>0, <1>2, ChangedRows
<1> HIDE DEF Goes
<1>3. ASSUME FetchServe \/ FetchDone \/ FetchFail \/ Refocus \/ Close \/ Fold \/ UNCHANGED vars PROVE Goes
  BY <1>1, <1>3 DEF FetchServe, FetchDone, FetchFail, Refocus, Close, Fold, vars
<1>4. ASSUME NEW n, Turn(n) PROVE Goes
  BY <1>1, <1>4 DEF Turn
<1>5. ASSUME NEW i, NEW r, Open(i) \/ Type(i) \/ Search(i) \/ Press(i, r) \/ Look(i, r) PROVE Goes
  BY <1>1, <1>5 DEF Open, Type, Search, Filtered, Press, Look
<1>6. ASSUME NEW s, NEW at, ServeNothing(s) \/ Receive(s, at) PROVE Goes
  BY <1>1, <1>6 DEF ServeNothing, Receive
<1>7. ASSUME NEW s, Serve(s) PROVE Goes
  BY <1>2, <1>7 DEF Serve
<1>8. ASSUME Elsewhere PROVE Goes
  BY <1>2, <1>8 DEF Elsewhere
<1>9. ASSUME NEW i, Open(i) \/ Type(i) \/ Search(i) PROVE Goes
  BY <1>5, <1>9
<1>10. ASSUME NEW s, ServeNothing(s) PROVE Goes
  BY <1>6, <1>10
<1>11. Goes
  BY <1>3, <1>4, <1>5, <1>6, <1>7, <1>8, <1>9, <1>10 DEF Next
<1> QED BY <1>11 DEF Goes

(* A step that keeps the lists and the page shown.                       *)
LEMMA PagedStays ==
  ASSUME Shape, Paged, [Next]_vars, match' = match, no' = no, DOMAIN cache' = DOMAIN cache,
         \A n \in DOMAIN cache : cache'[n].list = cache[n].list /\ cache'[n].more = cache[n].more,
         fetch' \in {fetch, None, NewFetch}
  PROVE  Paged'
<1> SUFFICES ASSUME This'.paging = "server", NoneGone' PROVE Paged'
  BY DEF Paged
<1>1. page' = page /\ This' = This /\ Whole' = Whole
  BY ClockGrows DEF Whole
<1>2. NoneGone /\ Live \subseteq Live'
  BY RowsNext
<1>3. Matching \in Nat /\ Matching' \in Nat /\ Matching <= Matching'
  <2>1. Live' \cap match \in SUBSET Row /\ Live \cap match \in SUBSET (Live' \cap match)
    BY <1>2 DEF Live
  <2> QED BY <2>1, CountRows DEF Matching
<1>4. no \in Nat /\ \A n \in DOMAIN cache : n \in Nat
  BY AdminPagesAssumption DEF Shape, Kept
<1>5. NewFetch.more = FALSE /\ NewFetch.list = None
  BY DEF NewFetch
<1>6. /\ no > 1 => ~Whole /\ no <= Matching
      /\ \A n \in DOMAIN cache :
           /\ cache[n].more => ~Whole /\ n < Matching
           /\ n > 1 /\ cache[n].list # None => DOMAIN cache[n].list # {}
      /\ fetch # None =>
           /\ fetch.more => ~Whole /\ no < Matching
           /\ no > 1 /\ fetch.list # None => DOMAIN fetch.list # {}
  BY <1>1, <1>2 DEF Paged
<1>7. no' > 1 => ~Whole' /\ no' <= Matching'
  BY <1>1, <1>3, <1>4, <1>6
<1>8. \A n \in DOMAIN cache' :
        /\ cache'[n].more => ~Whole' /\ n < Matching'
        /\ n > 1 /\ cache'[n].list # None => DOMAIN cache'[n].list # {}
  BY <1>1, <1>3, <1>4, <1>6
<1>9. fetch' # None =>
        /\ fetch'.more => ~Whole' /\ no' < Matching'
        /\ no' > 1 /\ fetch'.list # None => DOMAIN fetch'.list # {}
  BY <1>1, <1>3, <1>4, <1>5, <1>6
<1> QED BY <1>7, <1>8, <1>9 DEF Paged

LEMMA ServePaged ==
  ASSUME Shape, Paged, FetchServe, [Next]_vars
  PROVE  Paged'
<1> SUFFICES ASSUME This'.paging = "server", NoneGone' PROVE Paged'
  BY DEF Paged
<1>1. page' = page /\ This' = This /\ Whole' = Whole /\ Matching' = Matching /\ NoneGone
      /\ UNCHANGED <<no, cache>>
  <2>1. UNCHANGED <<page, match, rows, no, cache>>
    BY DEF FetchServe
  <2>2. Live' = Live
    BY <2>1 DEF Live
  <2> QED BY <2>1, <2>2, RowsNext DEF Whole, Matching, This
<1>2. fetch \in Fetching
  BY DEF FetchServe, Shape, Kept
<1>3. /\ fetch'.list = [r \in Found |-> rows[r]]
      /\ fetch'.more = (~Whole /\ no < Matching)
  BY <1>2 DEF FetchServe, Fetching, Matching
<1>4. ASSUME no > 1 PROVE Found # {}
  <2>1. ~Whole /\ no <= Matching
    BY <1>1, <1>4 DEF Paged
  <2>2. Live \cap match \in SUBSET Row /\ Matching \in Nat
    BY CountRows DEF Live, Matching
  <2>3. no \in 1..Matching
    BY <1>4, <2>1, <2>2, AdminPagesAssumption DEF Shape, Kept
  <2>4. PICK r \in Live \cap match : Rank(r, Live \cap match) = no
    BY <2>2, <2>3, RankOnto DEF Matching
  <2> QED BY <1>1, <2>4 DEF Found
<1>5. DOMAIN fetch'.list = Found
  BY <1>3
<1>6. fetch' # None =>
        /\ fetch'.more => ~Whole' /\ no' < Matching'
        /\ no' > 1 /\ fetch'.list # None => DOMAIN fetch'.list # {}
  BY <1>1, <1>3, <1>4, <1>5
<1> QED BY <1>1, <1>6 DEF Paged

LEMMA DonePaged ==
  ASSUME Shape, Paged, FetchDone, [Next]_vars
  PROVE  Paged'
<1> SUFFICES ASSUME This'.paging = "server", NoneGone' PROVE Paged'
  BY DEF Paged
<1> DEFINE e == [list |-> fetch.list, more |-> fetch.more, at |-> fetch.at, stale |-> FALSE]
<1>1. page' = page /\ This' = This /\ Whole' = Whole /\ Matching' = Matching /\ NoneGone
  <2>1. UNCHANGED <<page, match, rows>>
    BY DEF FetchDone
  <2>2. Live' = Live
    BY <2>1 DEF Live
  <2> QED BY <2>1, <2>2, RowsNext DEF Whole, Matching, This
<1>2. no' = no /\ fetch' = None /\ fetch # None /\ cache' = [cache EXCEPT ![no] = e]
  BY <1>1 DEF FetchDone, Render, Slot
<1>3. /\ no > 1 => ~Whole /\ no <= Matching
      /\ \A n \in DOMAIN cache :
           /\ cache[n].more => ~Whole /\ n < Matching
           /\ n > 1 /\ cache[n].list # None => DOMAIN cache[n].list # {}
      /\ fetch.more => ~Whole /\ no < Matching
      /\ no > 1 /\ fetch.list # None => DOMAIN fetch.list # {}
  BY <1>1, <1>2 DEF Paged
<1>4. e.list = fetch.list /\ e.more = fetch.more
  OBVIOUS
<1> HIDE DEF e
<1>5. \A n \in DOMAIN cache' :
        /\ cache'[n].more => ~Whole' /\ n < Matching'
        /\ n > 1 /\ cache'[n].list # None => DOMAIN cache'[n].list # {}
  <2> SUFFICES ASSUME NEW n \in DOMAIN cache
               PROVE  /\ cache'[n].more => ~Whole' /\ n < Matching'
                      /\ n > 1 /\ cache'[n].list # None => DOMAIN cache'[n].list # {}
    BY <1>2
  <2>1. CASE n = no
    <3>1. cache'[n] = e
      BY <1>2, <2>1
    <3> QED BY <1>1, <1>3, <1>4, <2>1, <3>1
  <2>2. CASE n # no
    <3>1. cache'[n] = cache[n]
      BY <1>2, <2>2
    <3> QED BY <1>1, <1>3, <3>1
  <2> QED BY <2>1, <2>2
<1> QED BY <1>1, <1>2, <1>3, <1>5 DEF Paged

LEMMA TurnPaged ==
  ASSUME Shape, Paged, [Next]_vars, NEW n \in 1..MaxPage, Turn(n)
  PROVE  Paged'
<1> SUFFICES ASSUME This'.paging = "server", NoneGone' PROVE Paged'
  BY DEF Paged
<1>1. page' = page /\ This' = This /\ Whole' = Whole /\ Matching' = Matching /\ NoneGone
  <2>1. UNCHANGED <<page, match, rows>>
    BY DEF Turn
  <2>2. Live' = Live
    BY <2>1 DEF Live
  <2> QED BY <2>1, <2>2, RowsNext DEF Whole, Matching, This
<1>2. /\ no' = n /\ cache' = cache /\ fetch' \in {None, NewFetch}
      /\ n = no - 1 \/ (n = no + 1 /\ cache[no].more)
  BY <1>1 DEF Turn, Render, Observe, Turns
<1>3. Matching \in Nat /\ no \in Nat /\ n \in Nat /\ no \in DOMAIN cache
  BY <1>1, CountRows, AdminPagesAssumption DEF Matching, Live, Shape, Kept
<1>4. /\ no > 1 => ~Whole /\ no <= Matching
      /\ \A k \in DOMAIN cache :
           /\ cache[k].more => ~Whole /\ k < Matching
           /\ k > 1 /\ cache[k].list # None => DOMAIN cache[k].list # {}
  BY <1>1 DEF Paged
<1>5. n > 1 => ~Whole /\ n <= Matching
  BY <1>2, <1>3, <1>4
<1>6. NewFetch.more = FALSE /\ NewFetch.list = None
  BY DEF NewFetch
<1> QED BY <1>1, <1>2, <1>4, <1>5, <1>6 DEF Paged

LEMMA SearchPaged ==
  ASSUME Shape, Paged, [Next]_vars, NEW i, Search(i)
  PROVE  Paged'
<1> SUFFICES ASSUME This'.paging = "server" PROVE Paged'
  BY DEF Paged
<1>1. page' = page /\ This' = This
  BY ClockGrows
<1>2. no' = 1 /\ cache' = [n \in DOMAIN cache |-> NewEntry] /\ fetch' = NewFetch
  BY <1>1 DEF Search, Filtered, Render
<1> QED BY <1>2 DEF Paged, NewEntry, NewFetch

LEMMA PagedNext ==
  ASSUME Shape, Paged, [Next]_vars
  PROVE  Paged'
<1>1. ASSUME match' = match, no' = no, cache' = cache, fetch' \in {fetch, None, NewFetch}
      PROVE  Paged'
  BY <1>1, PagedStays
<1>2. CASE FetchServe \/ FetchDone
  BY <1>2, ServePaged, DonePaged
<1>3. CASE FetchFail \/ Refocus \/ Fold \/ Elsewhere \/ UNCHANGED vars
  BY <1>1, <1>3 DEF FetchFail, Render, Refocus, Fold, Elsewhere, vars
<1>4. ASSUME NEW i \in OnScreen, NEW r, Open(i) \/ Type(i) \/ Press(i, r) \/ Look(i, r) PROVE Paged'
  BY <1>1, <1>4 DEF Open, Observe, Type, Press, Look
<1>5. CASE Close
  BY <1>1, <1>5 DEF Close, Shut
<1>6. ASSUME NEW s \in DOMAIN tasks, Serve(s) \/ ServeNothing(s) PROVE Paged'
  BY <1>1, <1>6 DEF Serve, ServeNothing
<1>7. ASSUME NEW s \in DOMAIN tasks, NEW at \in Answers(tasks[s]), Receive(s, at) PROVE Paged'
  <2>1. match' = match /\ no' = no
    BY <1>7, ReceiveIs DEF Shape
  <2>2. \/ cache' = cache /\ fetch' \in {fetch, None}
        \/ invalidateQueries
    BY <1>7, ReceiveIs DEF Shape, Shut
  <2>3. CASE invalidateQueries
    <3>1. cache' = [n \in DOMAIN cache |-> [cache[n] EXCEPT !.stale = cache[n].list # None]]
          /\ fetch' \in {fetch, NewFetch}
      BY <2>3 DEF invalidateQueries
    <3>2. \A n \in DOMAIN cache : cache[n] \in Entry
      BY DEF Shape, Kept
    <3>3. \A n \in DOMAIN cache : cache'[n].list = cache[n].list /\ cache'[n].more = cache[n].more
      BY <3>1, <3>2 DEF Entry
    <3> QED BY <2>1, <3>1, <3>3, PagedStays
  <2> QED BY <1>1, <2>1, <2>2, <2>3
<1>8. ASSUME NEW i \in OnScreen, Open(i) \/ Type(i) PROVE Paged'
  BY <1>4, <1>8
<1> QED BY <1>2, <1>3, <1>4, <1>5, <1>6, <1>7, <1>8, TurnPaged, SearchPaged DEF Next, OnScreen

LEMMA PageOf == Shape /\ Paged => PageOfTheList
<1> SUFFICES ASSUME Shape, Paged, cache[Slot(no)].list # None, DOMAIN Screen = {}
             PROVE  CASE This.paging = "client" -> DOMAIN cache[Slot(no)].list \cap match = {}
                      [] This.paging = "server" -> no = 1 \/ \E r \in Row : rows[r] = Gone
                      [] OTHER -> DOMAIN cache[Slot(no)].list = {}
  BY DEF PageOfTheList
<1> DEFINE list == cache[Slot(no)].list
<1>1. Slot(no) \in DOMAIN cache /\ list \in Listing /\ DOMAIN list \subseteq Row
  <2>1. Slot(no) \in DOMAIN cache
    BY ScreenListing DEF Shape
  <2>2. list \in Listing
    BY <2>1 DEF Shape, Kept, Entry
  <2> QED BY <2>1, <2>2, ListingIs
<1>2. This.paging # "client" => Screen = list
  BY DEF Screen, Shown
<1>3. no \in Nat \ {0}
  BY AdminPagesAssumption DEF Shape, Kept
<1>4. CASE This.paging = "client"
  <2> DEFINE s == DOMAIN list \cap match
             p == Least(no, Larger(1, Cardinality(s)))
  <2>1. Screen = [r \in {r \in s : Rank(r, s) = p} |-> list[r]]
    BY <1>4 DEF Screen, Shown
  <2>2. s \in SUBSET Row /\ Cardinality(s) \in Nat
    BY <1>1, CountRows
  <2>3. ASSUME s # {} PROVE FALSE
    <3>1. IsFiniteSet(s)
      BY <2>2, AdminPagesAssumption, FS_Subset
    <3>2. Cardinality(s) # 0
      BY <2>3, <3>1, FS_EmptySet
    <3>3. p \in 1..Cardinality(s)
      <4> HIDE DEF s
      <4> QED BY <1>3, <2>2, <3>2 DEF Least, Larger
    <3> HIDE DEF s, p
    <3>4. PICK r \in s : Rank(r, s) = p
      BY <2>2, <3>3, RankOnto
    <3>5. r \in DOMAIN Screen
      BY <2>1, <3>4
    <3> QED BY <3>5
  <2> QED BY <1>4, <2>3
<1>5. CASE This.paging = "server"
  <2>1. Slot(no) = no
    BY <1>5 DEF Slot
  <2>2. ASSUME no # 1, NoneGone PROVE FALSE
    BY <1>1, <1>2, <1>3, <1>5, <2>1, <2>2 DEF Paged
  <2> QED BY <1>5, <2>2 DEF NoneGone
<1>6. CASE This.paging \notin {"client", "server"}
  BY <1>2, <1>6
<1> QED BY <1>4, <1>5, <1>6

(* PageOfTheList: the client clamps the page to the rows that are left,  *)
(* and every page from the server was turned to when there were rows on  *)
(* it.                                                                   *)
THEOREM PagesOfTheList == Spec => []PageOfTheList
<1>1. Init => Shape /\ Paged
  BY ShapeInit DEF Init, Paged, NewEntry, NewFetch
<1>2. Shape /\ Paged /\ [Next]_vars => Shape' /\ Paged'
  BY ShapeNext, PagedNext
<1> QED BY <1>1, <1>2, PageOf, PTL DEF Spec

-----------------------------------------------------------------------------
(* The shell around the pages.                                           *)

(* A non-empty set of naturals has a least element.                      *)
LEMMA NatLeast ==
  ASSUME NEW T \in SUBSET Nat, T # {}
  PROVE  \E x \in T : \A y \in T : x <= y
<1> DEFINE R == OpToRel(<, Nat)
<1>1. IsWellFoundedOn(R, Nat)
  BY NatLessThanWellFounded, Zenon
<1>2. ASSUME NEW x \in Nat, NEW y \in Nat, x < y PROVE <<x, y>> \in R
  BY <1>2 DEF OpToRel
<1> HIDE DEF R
<1>3. PICK x \in T : \A y \in T : ~(<<y, x>> \in R)
  BY <1>1, WFMin
<1>4. ASSUME NEW y \in T PROVE x <= y
  <2>1. ~(<<y, x>> \in R) /\ x \in Nat /\ y \in Nat
    BY <1>3, <1>4
  <2>2. ~(y < x)
    BY <1>2, <2>1
  <2> QED BY <2>1, <2>2
<1> QED BY <1>4

(* The loops of syncMenus and of GetUserMenus, written as recursive      *)
(* functions, exist.                                                     *)
LEMMA SyncLoop ==
  ASSUME NEW there, NEW base, NEW N \in Nat
  PROVE  \E s : s = [n \in 0..N |->
           IF n = 0 THEN base
           ELSE IF Seed[n] \in Declared(there) THEN Synced(s[n - 1], Seed[n]) ELSE s[n - 1]]
<1> DEFINE V(s, n) == IF n = 0 THEN base
                      ELSE IF Seed[n] \in Declared(there) THEN Synced(s[n - 1], Seed[n]) ELSE s[n - 1]
           Is(k, s) == s = [n \in 0..k |-> V(s, n)]
           Bad == {k \in Nat : ~ \E s : Is(k, s)}
<1>1. ASSUME Bad # {} PROVE FALSE
  <2>1. PICK k \in Bad : \A j \in Bad : k <= j
    BY <1>1, NatLeast
  <2>2. CASE k = 0
    <3>1. Is(0, [n \in 0..0 |-> base])
      OBVIOUS
    <3> QED BY <2>1, <2>2, <3>1
  <2>3. CASE k # 0
    <3>1. k - 1 \in Nat /\ k \in Nat /\ ~(k <= k - 1)
      BY <2>1, <2>3
    <3>2. k - 1 \notin Bad
      BY <2>1, <3>1
    <3>3. PICK f : Is(k - 1, f)
      BY <3>1, <3>2
    <3> DEFINE s == [n \in 0..k |-> IF n = k THEN V(f, k) ELSE f[n]]
    <3>4. ASSUME NEW n \in 0..k PROVE s[n] = V(s, n)
      <4>1. n # 0 => n - 1 \in 0..k /\ n - 1 # k /\ n - 1 \in 0..(k - 1)
        BY <3>1
      <4>2. n # 0 => s[n - 1] = f[n - 1]
        BY <4>1
      <4>3. V(s, n) = V(f, n)
        BY <4>2
      <4>4. CASE n = k
        BY <4>3, <4>4
      <4>5. CASE n # k
        <5>1. n \in 0..(k - 1)
          BY <3>1, <4>5
        <5>2. f[n] = V(f, n)
          BY <3>3, <5>1
        <5> QED BY <4>3, <4>5, <5>2
      <4> QED BY <4>4, <4>5
    <3>5. Is(k, s)
      BY <3>4
    <3> QED BY <2>1, <3>5
  <2> QED BY <2>2, <2>3
<1>2. \E s : Is(N, s)
  BY <1>1
<1> QED BY <1>2

Walk(g, byID, granted, keys, N) ==
  g = [n \in 0..N |-> IF n = 0 THEN granted ELSE Climb(byID, g[n - 1], keys[n])]

LEMMA GrantLoop ==
  ASSUME NEW byID, NEW granted, NEW keys, NEW N \in Nat
  PROVE  \E g : Walk(g, byID, granted, keys, N)
<1> DEFINE V(s, n) == IF n = 0 THEN granted ELSE Climb(byID, s[n - 1], keys[n])
           Is(k, s) == s = [n \in 0..k |-> V(s, n)]
           Bad == {k \in Nat : ~ \E s : Is(k, s)}
<1>1. ASSUME Bad # {} PROVE FALSE
  <2>1. PICK k \in Bad : \A j \in Bad : k <= j
    BY <1>1, NatLeast
  <2>2. CASE k = 0
    <3>1. Is(0, [n \in 0..0 |-> granted])
      OBVIOUS
    <3> QED BY <2>1, <2>2, <3>1
  <2>3. CASE k # 0
    <3>1. k - 1 \in Nat /\ k \in Nat /\ ~(k <= k - 1)
      BY <2>1, <2>3
    <3>2. k - 1 \notin Bad
      BY <2>1, <3>1
    <3>3. PICK f : Is(k - 1, f)
      BY <3>1, <3>2
    <3> DEFINE s == [n \in 0..k |-> IF n = k THEN V(f, k) ELSE f[n]]
    <3>4. ASSUME NEW n \in 0..k PROVE s[n] = V(s, n)
      <4>1. n # 0 => n - 1 \in 0..k /\ n - 1 # k /\ n - 1 \in 0..(k - 1)
        BY <3>1
      <4>2. n # 0 => s[n - 1] = f[n - 1]
        BY <4>1
      <4>3. V(s, n) = V(f, n)
        BY <4>2
      <4>4. CASE n = k
        BY <4>3, <4>4
      <4>5. CASE n # k
        <5>1. n \in 0..(k - 1)
          BY <3>1, <4>5
        <5>2. f[n] = V(f, n)
          BY <3>3, <5>1
        <5> QED BY <4>3, <4>5, <5>2
      <4> QED BY <4>4, <4>5
    <3>5. Is(k, s)
      BY <3>4
    <3> QED BY <2>1, <3>5
  <2> QED BY <2>2, <2>3
<1>2. \E s : Is(N, s)
  BY <1>1
<1> QED BY <1>2 DEF Walk

-----------------------------------------------------------------------------
(* Ids are given once: there are no rows beyond the last id given.       *)
RowsKnown ==
  /\ menus = [i \in Id |-> menus[i]]
  /\ lastId \in Nat
  /\ \A i \in Present : i <= lastId
  /\ IsFiniteSet(roleMenus)
  /\ installed \in BOOLEAN
  /\ disabled \in BOOLEAN

(* A state of syncMenus, begun with the rows menus and the id lastId.    *)
SyncKnown(s) ==
  /\ s = [rows |-> s.rows, last |-> s.last, granted |-> s.granted]
  /\ s.rows = [i \in Id |-> s.rows[i]]
  /\ s.last \in Nat
  /\ lastId <= s.last
  /\ \A i \in Id : s.rows[i] # Null => i <= s.last /\ (menus[i] # Null \/ lastId < i)
  /\ IsFiniteSet(s.granted)

LEMMA SyncedKnown ==
  ASSUME NEW s, NEW seed, lastId \in Nat, SyncKnown(s)
  PROVE  SyncKnown(Synced(s, seed))
<1> DEFINE Named(name) == {i \in Id : s.rows[i] # Null /\ s.rows[i].name = name}
           parent == IF seed.in = Null THEN 0 ELSE CHOOSE i \in Named(seed.in) : TRUE
           row == [name |-> seed.name, parent |-> parent, path |-> seed.path]
           i == FreshId(s.rows, s.last)
           t == [rows |-> [s.rows EXCEPT ![i] = row], last |-> Greater(i, s.last),
                 granted |-> IF seed.visible THEN s.granted \cup {i} ELSE s.granted]
           u == [s EXCEPT !.rows = [i2 \in Id |-> IF i2 \in Named(seed.name) THEN row ELSE s.rows[i2]]]
<1>1. Synced(s, seed) = IF Named(seed.name) = {} THEN t ELSE IF seed.plugin THEN u ELSE s
  BY DEF Synced
<1> HIDE DEF row, parent
<1>2. i = s.last + 1 /\ Greater(i, s.last) = s.last + 1
  BY DEF FreshId, Greater, SyncKnown
<1>3. SyncKnown(t)
  <2>1. t.rows = [s.rows EXCEPT ![s.last + 1] = row] /\ t.last = s.last + 1
    BY <1>2
  <2>2. ASSUME NEW j \in Id, t.rows[j] # Null
        PROVE  j <= t.last /\ (menus[j] # Null \/ lastId < j)
    <3>1. j \in Nat
      BY MenusAssumption
    <3>2. CASE j = s.last + 1
      BY <2>1, <3>1, <3>2 DEF SyncKnown
    <3>3. CASE j # s.last + 1
      <4>1. t.rows[j] = s.rows[j]
        BY <2>1, <3>3 DEF SyncKnown
      <4> QED BY <2>1, <2>2, <3>1, <4>1 DEF SyncKnown
    <3> QED BY <3>2, <3>3
  <2>3. t.rows = [j \in Id |-> t.rows[j]]
    BY <2>1 DEF SyncKnown
  <2>4. t.last \in Nat /\ lastId <= t.last
    BY <2>1 DEF SyncKnown
  <2>5. t = [rows |-> t.rows, last |-> t.last, granted |-> t.granted]
    OBVIOUS
  <2>6. IsFiniteSet(t.granted)
    <3>1. IsFiniteSet(s.granted) /\ IsFiniteSet(s.granted \cup {i})
      BY FS_AddElement DEF SyncKnown
    <3> QED BY <3>1
  <2> HIDE DEF t
  <2> QED BY <2>2, <2>3, <2>4, <2>5, <2>6 DEF SyncKnown
<1>4. SyncKnown(u)
  <2>1. u = [rows |-> [j \in Id |-> IF j \in Named(seed.name) THEN row ELSE s.rows[j]],
             last |-> s.last, granted |-> s.granted]
    BY DEF SyncKnown
  <2>2. ASSUME NEW j \in Id, u.rows[j] # Null PROVE s.rows[j] # Null
    BY <2>1, <2>2
  <2> HIDE DEF u
  <2> QED BY <2>1, <2>2 DEF SyncKnown
<1> HIDE DEF t, u, Named
<1> QED BY <1>1, <1>3, <1>4

LEMMA SyncMenusKnown ==
  ASSUME NEW there, RowsKnown
  PROVE  SyncKnown(syncMenus(there))
<1> DEFINE base == [rows |-> menus, last |-> lastId, granted |-> roleMenus]
           V(s, n) == IF n = 0 THEN base
                      ELSE IF Seed[n] \in Declared(there) THEN Synced(s[n - 1], Seed[n]) ELSE s[n - 1]
           s == CHOOSE s : s = [n \in 0..Len(Seed) |-> V(s, n)]
<1>0. Len(Seed) \in Nat
  BY MenusAssumption
<1>1. s = [n \in 0..Len(Seed) |-> V(s, n)]
  BY <1>0, SyncLoop
<1>2. syncMenus(there) = s[Len(Seed)]
  BY DEF syncMenus
<1>3. SyncKnown(base)
  <2>1. \A i \in Id : menus[i] # Null => i \in Present
    BY DEF Present
  <2> QED BY <2>1 DEF RowsKnown, SyncKnown
<1> HIDE DEF s, base
<1> DEFINE Bad == {n \in 0..Len(Seed) : ~SyncKnown(s[n])}
<1>4. ASSUME Bad # {} PROVE FALSE
  <2>0. Bad \in SUBSET Nat
    BY <1>0
  <2>1. PICK k \in Bad : \A j \in Bad : k <= j
    BY <1>4, <2>0, NatLeast
  <2>2. k \in 0..Len(Seed) /\ k \in Nat /\ ~SyncKnown(s[k])
    BY <1>0
  <2>3. s[k] = V(s, k)
    BY <1>1, <2>2
  <2>4. k # 0
    BY <1>3, <2>2, <2>3
  <2>5. k - 1 \in 0..Len(Seed) /\ ~(k <= k - 1)
    BY <1>0, <2>2, <2>4
  <2>6. SyncKnown(s[k - 1])
    BY <2>1, <2>5
  <2>7. SyncKnown(Synced(s[k - 1], Seed[k]))
    BY <2>6, SyncedKnown DEF RowsKnown
  <2> QED BY <2>2, <2>3, <2>4, <2>6, <2>7
<1> QED BY <1>0, <1>2, <1>4

-----------------------------------------------------------------------------
(* What a change of the menus, a grant, the switch or a restart does to  *)
(* the rows: those that come have new ids.                               *)
LEMMA MenuRowsNext ==
  ASSUME RowsKnown, NEW grants \in SUBSET (SUBSET Id), MenusNext(grants)
  PROVE  RowsKnown' /\ lastId <= lastId' /\ \A i \in Present' : i \in Present \/ lastId < i
<1> DEFINE Goes == /\ RowsKnown'
                   /\ lastId <= lastId'
                   /\ \A i \in Present' : i \in Present \/ lastId < i
<1>0. Id \subseteq Nat
  BY MenusAssumption
<1>1. ASSUME NEW parent, NEW path, CreateMenu(parent, path) PROVE Goes
  <2> DEFINE row == [name |-> Null, parent |-> parent, path |-> path]
  <2>1. /\ menus' = [menus EXCEPT ![lastId + 1] = row]
        /\ lastId' = lastId + 1
        /\ UNCHANGED <<installed, disabled>>
    BY <1>1 DEF CreateMenu, FreshId, Greater, RowsKnown
  <2>a. IsFiniteSet(roleMenus')
    BY <1>1 DEF CreateMenu, RowsKnown
  <2> HIDE DEF row
  <2>2. menus' = [i \in Id |-> IF i = lastId + 1 THEN row ELSE menus[i]]
    BY <2>1 DEF RowsKnown
  <2>3. ASSUME NEW i \in Present' PROVE i = lastId + 1 \/ i \in Present
    BY <2>2 DEF Present
  <2>4. \A i \in Present' : i \in Nat /\ i <= lastId + 1 /\ (i \in Present \/ lastId < i)
    <3>1. \A i \in Present : i \in Nat /\ i <= lastId
      BY <1>0 DEF RowsKnown, Present
    <3> QED BY <2>3, <3>1 DEF RowsKnown
  <2>5. menus' = [i \in Id |-> menus'[i]]
    BY <2>2
  <2> QED BY <2>a, <2>1, <2>4, <2>5 DEF RowsKnown
<1>2. ASSUME NEW i \in Id, NEW parent, NEW path, UpdateMenu(i, parent, path) PROVE Goes
  <2>1. menus' = [menus EXCEPT ![i] = [menus[i] EXCEPT !.parent = parent, !.path = path]]
    BY <1>2 DEF UpdateMenu, RowsKnown
  <2>2. i \in Present /\ UNCHANGED <<lastId, roleMenus, installed, disabled>>
    BY <1>2 DEF UpdateMenu
  <2> DEFINE row == [menus[i] EXCEPT !.parent = parent, !.path = path]
  <2> HIDE DEF row
  <2>3. menus' = [j \in Id |-> IF j = i THEN row ELSE menus[j]]
    BY <2>1 DEF RowsKnown, row
  <2>4. Present' \subseteq Present
    BY <2>2, <2>3 DEF Present
  <2> QED BY <1>0, <2>2, <2>3, <2>4 DEF RowsKnown, Present
<1>3. ASSUME NEW i \in Id, DeleteMenu(i) PROVE Goes
  <2>1. menus' = [j \in Id |-> IF j = i THEN Null ELSE menus[j]] /\ UNCHANGED <<lastId, installed, disabled>>
    BY <1>3 DEF DeleteMenu, RowsKnown
  <2>2. Present' \subseteq Present
    BY <2>1 DEF Present
  <2>3. IsFiniteSet(roleMenus')
    BY <1>3, FS_Subset DEF DeleteMenu, RowsKnown
  <2> QED BY <1>0, <2>1, <2>2, <2>3 DEF RowsKnown, Present
<1>4. ASSUME NEW ids \in grants, SetRolePermissions(ids) PROVE Goes
  <2>1. IsFiniteSet(ids)
    BY MenusAssumption, FS_Subset
  <2> QED BY <1>0, <1>4, <2>1 DEF SetRolePermissions, RowsKnown, Present
<1>5. ASSUME NEW on \in BOOLEAN, SetPluginEnabled(on) PROVE Goes
  BY <1>0, <1>5 DEF SetPluginEnabled, RowsKnown, Present
<1>6. ASSUME NEW there \in BOOLEAN, Start(there) PROVE Goes
  <2> DEFINE s == syncMenus(there)
  <2>1. SyncKnown(s)
    BY SyncMenusKnown
  <2>2. /\ menus' = [i \in Id |-> IF i \in Orphans(s.rows, there) THEN Null ELSE s.rows[i]]
        /\ lastId' = s.last
        /\ installed' = there
        /\ disabled' = disabled
    BY <1>6 DEF Start
  <2>6. IsFiniteSet(roleMenus')
    <3>1. roleMenus' \subseteq s.granted
      BY <1>6 DEF Start
    <3> QED BY <2>1, <3>1, FS_Subset DEF SyncKnown
  <2> HIDE DEF s
  <2>3. ASSUME NEW i \in Present' PROVE i \in Id /\ i <= s.last /\ (i \in Present \/ lastId < i)
    <3>1. i \in Id /\ s.rows[i] # Null
      BY <2>2 DEF Present
    <3> QED BY <2>1, <3>1 DEF SyncKnown, Present
  <2>4. menus' = [i \in Id |-> menus'[i]]
    BY <2>2
  <2>5. lastId' \in Nat /\ lastId <= lastId'
    BY <2>1, <2>2 DEF SyncKnown
  <2> QED BY <2>2, <2>3, <2>4, <2>5, <2>6 DEF RowsKnown
<1> QED BY <1>1, <1>2, <1>3, <1>4, <1>5, <1>6 DEF MenusNext

-----------------------------------------------------------------------------
(* What the tab has comes from rows there have been, each id once.       *)
RowsRead(table, last) == \A i \in DOMAIN table : i \in Id /\ i <= last

TreeRead(tree, last) == \A m \in tree : m.id \in Nat /\ m.id <= last /\ \A x \in tree : x.id = m.id => x = m

(* A request as a record, which EXCEPT needs.                            *)
IsRequest(q) == q = [at |-> q.at, rows |-> q.rows, granted |-> q.granted, tree |-> q.tree]

ShellKnown ==
  /\ RowsKnown
  /\ request # Null => IsRequest(request) /\ RowsRead(request.rows, lastId) /\ TreeRead(request.tree, lastId)
  /\ TreeRead(Nodes, lastId)
  /\ \A i \in touched : i \in Nat /\ i <= lastId
  /\ \A i \in closed : i \in Nat /\ i <= lastId /\ (i \in touched \/ i \notin Present)
  /\ toggle # Null => toggle = [at |-> toggle.at, on |-> toggle.on] /\ toggle.on \in BOOLEAN
  /\ switched \in BOOLEAN

menuPart == <<menus, lastId, roleMenus, installed, disabled>>

LEMMA TreeOfRows ==
  ASSUME NEW table, RowsKnown, RowsRead(table, lastId)
  PROVE  TreeRead(buildMenuTree(table), lastId)
<1>1. ASSUME NEW m \in buildMenuTree(table)
      PROVE  /\ m.id \in DOMAIN table
             /\ m.parent = table[m.id].parent
             /\ m.path = table[m.id].path
             /\ m.owned = IsOwned(table[m.id])
             /\ m = [id |-> m.id, parent |-> m.parent, path |-> m.path, owned |-> m.owned]
  BY <1>1 DEF buildMenuTree
<1>2. \A i \in DOMAIN table : i \in Nat /\ i <= lastId
  BY MenusAssumption DEF RowsRead
<1>3. ASSUME NEW m \in buildMenuTree(table), NEW x \in buildMenuTree(table), x.id = m.id PROVE x = m
  <2>1. x.parent = m.parent /\ x.path = m.path /\ x.owned = m.owned
    BY <1>1, <1>3
  <2> QED BY <1>1, <1>3, <2>1
<1> QED BY <1>1, <1>2, <1>3 DEF TreeRead

LEMMA LoadedRead ==
  ASSUME RowsKnown
  PROVE  RowsRead(Loaded, lastId)
BY DEF RowsRead, Loaded, RowsKnown, Present

(* What is known stays known when rows come with new ids.                *)
LEMMA KnownLater ==
  ASSUME ShellKnown, RowsKnown', lastId <= lastId', \A i \in Present' : i \in Present \/ lastId < i
  PROVE  /\ \A table : RowsRead(table, lastId) => RowsRead(table, lastId')
         /\ \A tree : TreeRead(tree, lastId) => TreeRead(tree, lastId')
<1>1. \A i \in Nat : i <= lastId => i <= lastId'
  BY DEF ShellKnown, RowsKnown
<1>2. Id \subseteq Nat
  BY MenusAssumption
<1>3. ASSUME NEW table, RowsRead(table, lastId) PROVE RowsRead(table, lastId')
  BY <1>1, <1>2, <1>3 DEF RowsRead
<1>4. ASSUME NEW tree, TreeRead(tree, lastId) PROVE TreeRead(tree, lastId')
  BY <1>1, <1>4 DEF TreeRead
<1> QED BY <1>3, <1>4

LEMMA NewRequestRead ==
  IsRequest(NewRequest) /\ RowsRead(NewRequest.rows, lastId) /\ TreeRead(NewRequest.tree, lastId)
BY DEF IsRequest, NewRequest, RowsRead, TreeRead

LEMMA UserTreeRead ==
  ASSUME NEW table, RowsKnown, RowsRead(table, lastId), NEW granted, NEW tree \in UserTrees(table, granted)
  PROVE  TreeRead(tree, lastId)
<1>1. PICK g : tree = buildMenuTree([i \in DOMAIN table \cap g |-> table[i]])
  BY DEF UserTrees
<1>2. RowsRead([i \in DOMAIN table \cap g |-> table[i]], lastId)
  BY DEF RowsRead
<1> QED BY <1>1, <1>2, TreeOfRows

LEMMA KnownInit ==
  ASSUME ShellInit
  PROVE  ShellKnown
<1>1. RowsKnown
  <2>1. /\ menus = [i \in Id |-> menus[i]]
        /\ \A i \in Id : i > Len(Seed) => menus[i] = Null
        /\ lastId = Len(Seed)
        /\ installed = TRUE /\ disabled = FALSE
    BY DEF ShellInit, MenusInit
  <2>2. Len(Seed) \in Nat
    BY MenusAssumption
  <2>3. ASSUME NEW i \in Present PROVE i <= lastId
    <3>1. i \in Nat /\ ~(i > Len(Seed))
      BY <2>1, MenusAssumption DEF Present
    <3> QED BY <2>1, <2>2, <3>1
  <2>4. installed \in BOOLEAN /\ disabled \in BOOLEAN
    BY <2>1
  <2>5. menus = [i \in Id |-> menus[i]] /\ lastId \in Nat
    BY <2>1, <2>2
  <2>6. IsFiniteSet(roleMenus)
    <3>1. roleMenus \subseteq 1..Len(Seed)
      BY DEF ShellInit, MenusInit
    <3>2. IsFiniteSet(1..Len(Seed))
      BY <2>2, FS_Interval
    <3> QED BY <3>1, <3>2, FS_Subset
  <2> QED BY <2>3, <2>4, <2>5, <2>6 DEF RowsKnown
<1>2. TreeRead(Nodes, lastId)
  BY DEF ShellInit, Nodes, TreeRead
<1> QED BY <1>1, <1>2, NewRequestRead DEF ShellInit, ShellKnown

(* What a step leaves alone that changes no rows.                        *)
LEMMA KnownSame ==
  ASSUME ShellKnown, UNCHANGED <<menus, lastId>>
  PROVE  /\ Present' = Present
         /\ \A table : RowsRead(table, lastId) => RowsRead(table, lastId')
         /\ \A tree : TreeRead(tree, lastId) => TreeRead(tree, lastId')
BY DEF Present, RowsRead, TreeRead

LEMMA KnownNext ==
  ASSUME ShellKnown, [ShellNext]_shellVars
  PROVE  ShellKnown'
<1> DEFINE Req == request' # Null =>
             IsRequest(request') /\ RowsRead(request'.rows, lastId') /\ TreeRead(request'.tree, lastId')
           Tree == TreeRead(Nodes', lastId')
           Folded == /\ \A i \in touched' : i \in Nat /\ i <= lastId'
                   /\ \A i \in closed' : i \in Nat /\ i <= lastId' /\ (i \in touched' \/ i \notin Present')
           Tog == /\ toggle' # Null => toggle' = [at |-> toggle'.at, on |-> toggle'.on] /\ toggle'.on \in BOOLEAN
                  /\ switched' \in BOOLEAN
<1>0. ASSUME RowsKnown', Req, Tree, Folded, Tog PROVE ShellKnown'
  BY <1>0 DEF ShellKnown, IsRequest
<1>a. ASSUME UNCHANGED menuPart
      PROVE  /\ RowsKnown'
             /\ UNCHANGED request => Req
             /\ UNCHANGED data => Tree
             /\ UNCHANGED <<closed, touched>> => Folded
             /\ UNCHANGED <<toggle, switched>> => Tog
             /\ RowsRead(NewRequest.rows, lastId') /\ TreeRead(NewRequest.tree, lastId')
  <2>1. RowsKnown'
    BY <1>a DEF ShellKnown, RowsKnown, Present, menuPart
  <2>2. /\ Present' = Present
        /\ \A table : RowsRead(table, lastId) => RowsRead(table, lastId')
        /\ \A tree : TreeRead(tree, lastId) => TreeRead(tree, lastId')
    BY <1>a, KnownSame DEF menuPart
  <2>3. lastId' = lastId
    BY <1>a DEF menuPart
  <2>4. UNCHANGED data => Nodes' = Nodes
    BY DEF Nodes
  <2> QED BY <2>1, <2>2, <2>3, <2>4, NewRequestRead DEF ShellKnown
<1>1. CASE LoadMenus
  <2>1. UNCHANGED menuPart /\ UNCHANGED <<data, closed, touched, toggle, switched>>
    BY <1>1 DEF LoadMenus, menuPart
  <2>2. IsRequest(request) /\ RowsRead(request.rows, lastId) /\ TreeRead(request.tree, lastId)
    BY <1>1 DEF LoadMenus, ShellKnown
  <2>3. RowsRead(Loaded, lastId) /\ TreeRead(buildMenuTree(Loaded), lastId)
    BY LoadedRead, TreeOfRows DEF ShellKnown
  <2>4. IsRequest(request') /\ request'.rows = Loaded /\ request'.tree \in {buildMenuTree(Loaded), request.tree}
    BY <1>1, <2>2 DEF LoadMenus, IsRequest
  <2>5. Req
    BY <2>1, <2>2, <2>3, <2>4, KnownSame DEF menuPart
  <2> QED BY <1>0, <1>a, <2>1, <2>5
<1>2. CASE GetUserMenus
  <2>1. UNCHANGED menuPart /\ UNCHANGED <<data, closed, touched, toggle, switched>>
    BY <1>2 DEF GetUserMenus, menuPart
  <2>2. IsRequest(request) /\ RowsRead(request.rows, lastId) /\ TreeRead(request.tree, lastId)
    BY <1>2 DEF GetUserMenus, ShellKnown
  <2>3. PICK tree \in UserTrees(request.rows, roleMenus) :
          request' = [request EXCEPT !.at = "answered", !.granted = roleMenus, !.tree = tree]
    BY <1>2 DEF GetUserMenus
  <2>4. IsRequest(request') /\ request'.rows = request.rows /\ request'.tree = tree
    BY <2>2, <2>3 DEF IsRequest
  <2>5. TreeRead(tree, lastId)
    BY <2>2, UserTreeRead DEF ShellKnown
  <2>6. Req
    BY <2>1, <2>2, <2>4, <2>5, KnownSame DEF menuPart
  <2> QED BY <1>0, <1>a, <2>1, <2>6
<1>3. CASE ListPublicPages
  <2>1. UNCHANGED menuPart /\ UNCHANGED <<data, closed, touched, toggle, switched>>
    BY <1>3 DEF ListPublicPages, menuPart
  <2>2. IsRequest(request) /\ RowsRead(request.rows, lastId)
    BY <1>3 DEF ListPublicPages, ShellKnown
  <2> DEFINE page0 == {[id |-> 0, parent |-> 0, path |-> PublicPath, owned |-> TRUE]}
  <2>3. TreeRead(page0, lastId) /\ TreeRead({}, lastId)
    BY DEF ShellKnown, RowsKnown, TreeRead
  <2>4. IsRequest(request') /\ request'.rows = request.rows /\ request'.tree \in {page0, {}}
    BY <1>3, <2>2 DEF ListPublicPages, IsRequest
  <2>5. Req
    BY <2>1, <2>2, <2>3, <2>4, KnownSame DEF menuPart
  <2> QED BY <1>0, <1>a, <2>1, <2>5
<1>4. CASE ServeToggle
  <2>1. UNCHANGED <<menus, lastId, roleMenus, installed, data, request, closed, touched>> /\ disabled' = ~toggle.on
    BY <1>4 DEF ServeToggle, SetPluginEnabled
  <2>2. /\ Present' = Present
        /\ \A table : RowsRead(table, lastId) => RowsRead(table, lastId')
        /\ \A tree : TreeRead(tree, lastId) => TreeRead(tree, lastId')
    BY <2>1, KnownSame
  <2>3. RowsKnown'
    BY <2>1, <2>2 DEF ShellKnown, RowsKnown
  <2>4. Req /\ Tree /\ Folded
    BY <2>1, <2>2 DEF ShellKnown, Nodes
  <2>5. Tog
    <3>1. toggle # Null /\ toggle' \in {[toggle EXCEPT !.at = "done"], Null} /\ switched' = (switched /\ ~toggle.on)
      BY <1>4 DEF ServeToggle
    <3>2. toggle = [at |-> toggle.at, on |-> toggle.on] /\ toggle.on \in BOOLEAN
      BY <3>1 DEF ShellKnown
    <3>3. toggle' # Null => toggle' = [at |-> "done", on |-> toggle.on]
      BY <3>1, <3>2
    <3> QED BY <3>1, <3>2, <3>3
  <2> QED BY <1>0, <2>3, <2>4, <2>5
<1>5. CASE LoseToggle
  <2>1. UNCHANGED menuPart /\ UNCHANGED <<data, closed, touched, request, switched>> /\ toggle' = Null
    BY <1>5 DEF LoseToggle, menuPart
  <2>2. Tog
    BY <2>1 DEF ShellKnown
  <2> QED BY <1>0, <1>a, <2>1, <2>2
<1>6. CASE OthersChange
  <2>1. PICK grants \in SUBSET (SUBSET Id) : MenusNext(grants)
    BY <1>6 DEF OthersChange, Present
  <2>2. RowsKnown' /\ lastId <= lastId' /\ \A i \in Present' : i \in Present \/ lastId < i
    BY <2>1, MenuRowsNext DEF ShellKnown
  <2>3. /\ \A table : RowsRead(table, lastId) => RowsRead(table, lastId')
        /\ \A tree : TreeRead(tree, lastId) => TreeRead(tree, lastId')
    BY <2>2, KnownLater
  <2>4. /\ UNCHANGED <<data, request, closed, toggle>>
        /\ touched' = touched \ {i \in Present : menus'[i] = Null}
        /\ switched' = (switched /\ disabled' /\ installed')
    BY <1>6 DEF OthersChange
  <2>5. Req /\ Tree /\ Tog
    BY <2>3, <2>4 DEF ShellKnown, Nodes
  <2>6. \A i \in Nat : i <= lastId => i <= lastId' /\ ~(lastId < i)
    BY <2>2 DEF ShellKnown, RowsKnown
  <2>7. \A i \in Present' : menus'[i] # Null
    BY DEF Present
  <2>8. Folded
    BY <2>2, <2>4, <2>6, <2>7 DEF ShellKnown
  <2> QED BY <1>0, <2>2, <2>5, <2>8
<1>7. CASE Fetched
  <2>1. UNCHANGED menuPart /\ UNCHANGED <<closed, touched, toggle, switched>> /\ request' = Null
    BY <1>7 DEF Fetched, menuPart
  <2>2. TreeRead(request.tree, lastId) /\ TreeRead({}, lastId)
    BY <1>7 DEF Fetched, ShellKnown, TreeRead
  <2>3. Nodes' \in {Nodes, request.tree, {}}
    BY <1>7 DEF Fetched, Nodes
  <2>4. Tree
    BY <2>1, <2>2, <2>3, KnownSame DEF ShellKnown, menuPart
  <2> QED BY <1>0, <1>a, <2>1, <2>4
<1>8. CASE Refetch
  <2>1. UNCHANGED menuPart /\ UNCHANGED <<data, closed, touched, toggle, switched>> /\ request' = NewRequest
    BY <1>8 DEF Refetch, menuPart
  <2> QED BY <1>0, <1>a, <2>1, NewRequestRead
<1>9. CASE ToggleDone
  <2>1. UNCHANGED menuPart /\ UNCHANGED <<data, closed, touched>> /\ toggle' = Null
        /\ request' \in {request, NewRequest}
    BY <1>9 DEF ToggleDone, InvalidateMenus, menuPart
  <2>2. switched' \in BOOLEAN
    BY <1>9 DEF ToggleDone
  <2>3. Req
    BY <1>a, <2>1, NewRequestRead
  <2> QED BY <1>0, <1>a, <2>1, <2>2, <2>3
<1>10. ASSUME NEW path, Follow(path) PROVE ShellKnown'
  <2>1. UNCHANGED menuPart /\ UNCHANGED <<data, closed, touched, toggle, switched, request>>
    BY <1>10 DEF Follow, menuPart
  <2> QED BY <1>0, <1>a, <2>1
<1>11. ASSUME NEW path, Load(path) PROVE ShellKnown'
  <2>1. UNCHANGED menuPart /\ UNCHANGED <<closed, touched, switched>>
        /\ data' = Null /\ toggle' = Null /\ request' = NewRequest
    BY <1>11 DEF Load, menuPart
  <2>2. Tree
    BY <2>1 DEF Nodes, TreeRead
  <2>3. switched' \in BOOLEAN
    BY <2>1 DEF ShellKnown
  <2> QED BY <1>0, <1>a, <2>1, <2>2, <2>3, NewRequestRead
<1>12. ASSUME NEW m \in Groups, toggleGroup(m) PROVE ShellKnown'
  <2>1. UNCHANGED menuPart /\ UNCHANGED <<data, request, toggle, switched>>
        /\ touched' = touched \cup {m.id} /\ closed' \subseteq closed \cup {m.id}
    BY <1>12 DEF toggleGroup, menuPart
  <2>2. m.id \in Nat /\ m.id <= lastId
    BY DEF Groups, ShellKnown, TreeRead
  <2>3. lastId' = lastId /\ Present' = Present
    BY <2>1 DEF menuPart, Present
  <2>4. Folded
    BY <2>1, <2>2, <2>3 DEF ShellKnown
  <2> QED BY <1>0, <1>a, <2>1, <2>4
<1>13. ASSUME NEW on \in BOOLEAN, PressSwitch(on) PROVE ShellKnown'
  <2>1. UNCHANGED menuPart /\ UNCHANGED <<data, closed, touched, switched, request>>
        /\ toggle' = [at |-> "wire", on |-> on]
    BY <1>13 DEF PressSwitch, menuPart
  <2>2. Tog
    BY <2>1 DEF ShellKnown
  <2> QED BY <1>0, <1>a, <2>1, <2>2
<1>14. CASE UNCHANGED shellVars
  <2>1. UNCHANGED menuPart /\ UNCHANGED <<data, closed, touched, toggle, switched, request>>
    BY <1>14 DEF shellVars, menuPart
  <2> QED BY <1>0, <1>a, <2>1
<1> HIDE DEF Req, Tree, Folded, Tog
<1> QED BY <1>1, <1>2, <1>3, <1>4, <1>5, <1>6, <1>7, <1>8, <1>9, <1>10, <1>11, <1>12, <1>13, <1>14 DEF ShellNext

-----------------------------------------------------------------------------
(* A plugin that is switched off.                                        *)
NoRowOwned(table) == \A i \in DOMAIN table : ~IsOwned(table[i])

NoEntryOwned(tree) == \A m \in tree : ~m.owned

Hidden ==
  switched =>
    /\ disabled
    /\ installed
    /\ request # Null => NoRowOwned(request.rows) /\ NoEntryOwned(request.tree)
    /\ data # Null /\ ~stale => NoEntryOwned(data)

LEMMA HiddenTree ==
  ASSUME NEW table, NoRowOwned(table)
  PROVE  NoEntryOwned(buildMenuTree(table))
BY DEF NoRowOwned, NoEntryOwned, buildMenuTree

LEMMA HiddenNext ==
  ASSUME ShellKnown, Hidden, [ShellNext]_shellVars
  PROVE  Hidden'
<1> DEFINE Still == /\ switched' => switched
                   /\ UNCHANGED <<disabled, installed>>
           Asked == switched /\ request' # Null => NoRowOwned(request'.rows) /\ NoEntryOwned(request'.tree)
           Cached == switched /\ data' # Null /\ ~stale' => NoEntryOwned(data')
<1>0. NoRowOwned(NewRequest.rows) /\ NoEntryOwned(NewRequest.tree)
  BY DEF NoRowOwned, NoEntryOwned, NewRequest
<1>a. ASSUME Still, Asked, Cached PROVE Hidden'
  BY <1>a DEF Hidden
<1>b. /\ UNCHANGED request => Asked
      /\ UNCHANGED <<data, stale>> => Cached
  BY DEF Hidden
<1>1. CASE LoadMenus
  <2>1. Still /\ Cached /\ request # Null /\ IsRequest(request)
    BY <1>1, <1>b DEF LoadMenus, ShellKnown
  <2>2. IsRequest(request') /\ request'.rows = Loaded /\ request'.tree \in {buildMenuTree(Loaded), request.tree}
    BY <1>1, <2>1 DEF LoadMenus, IsRequest
  <2>3. switched => NoRowOwned(Loaded)
    BY DEF Hidden, NoRowOwned, Loaded, keepMenu
  <2>4. Asked
    BY <2>1, <2>2, <2>3, HiddenTree DEF Hidden
  <2> QED BY <1>a, <2>1, <2>4
<1>2. CASE GetUserMenus
  <2>1. Still /\ Cached /\ request # Null /\ IsRequest(request)
    BY <1>2, <1>b DEF GetUserMenus, ShellKnown
  <2>2. PICK tree \in UserTrees(request.rows, roleMenus) :
          request' = [request EXCEPT !.at = "answered", !.granted = roleMenus, !.tree = tree]
    BY <1>2 DEF GetUserMenus
  <2>3. PICK g : tree = buildMenuTree([i \in DOMAIN request.rows \cap g |-> request.rows[i]])
    BY DEF UserTrees
  <2>4. request'.rows = request.rows /\ request'.tree = tree
    BY <2>1, <2>2 DEF IsRequest
  <2>5. switched => NoRowOwned(request.rows) /\ NoRowOwned([i \in DOMAIN request.rows \cap g |-> request.rows[i]])
    BY <2>1 DEF Hidden, NoRowOwned
  <2>6. Asked
    BY <2>3, <2>4, <2>5, HiddenTree
  <2> QED BY <1>a, <2>1, <2>6
<1>3. CASE ListPublicPages
  <2>1. Still /\ Cached /\ request # Null /\ IsRequest(request)
    BY <1>3, <1>b DEF ListPublicPages, ShellKnown
  <2>2. request'.rows = request.rows /\ (switched => request'.tree = {})
    BY <1>3, <2>1 DEF ListPublicPages, IsRequest, Hidden
  <2>3. Asked
    BY <2>1, <2>2 DEF Hidden, NoEntryOwned
  <2> QED BY <1>a, <2>1, <2>3
<1>4. CASE ServeToggle
  <2>1. /\ UNCHANGED <<installed, data, stale, request>>
        /\ disabled' = ~toggle.on
        /\ switched' = (switched /\ ~toggle.on)
    BY <1>4 DEF ServeToggle, SetPluginEnabled
  <2>2. Asked /\ Cached
    BY <1>b, <2>1
  <2>3. switched' => switched /\ disabled' /\ installed'
    BY <2>1 DEF Hidden
  <2> QED BY <2>2, <2>3 DEF Hidden
<1>5. CASE OthersChange
  <2>1. switched' = (switched /\ disabled' /\ installed') /\ UNCHANGED <<data, stale, request>>
    BY <1>5 DEF OthersChange
  <2>2. Asked /\ Cached
    BY <1>b, <2>1
  <2>3. switched' => switched /\ disabled' /\ installed'
    BY <2>1
  <2> QED BY <2>2, <2>3 DEF Hidden
<1>6. CASE Fetched
  <2>1. Still /\ request' = Null /\ request # Null
    BY <1>6 DEF Fetched
  <2>2. CASE data' = request.tree /\ stale' = FALSE
    BY <1>a, <2>1, <2>2 DEF Hidden
  <2>3. CASE UNCHANGED <<data, stale>>
    BY <1>a, <1>b, <2>1, <2>3
  <2> QED BY <1>6, <2>2, <2>3 DEF Fetched
<1>7. CASE ToggleDone
  <2>1. /\ UNCHANGED <<disabled, installed, data>>
        /\ stale' = (data # Null)
        /\ request' = IF Loading THEN request ELSE NewRequest
        /\ switched' = (~toggle.on /\ disabled /\ installed /\ ~Loading)
    BY <1>7 DEF ToggleDone, InvalidateMenus
  <2>2. switched' => request' = NewRequest /\ disabled' /\ installed' /\ ~(data' # Null /\ ~stale')
    BY <2>1
  <2> QED BY <1>0, <2>2 DEF Hidden
<1>8. CASE Refetch
  BY <1>0, <1>a, <1>b, <1>8 DEF Refetch
<1>9. ASSUME NEW path, Load(path) PROVE Hidden'
  BY <1>0, <1>a, <1>9 DEF Load
<1>10. CASE \/ LoseToggle
            \/ \E path : Follow(path)
            \/ \E m \in Groups : toggleGroup(m)
            \/ \E on \in BOOLEAN : PressSwitch(on)
            \/ UNCHANGED shellVars
  <2>1. UNCHANGED <<switched, disabled, installed, data, stale, request>>
    BY <1>10 DEF LoseToggle, Follow, toggleGroup, PressSwitch, shellVars
  <2> QED BY <1>a, <1>b, <2>1
<1> HIDE DEF Still, Asked, Cached
<1> QED BY <1>1, <1>2, <1>3, <1>4, <1>5, <1>6, <1>7, <1>8, <1>9, <1>10 DEF ShellNext

-----------------------------------------------------------------------------
(* The searches.                                                         *)
LEMMA AboveSelf ==
  ASSUME NEW tree, NEW m \in tree
  PROVE  m \in Above(tree, m)
BY DEF Above

LEMMA AboveParent ==
  ASSUME NEW tree, NEW m, NEW b \in Above(tree, m), NEW c \in tree, c.id = b.parent
  PROVE  c \in Above(tree, m)
<1>1. ASSUME NEW s \in SUBSET tree, m \in s, \A b2 \in s, c2 \in tree : c2.id = b2.parent => c2 \in s
      PROVE  c \in s
  <2>1. b \in s
    BY <1>1 DEF Above
  <2> QED BY <1>1, <2>1
<1> QED BY <1>1 DEF Above

(* Among entries at the top the search finds the one with the least id.  *)
LEMMA FirstOfTops ==
  ASSUME NEW tree, TreeRead(tree, lastId), NEW tops \in SUBSET tree, tops # {},
         \A m \in tops : m.parent = 0
  PROVE  First(tree, tops) \in tops
<1> DEFINE ids == {m.id : m \in tops}
<1>1. ids \in SUBSET Nat /\ ids # {}
  BY DEF TreeRead
<1>2. PICK i \in ids : \A j \in ids : i <= j
  BY <1>1, NatLeast
<1>3. PICK m \in tops : m.id = i
  BY <1>2
<1>4. ASSUME NEW x \in tops \ {m} PROVE Before(tree, m, x)
  <2>1. m.id # x.id /\ x.id \in Nat /\ m.id \in Nat
    BY <1>4 DEF TreeRead
  <2>2. m.id <= x.id
    BY <1>2, <1>3, <1>4
  <2>3. m.id < x.id
    BY <2>1, <2>2
  <2>4. m \in Above(tree, m) /\ x \in Above(tree, x)
    BY <1>4, AboveSelf
  <2> QED BY <1>4, <2>3, <2>4 DEF Before
<1> QED BY <1>3, <1>4 DEF First

LEMMA FirstOfOne ==
  ASSUME NEW tree, NEW m
  PROVE  First(tree, {m}) = m
BY DEF First

LEMMA Agree ==
  ASSUME ShellKnown, location # <<>>
  PROVE  SearchesAgree
<1> SUFFICES ASSUME NEW m \in Nodes, m.path = location,
                    \A x \in Nodes \ {m} : x.path = <<>> \/ ~startsWith(location, x.path)
             PROVE  /\ findMenuTitle(Nodes, location) = m
                    /\ findByPath(Nodes, location) = m
                    /\ activeGroupId # Null => activeGroupId \in Above(Nodes, m)
  BY DEF SearchesAgree
<1>1. startsWith(location, location)
  BY DEF startsWith
<1>2. Titles(Nodes, location) = {m}
  BY <1>1 DEF Titles
<1>3. {x \in Nodes : x.path = location} = {m}
  BY <1>1
<1>4. ASSUME activeGroupId # Null PROVE activeGroupId \in Above(Nodes, m)
  <2> DEFINE tops == {top \in Nodes :
               /\ top.parent = 0
               /\ top.path = <<>>
               /\ \E child \in Nodes : child.parent = top.id /\ hasActiveDescendant(Nodes, child, location)}
  <2>1. activeGroupId = First(Nodes, tops)
    BY DEF activeGroupId
  <2>2. tops # {}
    BY <1>4, <2>1 DEF First
  <2>3. activeGroupId \in tops
    BY <2>1, <2>2, FirstOfTops DEF ShellKnown
  <2>4. PICK child \in Nodes : child.parent = activeGroupId.id /\ hasActiveDescendant(Nodes, child, location)
    BY <2>3
  <2>5. PICK x \in Nodes : child \in Above(Nodes, x) /\ leafMatches(x.path, location)
    BY <2>4 DEF hasActiveDescendant
  <2>6. x = m
    BY <2>5 DEF leafMatches
  <2> QED BY <2>3, <2>4, <2>5, <2>6, AboveParent
<1> QED BY <1>2, <1>3, <1>4, FirstOfOne DEF findMenuTitle, findByPath

OnAPage == location # <<>>

LEMMA LocationNext ==
  ASSUME location # <<>>, [ShellNext]_shellVars
  PROVE  location' # <<>>
<1>1. ASSUME NEW collapsed, NEW path \in Links(Nodes, collapsed), Follow(path) PROVE location' # <<>>
  BY <1>1 DEF Links, Follow
<1>2. ASSUME NEW path \in Address, Load(path) PROVE location' # <<>>
  BY <1>2, SidebarAssumption DEF Load
<1>3. CASE \/ LoadMenus \/ GetUserMenus \/ ListPublicPages \/ ServeToggle \/ LoseToggle \/ OthersChange
           \/ Fetched \/ Refetch \/ ToggleDone \/ (\E m \in Groups : toggleGroup(m))
           \/ (\E on \in BOOLEAN : PressSwitch(on)) \/ UNCHANGED shellVars
  BY <1>3 DEF LoadMenus, GetUserMenus, ListPublicPages, ServeToggle, LoseToggle, OthersChange,
              Fetched, Refetch, ToggleDone, toggleGroup, PressSwitch, shellVars
<1> QED BY <1>1, <1>2, <1>3 DEF ShellNext

-----------------------------------------------------------------------------
(* The way up, and the tree, as smallest sets.                           *)
LEMMA WayUpSelf ==
  ASSUME NEW byID, NEW i \in DOMAIN byID
  PROVE  i \in WayUp(byID, i)
BY DEF WayUp, Places

LEMMA WayUpStep ==
  ASSUME NEW byID, NEW i, NEW j \in WayUp(byID, i), j \in DOMAIN byID
  PROVE  byID[j].parent \in WayUp(byID, i)
<1>1. ASSUME NEW s \in SUBSET Places(byID), i \in s, \A k \in s \cap DOMAIN byID : byID[k].parent \in s
      PROVE  byID[j].parent \in s
  <2>1. j \in s
    BY <1>1 DEF WayUp
  <2> QED BY <1>1, <2>1
<1>2. byID[j].parent \in Places(byID)
  BY DEF Places
<1> QED BY <1>1, <1>2 DEF WayUp

LEMMA WayUpIn ==
  ASSUME NEW byID, NEW i, NEW s \in SUBSET Places(byID), i \in s,
         \A j \in s \cap DOMAIN byID : byID[j].parent \in s
  PROVE  WayUp(byID, i) \subseteq s
BY DEF WayUp

InTree(byID) ==
  {i \in DOMAIN byID : \A s \in SUBSET DOMAIN byID :
     (\A j \in DOMAIN byID : byID[j].parent \in s \cup {0} => j \in s) => i \in s}

LEMMA TreeIds ==
  ASSUME NEW byID
  PROVE  {m.id : m \in buildMenuTree(byID)} = InTree(byID)
<1> DEFINE node(i) == [id |-> i, parent |-> byID[i].parent, path |-> byID[i].path, owned |-> IsOwned(byID[i])]
<1>1. buildMenuTree(byID) = {node(i) : i \in InTree(byID)}
  BY DEF buildMenuTree, InTree
<1>2. \A i : node(i).id = i
  OBVIOUS
<1> HIDE DEF node
<1> QED BY <1>1, <1>2

LEMMA InTreeChild ==
  ASSUME NEW byID, NEW j \in DOMAIN byID, byID[j].parent \in InTree(byID) \cup {0}
  PROVE  j \in InTree(byID)
<1>1. ASSUME NEW s \in SUBSET DOMAIN byID, \A k \in DOMAIN byID : byID[k].parent \in s \cup {0} => k \in s
      PROVE  j \in s
  <2>1. byID[j].parent \in s \cup {0}
    BY <1>1 DEF InTree
  <2> QED BY <1>1, <2>1
<1> QED BY <1>1 DEF InTree

LEMMA InTreeLeast ==
  ASSUME NEW byID, NEW s \in SUBSET DOMAIN byID,
         \A j \in DOMAIN byID : byID[j].parent \in s \cup {0} => j \in s
  PROVE  InTree(byID) \subseteq s
BY DEF InTree

(* The tree of the rows in g has those from which the way leads to the   *)
(* top, if g has the parents of its rows.                                *)
LEMMA TreeOf ==
  ASSUME NEW byID, 0 \notin DOMAIN byID, NEW g,
         \A j \in g \cap DOMAIN byID :
           byID[j].parent \in DOMAIN byID => byID[j].parent \in g
  PROVE  InTree([i \in DOMAIN byID \cap g |-> byID[i]]) = {i \in DOMAIN byID \cap g : 0 \in WayUp(byID, i)}
<1> DEFINE r == [i \in DOMAIN byID \cap g |-> byID[i]]
           c == {i \in DOMAIN byID \cap g : 0 \in WayUp(byID, i)}
<1>0. DOMAIN r = DOMAIN byID \cap g /\ \A i \in DOMAIN r : r[i] = byID[i]
  OBVIOUS
<1> HIDE DEF r
<1>1. ASSUME NEW j \in DOMAIN r, r[j].parent \in c \cup {0} PROVE j \in c
  <2>1. j \in DOMAIN byID \cap g /\ byID[j].parent = r[j].parent
    BY <1>0, <1>1
  <2>2. byID[j].parent \in WayUp(byID, j)
    BY <2>1, WayUpSelf, WayUpStep
  <2>3. CASE r[j].parent = 0
    BY <2>1, <2>2, <2>3
  <2>4. CASE r[j].parent \in c
    <3> DEFINE p == byID[j].parent
    <3>1. 0 \in WayUp(byID, p) /\ p \in WayUp(byID, j)
      BY <2>1, <2>2, <2>4
    <3>2. WayUp(byID, j) \in SUBSET Places(byID)
      BY DEF WayUp
    <3>3. \A k \in WayUp(byID, j) \cap DOMAIN byID : byID[k].parent \in WayUp(byID, j)
      BY WayUpStep
    <3>4. WayUp(byID, p) \subseteq WayUp(byID, j)
      BY <3>1, <3>2, <3>3, WayUpIn
    <3> QED BY <2>1, <3>1, <3>4
  <2> QED BY <1>1, <2>3, <2>4
<1>2. InTree(r) \subseteq c
  <2>1. c \in SUBSET DOMAIN r
    BY <1>0
  <2> HIDE DEF c
  <2> QED BY <1>1, <2>1, InTreeLeast
<1>3. ASSUME NEW i \in c, i \notin InTree(r) PROVE FALSE
  <2> DEFINE s == {p \in Places(byID) : p # 0 /\ (p \in DOMAIN byID => p \in g /\ p \notin InTree(r))}
  <2>1. i \in s
    BY <1>3 DEF Places
  <2>2. ASSUME NEW j \in s \cap DOMAIN byID PROVE byID[j].parent \in s
    <3>1. j \in DOMAIN r /\ r[j] = byID[j] /\ j \notin InTree(r)
      BY <1>0, <2>2
    <3>2. byID[j].parent \notin InTree(r) \cup {0}
      BY <3>1, InTreeChild
    <3>3. byID[j].parent \in Places(byID)
      BY <2>2 DEF Places
    <3>4. byID[j].parent \in DOMAIN byID => byID[j].parent \in g
      BY <2>2
    <3> QED BY <3>2, <3>3, <3>4
  <2>3. s \in SUBSET Places(byID)
    OBVIOUS
  <2>4. 0 \notin s
    OBVIOUS
  <2> HIDE DEF s
  <2>5. WayUp(byID, i) \subseteq s
    BY <2>1, <2>2, <2>3, WayUpIn
  <2> QED BY <1>3, <2>4, <2>5
<1> QED BY <1>2, <1>3 DEF r

-----------------------------------------------------------------------------
(* The loop of GetUserMenus.                                             *)
LEMMA ParentPlace ==
  ASSUME NEW byID, NEW i
  PROVE  ParentOf(byID, i) \in Places(byID)
BY DEF ParentOf, Places

(* One turn: what is added has its parent, and i has now.                *)
LEMMA ClimbClosed ==
  ASSUME NEW byID, NEW g, NEW i, NEW j, j = i \/ j \in Climb(byID, g, i) \ g
  PROVE  ParentOf(byID, j) \in Climb(byID, g, i) \cup {0}
<1> DEFINE Up(s) == \A k \in s \cup {i} : ParentOf(byID, k) \in s \cup g \cup {0}
           l == {p \in Places(byID) : \A s \in SUBSET Places(byID) : Up(s) => p \in s}
<1>1. Climb(byID, g, i) = g \cup l
  BY DEF Climb
<1>2. ASSUME ParentOf(byID, j) \notin g \cup {0}, NEW s \in SUBSET Places(byID), Up(s)
      PROVE  ParentOf(byID, j) \in s
  <2>1. j \in s \cup {i}
    BY <1>1, <1>2
  <2>2. ParentOf(byID, j) \in s \cup g \cup {0}
    BY <1>2, <2>1
  <2> QED BY <1>2, <2>2
<1> HIDE DEF Up
<1>3. ParentOf(byID, j) \notin g \cup {0} => ParentOf(byID, j) \in l
  BY <1>2, ParentPlace
<1> QED BY <1>1, <1>3

LEMMA ClimbIn ==
  ASSUME NEW byID, NEW g, NEW i, NEW u \in SUBSET Places(byID),
         \A j \in u \cup {i} : ParentOf(byID, j) \in u \cup {0}
  PROVE  Climb(byID, g, i) \subseteq g \cup u
BY DEF Climb

LEMMA ClimbKeeps ==
  ASSUME NEW byID, NEW g, NEW i
  PROVE  g \subseteq Climb(byID, g, i)
BY DEF Climb

(* The end: grants and what is above them, with all parents.             *)
LEMMA GroupsClosed ==
  ASSUME NEW byID, 0 \notin DOMAIN byID, NEW granted, IsFiniteSet(granted), NEW keys \in Orders(granted)
  PROVE  LET g == WithGroups(byID, granted, keys)
             u == UNION {WayUp(byID, h) : h \in granted \cap DOMAIN byID} IN
         /\ granted \subseteq g
         /\ g \subseteq granted \cup u
         /\ \A j \in g : ParentOf(byID, j) \in g \cup {0}
<1> DEFINE N == Cardinality(granted)
           V(f, n) == IF n = 0 THEN granted ELSE Climb(byID, f[n - 1], keys[n])
           f == CHOOSE f : f = [n \in 0..Len(keys) |-> V(f, n)]
           u == UNION {WayUp(byID, h) : h \in granted \cap DOMAIN byID}
<1>1. N \in Nat
  BY FS_CardinalityType
<1>2. keys \in [1..N -> granted] /\ \A i \in granted : \E n \in 1..N : keys[n] = i
  BY DEF Orders
<1>3. Len(keys) = N
  BY <1>1, <1>2
<1>4. f = [n \in 0..N |-> V(f, n)]
  <2> HIDE DEF N, f, u, V
  <2>1. \E g : Walk(g, byID, granted, keys, N)
    BY <1>1, GrantLoop
  <2> QED BY <1>3, <2>1 DEF f, V, Walk
<1>5. WithGroups(byID, granted, keys) = f[N]
  BY <1>3 DEF WithGroups
<1> HIDE DEF f, N
<1>6. u \in SUBSET Places(byID) /\ \A j \in u : ParentOf(byID, j) \in u \cup {0}
  <2>1. u \in SUBSET Places(byID)
    BY DEF WayUp
  <2>2. ASSUME NEW j \in u PROVE ParentOf(byID, j) \in u \cup {0}
    <3>1. PICK h \in granted \cap DOMAIN byID : j \in WayUp(byID, h)
      OBVIOUS
    <3>2. j \in DOMAIN byID => byID[j].parent \in WayUp(byID, h)
      BY <3>1, WayUpStep
    <3> QED BY <3>1, <3>2 DEF ParentOf
  <2> QED BY <2>1, <2>2
<1>7. \A i \in granted : ParentOf(byID, i) \in u \cup {0}
  <2>1. ASSUME NEW i \in granted, i \in DOMAIN byID PROVE byID[i].parent \in u
    BY <2>1, WayUpSelf, WayUpStep
  <2> QED BY <2>1 DEF ParentOf
<1> HIDE DEF u
<1> DEFINE Fine(n) == /\ granted \subseteq f[n]
                      /\ f[n] \subseteq granted \cup u
                      /\ \A j \in f[n] : ParentOf(byID, j) \in f[n] \cup {0} \/ \E k \in (n + 1)..N : keys[k] = j
           Bad == {n \in 0..N : ~Fine(n)}
<1>8. Fine(0)
  <2>1. f[0] = granted
    BY <1>1, <1>4
  <2>2. (0 + 1)..N = 1..N
    OBVIOUS
  <2> QED BY <1>2, <2>1, <2>2
<1>9. ASSUME NEW n \in 1..N, Fine(n - 1) PROVE Fine(n)
  <2>1. n \in 0..N /\ n # 0 /\ n \in Nat /\ keys[n] \in granted
    BY <1>1, <1>2
  <2> DEFINE i == keys[n]
             g == f[n - 1]
  <2>2. f[n] = Climb(byID, g, i)
    BY <1>4, <2>1
  <2>3. i \in granted
    BY <2>1
  <2>4. granted \subseteq g /\ g \subseteq granted \cup u
    BY <1>9
  <2>5. ASSUME NEW j \in g PROVE ParentOf(byID, j) \in g \cup {0} \/ j = i \/ \E k \in (n + 1)..N : keys[k] = j
    <3>1. ParentOf(byID, j) \in g \cup {0} \/ \E k \in ((n - 1) + 1)..N : keys[k] = j
      BY <1>9
    <3>2. \A k \in ((n - 1) + 1)..N : k = n \/ k \in (n + 1)..N
      BY <1>1, <2>1
    <3> QED BY <3>1, <3>2
  <2> HIDE DEF i, g
  <2>6. g \subseteq f[n]
    BY <2>2, ClimbKeeps
  <2>7. f[n] \subseteq g \cup u
    <3>1. \A j \in u \cup {i} : ParentOf(byID, j) \in u \cup {0}
      BY <1>6, <1>7, <2>3
    <3> QED BY <1>6, <2>2, <3>1, ClimbIn
  <2>8. ASSUME NEW j \in f[n]
        PROVE  ParentOf(byID, j) \in f[n] \cup {0} \/ \E k \in (n + 1)..N : keys[k] = j
    <3>1. CASE j \in g /\ j # i
      BY <2>5, <2>6, <3>1
    <3>2. CASE j \notin g \/ j = i
      BY <2>2, <3>2, ClimbClosed
    <3> QED BY <3>1, <3>2
  <2> QED BY <2>4, <2>6, <2>7, <2>8
<1> HIDE DEF Fine
<1>10. ASSUME Bad # {} PROVE FALSE
  <2>0. Bad \in SUBSET Nat
    BY <1>1
  <2>1. PICK k \in Bad : \A j \in Bad : k <= j
    BY <1>10, <2>0, NatLeast
  <2>2. k \in 0..N /\ k \in Nat /\ ~Fine(k)
    BY <1>1
  <2>3. k # 0
    BY <1>8, <2>2
  <2>4. k \in 1..N /\ k - 1 \in 0..N /\ ~(k <= k - 1)
    BY <1>1, <2>2, <2>3
  <2>5. Fine(k - 1)
    BY <2>1, <2>4
  <2> QED BY <1>9, <2>2, <2>4, <2>5
<1>11. Fine(N)
  BY <1>1, <1>10
<1>12. ~ \E k \in (N + 1)..N : TRUE
  BY <1>1
<1>13. /\ granted \subseteq f[N]
       /\ f[N] \subseteq granted \cup u
       /\ \A j \in f[N] : ParentOf(byID, j) \in f[N] \cup {0}
  BY <1>11, <1>12 DEF Fine
<1> QED BY <1>5, <1>13 DEF u

LEMMA GrantedTree ==
  ASSUME NEW byID, 0 \notin DOMAIN byID, NEW granted, IsFiniteSet(granted), NEW tree \in UserTrees(byID, granted)
  PROVE  {m.id : m \in tree} = Reachable(byID, granted)
<1>1. PICK keys \in Orders(granted) :
        tree = buildMenuTree([i \in DOMAIN byID \cap WithGroups(byID, granted, keys) |-> byID[i]])
  BY DEF UserTrees
<1> DEFINE g == WithGroups(byID, granted, keys)
           u == UNION {WayUp(byID, h) : h \in granted \cap DOMAIN byID}
<1>2. /\ granted \subseteq g
      /\ g \subseteq granted \cup u
      /\ \A j \in g : ParentOf(byID, j) \in g \cup {0}
  BY GroupsClosed
<1>3. tree = buildMenuTree([i \in DOMAIN byID \cap g |-> byID[i]])
  BY <1>1
<1> HIDE DEF g
<1>4. {m.id : m \in tree} = {i \in DOMAIN byID \cap g : 0 \in WayUp(byID, i)}
  <2>1. \A j \in g \cap DOMAIN byID : byID[j].parent \in DOMAIN byID => byID[j].parent \in g
    BY <1>2 DEF ParentOf
  <2> QED BY <1>3, <2>1, TreeIds, TreeOf
<1>5. ASSUME NEW i \in DOMAIN byID, i \in g
      PROVE  \E h \in granted \cap DOMAIN byID : i \in WayUp(byID, h)
  BY <1>2, <1>5, WayUpSelf
<1>6. ASSUME NEW i \in DOMAIN byID, NEW h \in granted \cap DOMAIN byID, i \in WayUp(byID, h)
      PROVE  i \in g
  <2> DEFINE s == {p \in Places(byID) : p \in g \cup {0}}
  <2>1. h \in s /\ s \in SUBSET Places(byID)
    BY <1>2 DEF Places
  <2>2. ASSUME NEW j \in s \cap DOMAIN byID PROVE byID[j].parent \in s
    BY <1>2, <2>2 DEF ParentOf, Places
  <2>3. i \in s
    BY <1>6, <2>1, <2>2, WayUpIn
  <2> QED BY <2>3
<1> QED BY <1>4, <1>5, <1>6 DEF Reachable

(* An administrator's tree.                                              *)
LEMMA WholeTree ==
  ASSUME NEW byID, 0 \notin DOMAIN byID, byID = [i \in DOMAIN byID |-> byID[i]]
  PROVE  {m.id : m \in buildMenuTree(byID)} = Reachable(byID, DOMAIN byID)
<1>1. [i \in DOMAIN byID \cap DOMAIN byID |-> byID[i]] = byID
  OBVIOUS
<1>2. InTree([i \in DOMAIN byID \cap DOMAIN byID |-> byID[i]])
        = {i \in DOMAIN byID \cap DOMAIN byID : 0 \in WayUp(byID, i)}
  BY TreeOf
<1>3. {m.id : m \in buildMenuTree(byID)} = {i \in DOMAIN byID : 0 \in WayUp(byID, i)}
  <2>1. InTree(byID) = {i \in DOMAIN byID \cap DOMAIN byID : 0 \in WayUp(byID, i)}
    BY <1>1, <1>2
  <2>2. {m.id : m \in buildMenuTree(byID)} = InTree(byID)
    BY TreeIds
  <2>3. DOMAIN byID \cap DOMAIN byID = DOMAIN byID
    OBVIOUS
  <2> QED BY <2>1, <2>2, <2>3
<1> QED BY <1>3, WayUpSelf DEF Reachable

LEMMA GrantedNext ==
  ASSUME ShellKnown, MenusAsGranted, [ShellNext]_shellVars
  PROVE  MenusAsGranted'
<1>0. \A table : RowsRead(table, lastId) => 0 \notin DOMAIN table
  BY MenusAssumption DEF RowsRead
<1>1. CASE LoadMenus
  <2>1. IsRequest(request) /\ request # Null
    BY <1>1 DEF LoadMenus, ShellKnown
  <2>2. 0 \notin DOMAIN Loaded /\ Loaded = [i \in DOMAIN Loaded |-> Loaded[i]]
    BY <1>0, LoadedRead DEF ShellKnown, Loaded
  <2>3. {m.id : m \in buildMenuTree(Loaded)} = Reachable(Loaded, DOMAIN Loaded)
    BY <2>2, WholeTree
  <2>4. CASE admin
    <3>1. /\ request'.rows = Loaded
          /\ request'.granted = DOMAIN Loaded
          /\ request'.tree = buildMenuTree(Loaded)
      BY <1>1, <2>4 DEF LoadMenus
    <3> QED BY <2>3, <3>1 DEF MenusAsGranted
  <2>5. CASE ~admin
    <3>1. request' = [request EXCEPT !.at = "loaded", !.rows = Loaded]
      BY <1>1, <2>5 DEF LoadMenus
    <3>2. request'.at = "loaded"
      BY <2>1, <3>1 DEF IsRequest
    <3> QED BY <3>2 DEF MenusAsGranted
  <2> QED BY <2>4, <2>5
<1>2. CASE GetUserMenus
  <2>1. IsRequest(request) /\ 0 \notin DOMAIN request.rows
    BY <1>0, <1>2 DEF GetUserMenus, ShellKnown
  <2>2. PICK tree \in UserTrees(request.rows, roleMenus) :
          request' = [request EXCEPT !.at = "answered", !.granted = roleMenus, !.tree = tree]
    BY <1>2 DEF GetUserMenus
  <2>3. request'.rows = request.rows /\ request'.granted = roleMenus /\ request'.tree = tree
    BY <2>1, <2>2 DEF IsRequest
  <2>4. {m.id : m \in tree} = Reachable(request.rows, roleMenus)
    BY <2>1, GrantedTree DEF ShellKnown, RowsKnown
  <2> QED BY <2>3, <2>4 DEF MenusAsGranted
<1>3. CASE ListPublicPages
  BY <1>3 DEF ListPublicPages, MenusAsGranted
<1>4. ASSUME request' \in {Null, NewRequest} PROVE MenusAsGranted'
  BY <1>4 DEF MenusAsGranted, NewRequest
<1>5. ASSUME UNCHANGED <<request, location>> PROVE MenusAsGranted'
  BY <1>5 DEF MenusAsGranted
<1>6. CASE Fetched \/ Refetch \/ (\E path \in Address : Load(path))
  BY <1>4, <1>6 DEF Fetched, Refetch, Load
<1>7. CASE ToggleDone
  BY <1>4, <1>5, <1>7 DEF ToggleDone, InvalidateMenus
<1>8. ASSUME NEW path, Follow(path) PROVE MenusAsGranted'
  <2>1. location # PublicPath /\ UNCHANGED request
    BY <1>8 DEF Follow
  <2> QED BY <2>1 DEF MenusAsGranted
<1>9. CASE \/ ServeToggle \/ LoseToggle \/ OthersChange
           \/ (\E m \in Groups : toggleGroup(m))
           \/ (\E on \in BOOLEAN : PressSwitch(on)) \/ UNCHANGED shellVars
  BY <1>5, <1>9 DEF ServeToggle, LoseToggle, OthersChange, toggleGroup, PressSwitch, shellVars
<1> QED BY <1>1, <1>2, <1>3, <1>6, <1>7, <1>8, <1>9 DEF ShellNext

-----------------------------------------------------------------------------
(* What the tab knows of the rows stays within the ids that have been    *)
(* given, and what is folded has been folded by somebody or is deleted:  *)
(* the invariant that the next four rest on.                             *)
THEOREM ShellOfIdsGiven == ShellSpec => []ShellKnown
<1>1. ShellInit => ShellKnown
  BY KnownInit
<1>2. ShellKnown /\ [ShellNext]_shellVars => ShellKnown'
  BY KnownNext
<1> QED BY <1>1, <1>2, PTL DEF ShellSpec

(* GetUserMenus (menu_service.go) answers the menus granted and the      *)
(* groups above them, in whatever order the map of the grants is walked, *)
(* and however menus were moved or deleted between its two reads.        *)
THEOREM MenusGranted == ShellSpec => []MenusAsGranted
<1>1. ShellInit => MenusAsGranted
  BY DEF ShellInit, NewRequest, MenusAsGranted
<1>2. ShellKnown /\ MenusAsGranted /\ [ShellNext]_shellVars => MenusAsGranted'
  BY GrantedNext
<1> QED BY <1>1, <1>2, ShellOfIdsGiven, PTL DEF ShellSpec

(* After this tab has switched the plugin off (plugins.tsx), no menus    *)
(* that pass for fresh have an entry of it until somebody switches it on.*)
THEOREM SwitchedOffGone == ShellSpec => []ToggledOffGone
<1>1. ShellInit => Hidden
  BY DEF ShellInit, Hidden
<1>2. ShellKnown /\ Hidden /\ [ShellNext]_shellVars => Hidden'
  BY HiddenNext
<1>3. Hidden => ToggledOffGone
  BY DEF Hidden, ToggledOffGone, NoEntryOwned, Nodes
<1> QED BY <1>1, <1>2, <1>3, ShellOfIdsGiven, PTL DEF ShellSpec

(* Title, plugin page and highlighted group (findMenuTitle, findByPath,  *)
(* activeGroupId) are those of the same entry.                           *)
THEOREM SameEntryFound == ShellSpec => []SearchesAgree
<1>1. ShellInit => OnAPage
  BY SidebarAssumption DEF ShellInit, OnAPage
<1>2. OnAPage /\ [ShellNext]_shellVars => OnAPage'
  BY LocationNext DEF OnAPage
<1>3. ShellKnown /\ OnAPage => SearchesAgree
  BY Agree DEF OnAPage
<1> QED BY <1>1, <1>2, <1>3, ShellOfIdsGiven, PTL DEF ShellSpec

(* A group that nobody has folded is open, whatever localStorage says of *)
(* groups that were deleted (use-sidebar-groups.ts).                     *)
THEOREM UntouchedGroupsOpen == ShellSpec => []NewGroupsOpen
<1>1. ShellKnown => NewGroupsOpen
  BY DEF ShellKnown, NewGroupsOpen, isGroupOpen
<1> QED BY <1>1, ShellOfIdsGiven, PTL
=============================================================================
