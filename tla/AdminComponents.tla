-------------------------- MODULE AdminComponents --------------------------
(***************************************************************************)
(* The pages of the admin area and their dialogs.  Each component of       *)
(* src/web is a record that says what its code does: where it keeps its    *)
(* fields and from what it fills them, when its button is disabled, which  *)
(* procedure it calls and what it does with the answer, in that order.     *)
(* AdminPages runs the records.                                            *)
(***************************************************************************)
(* The components.                                                         *)
(*   does   what the procedure does to the rows (other: nothing the list   *)
(*          shows); view: it shows more of one row; search: it narrows the *)
(*          list                                                           *)
(*   per    one for the page, or one in each row                           *)
(*   modal  whether it opens over the page (else it is a button on it)     *)
(*   seed   what its fields start from: blank, and blank again after a     *)
(*          reset; the row when it is mounted; the row on each opening; the*)
(*          row, anew whenever that changes and the form is untouched      *)
(*          ("tracks", useForm's defaultValues); the row, whenever it      *)
(*          changes ("effect"); a copy of the row a view is opened for     *)
(*   guard  pending: disabled while the call is.  submitting: until the    *)
(*          whole handler is through (as is a mutation whose onSuccess     *)
(*          awaits).                                                       *)
(*   then   what follows the answer; "await" ends with the refetch; "done" *)
(*          puts a message in the form's place; "show" puts it in the view *)
(*   fails  what follows an error                                          *)
(*   lock   whether it stays open while it works                           *)
(*   fresh  whether each opening mounts it anew, with a call of its own: the*)
(*          answer to an earlier one closes whichever of them is open      *)
Confirm(then) ==
  [does |-> "delete", per |-> "row", modal |-> TRUE, seed |-> "none",
   guard |-> "pending", then |-> then, fails |-> <<>>, lock |-> FALSE, fresh |-> FALSE]

Form(does, per, seed, guard, then) ==
  [does |-> does, per |-> per, modal |-> TRUE, seed |-> seed,
   guard |-> guard, then |-> then, fails |-> <<>>, lock |-> FALSE, fresh |-> FALSE]

Button(does, per, guard, then) ==
  [does |-> does, per |-> per, modal |-> FALSE, seed |-> "none",
   guard |-> guard, then |-> then, fails |-> <<>>, lock |-> FALSE, fresh |-> FALSE]

Inline(does, per, seed, guard, then) ==
  [Form(does, per, seed, guard, then) EXCEPT !.modal = FALSE]

(* A view loads what it shows, or has it.                                  *)
View(modal, then) == [Form("view", "page", "copy", "none", then) EXCEPT !.modal = modal]

(* The dialog exists while it is open only.                                *)
Anew(dialog) == [dialog EXCEPT !.fresh = TRUE]

(* The filters of a list; the first page of what is left is shown.         *)
Filters == Inline("search", "page", "none", "none", <<>>)

(* key: what React tells rows apart by - their id, or their place in the   *)
(* list (row.id of useReactTable without getRowId).  "single": no list but *)
(* one record.  paging: by the server, by the client over the whole list,  *)
(* or none.  query: observed by the page, by the open dialog only, or none.*)
(* folds: the rows can be put away and got back.  nested: what is selected *)
(* says not only which rows are shown but also where new ones go.          *)
List(key, paging, holds) ==
  [key |-> key, paging |-> paging, holds |-> holds, query |-> "page", folds |-> FALSE,
   nested |-> FALSE]

(* A ...Bug is its definition with a mistake, to see the properties fail.  *)

(* users.tsx *)
CreateUserDialogBug == Form("insert", "page", "blank", "submitting", <<"await", "close">>)

CreateUserDialog == Form("insert", "page", "blank", "submitting", <<"await", "reset", "close">>)

DisableTotpButton == Button("update", "row", "pending", <<"await">>)

EditUserDialogBug == Form("update", "row", "effect", "submitting", <<"await", "close">>)

EditUserDialog == Form("update", "row", "tracks", "submitting", <<"await", "close">>)

DeleteUserDialog == Confirm(<<"await", "close">>)

ResetPasswordDialog == Form("other", "row", "blank", "pending", <<"reset", "close">>)

ImportUsersDialog == Form("insert", "page", "none", "submitting", <<"await">>)

UserRowActions == {"EditUserDialog", "ResetPasswordDialog", "DisableTotpButton", "DeleteUserDialog"}

UsersSearch == Filters

UsersPage ==
  List("place", "server", UserRowActions \cup {"ImportUsersDialog", "CreateUserDialog", "UsersSearch"})

(* jobs.tsx *)
CreateJobDialog == Form("insert", "page", "blank", "submitting", <<"await", "reset", "close">>)

RunJobButton == Button("other", "row", "pending", <<"await">>)

EditJobDialog == Form("update", "row", "tracks", "submitting", <<"await", "close">>)

DeleteJobDialog == Confirm(<<"await", "close">>)

JobHistoryDrawer == View(TRUE, <<"show">>)

JobRowActions == {"RunJobButton", "EditJobDialog", "DeleteJobDialog", "JobHistoryDrawer"}

JobsPage == List("place", "server", JobRowActions \cup {"CreateJobDialog"})

(* menus.tsx *)
MenuDialog(mode) ==
  IF mode = "create" THEN Form("insert", "page", "blank", "pending", <<"invalidate", "close">>)
                     ELSE Form("update", "row", "mount", "pending", <<"invalidate", "close">>)

DeleteMenuDialog == Confirm(<<"invalidate", "close">>)

MenuButtonsDialog(call) ==
  IF call = "add" THEN Form("update", "row", "none", "pending", <<"reset", "invalidate">>)
                  ELSE Form("update", "row", "none", "none", <<"invalidate">>)

MenuActionCells == {"MenuButtonsAdd", "MenuButtonsRemove", "EditMenuDialog", "DeleteMenuDialog"}

MenusSearch == Filters

MenusPageBug ==
  [List("place", "client", MenuActionCells \cup {"CreateMenuDialog", "MenusSearch"}) EXCEPT !.folds = TRUE]

MenusPage ==
  [List("id", "client", MenuActionCells \cup {"CreateMenuDialog", "MenusSearch"}) EXCEPT !.folds = TRUE]

(* roles.tsx *)
RoleDialog(mode) ==
  IF mode = "create" THEN Form("insert", "page", "blank", "pending", <<"invalidate", "close">>)
                     ELSE Form("update", "row", "mount", "pending", <<"invalidate", "close">>)

DeleteRoleDialog == Confirm(<<"invalidate", "close">>)

RolesPage == List("id", "none", {"CreateRoleDialog", "EditRoleDialog", "DeleteRoleDialog"})

(* The form of one role: its query is observed while the dialog is open,   *)
(* and nothing invalidates it.                                             *)
PermissionsForm == Anew(Form("update", "row", "effect", "pending", <<"close">>))

PermissionsDialog == [List("single", "none", {"PermissionsForm"}) EXCEPT !.query = "dialog"]

(* dicts.tsx *)
DictDialog(mode) ==
  IF mode = "create" THEN Form("insert", "page", "blank", "pending", <<"invalidate", "close">>)
                     ELSE Form("update", "row", "mount", "pending", <<"invalidate", "close">>)

DeleteDictDialog == Confirm(<<"invalidate", "close">>)

DictsPage == List("id", "none", {"CreateDictDialog", "EditDictDialog", "DeleteDictDialog"})

DictItemDialog(mode) ==
  IF mode = "create" THEN Form("insert", "page", "blank", "pending", <<"await", "close">>)
                     ELSE Form("update", "row", "mount", "pending", <<"await", "close">>)

DeleteDictItemDialog == Confirm(<<"await", "close">>)

(* setSelected: the items of another dictionary.                           *)
DictSelect == Filters

DictItemActions == {"CreateDictItemDialog", "EditDictItemDialog", "DeleteDictItemDialog"}

DictItemsTable == [List("id", "none", DictItemActions \cup {"DictSelect"}) EXCEPT !.nested = TRUE]

(* params.tsx *)
ParamDialog(mode) ==
  IF mode = "create" THEN Form("insert", "page", "blank", "pending", <<"await", "close">>)
                     ELSE Form("update", "row", "mount", "pending", <<"await", "close">>)

DeleteParamDialog == Confirm(<<"await", "close">>)

ParamsPage == List("id", "none", {"CreateParamDialog", "EditParamDialog", "DeleteParamDialog"})

(* apis.tsx *)
EditApiDialogBug == Form("update", "row", "mount", "pending", <<"await", "close">>)

EditApiDialog == Form("update", "row", "open", "pending", <<"await", "close">>)

DeleteApiDialog == Confirm(<<"await", "close">>)

SyncButton == Button("insert", "page", "pending", <<"await">>)

ApisFilters == Filters

ApiActions == {"EditApiDialog", "DeleteApiDialog"}

ApisPage ==
  [List("id", "client", ApiActions \cup {"SyncButton", "ApisFilters"}) EXCEPT !.folds = TRUE]

(* files.tsx: an upload ends the same way whether it is stored or fails.   *)
(* (Several files are sent one after the other, each like this one.)       *)
UploadDialog ==
  [Form("insert", "page", "blank", "submitting", <<"invalidate", "reset", "close">>) EXCEPT
     !.fails = <<"invalidate", "reset", "close">>, !.lock = TRUE]

DeleteFileDialog == Confirm(<<"await", "close">>)

PreviewDialog == View(TRUE, <<"show">>)

ActionButtons == {"PreviewDialog", "DeleteFileDialog"}

ListView == ActionButtons

GalleryView == {"PreviewDialog", "DeleteFileDialog"}

FilesSearch == Filters

FilesPage ==
  [List("id", "server", ListView \cup GalleryView \cup {"UploadDialog", "FilesSearch"}) EXCEPT
     !.folds = TRUE]

(* plugins.tsx: one mutation of each kind for all rows.  An install or an  *)
(* uninstall whose connection drops is taken to have been done.            *)
EnabledSwitch == Button("update", "page", "pending", <<"invalidate">>)

InstallButton == [Button("insert", "page", "pending", <<"invalidate">>) EXCEPT !.fails = <<"invalidate">>]

UninstallDialog ==
  [Confirm(<<"invalidate">>) EXCEPT !.per = "page", !.modal = FALSE, !.fails = <<"invalidate">>]

PluginRow == View(FALSE, <<>>)

PluginsPage == List("id", "none", {"EnabledSwitch", "InstallButton", "UninstallDialog", "PluginRow"})

(* sessions.tsx *)
RevokeButton == Button("delete", "page", "pending", <<"invalidate">>)

SessionsFilter == Filters

SessionsPage == List("id", "none", {"RevokeButton", "SessionsFilter"})

(* operation-logs.tsx, login-logs.tsx, error-logs.tsx.  (The errors are    *)
(* rows of the operation logs, and CleanErrorLogsDialog deletes all of     *)
(* those, errors or not.)                                                  *)
CleanDialog == Form("clean", "page", "none", "pending", <<"await", "close">>)

OperationLogRow == View(FALSE, <<>>)

OperationLogsFilters == Filters

OperationLogsPage == List("id", "server", {"CleanDialog", "OperationLogRow", "OperationLogsFilters"})

CleanLogsDialog == Form("clean", "page", "none", "pending", <<"await", "close">>)

LoginLogsFilters == Filters

LoginLogsPage == List("place", "server", {"CleanLogsDialog", "LoginLogsFilters"})

CleanErrorLogsDialog == Form("clean", "page", "none", "pending", <<"await", "close">>)

ErrorLogsFilters == Filters

ErrorLogsPage == List("id", "server", {"CleanErrorLogsDialog", "ErrorLogsFilters"})

(* site-settings.tsx, profile.tsx.  (Of the profile, nickname and phone    *)
(* follow the record while untouched; the avatar does not.)                *)
SiteSettingsForm == Inline("update", "row", "effect", "submitting", <<"await">>)

SiteSettingsPage == List("single", "none", {"SiteSettingsForm"})

ProfileForm == Inline("update", "row", "mount", "submitting", <<"await">>)

ChangePasswordForm == Inline("other", "page", "blank", "pending", <<"reset">>)

ProfilePage == List("single", "none", {"ProfileForm", "ChangePasswordForm"})

(* dashboard.tsx *)
DashboardPage == List("single", "none", {})

(* forgot-password.tsx: an error is reported as a success.                 *)
ForgotPasswordForm ==
  [Inline("insert", "page", "blank", "pending", <<"done">>) EXCEPT !.fails = <<"done">>]

ForgotPasswordPage == [List("single", "none", {"ForgotPasswordForm"}) EXCEPT !.query = "none"]

(* reset-password.tsx *)
ResetPasswordForm == Inline("other", "page", "blank", "pending", <<"done">>)

ResetPasswordPage == [List("single", "none", {"ResetPasswordForm"}) EXCEPT !.query = "none"]

(* plugin-components/shop.  (Of a product that goes while it is edited the *)
(* dialog stays, in the code.)                                             *)
ProductDialog(mode) ==
  IF mode = "create"
    THEN Anew(Form("insert", "page", "open", "pending", <<"close", "invalidate">>))
    ELSE Anew(Form("update", "row", "open", "pending", <<"close", "invalidate">>))

RemoveProductButton == Button("delete", "page", "none", <<"invalidate">>)

ProductsSearch == Filters

ProductActions == {"CreateProductDialog", "EditProductDialog", "RemoveProductButton"}

Products == List("id", "none", ProductActions \cup {"ProductsSearch"})

CreateCategory == Inline("insert", "page", "blank", "pending", <<"reset", "invalidate">>)

RemoveCategoryButton == Button("delete", "page", "none", <<"invalidate">>)

Categories == List("id", "none", {"CreateCategory", "RemoveCategoryButton"})

Dialog ==
  [CreateUserDialog |-> CreateUserDialog, DisableTotpButton |-> DisableTotpButton,
   EditUserDialog |-> EditUserDialog, DeleteUserDialog |-> DeleteUserDialog,
   ResetPasswordDialog |-> ResetPasswordDialog, ImportUsersDialog |-> ImportUsersDialog,
   UsersSearch |-> UsersSearch, JobHistoryDrawer |-> JobHistoryDrawer, MenusSearch |-> MenusSearch,
   ApisFilters |-> ApisFilters, PreviewDialog |-> PreviewDialog, FilesSearch |-> FilesSearch,
   PluginRow |-> PluginRow, OperationLogRow |-> OperationLogRow,
   OperationLogsFilters |-> OperationLogsFilters, LoginLogsFilters |-> LoginLogsFilters,
   CleanErrorLogsDialog |-> CleanErrorLogsDialog, ErrorLogsFilters |-> ErrorLogsFilters,
   ChangePasswordForm |-> ChangePasswordForm, ForgotPasswordForm |-> ForgotPasswordForm,
   ResetPasswordForm |-> ResetPasswordForm, DictSelect |-> DictSelect,
   SessionsFilter |-> SessionsFilter, ProductsSearch |-> ProductsSearch,
   CreateJobDialog |-> CreateJobDialog, RunJobButton |-> RunJobButton,
   EditJobDialog |-> EditJobDialog, DeleteJobDialog |-> DeleteJobDialog,
   CreateMenuDialog |-> MenuDialog("create"), EditMenuDialog |-> MenuDialog("edit"),
   DeleteMenuDialog |-> DeleteMenuDialog,
   MenuButtonsAdd |-> MenuButtonsDialog("add"), MenuButtonsRemove |-> MenuButtonsDialog("remove"),
   CreateRoleDialog |-> RoleDialog("create"), EditRoleDialog |-> RoleDialog("edit"),
   DeleteRoleDialog |-> DeleteRoleDialog, PermissionsForm |-> PermissionsForm,
   CreateDictDialog |-> DictDialog("create"), EditDictDialog |-> DictDialog("edit"),
   DeleteDictDialog |-> DeleteDictDialog,
   CreateDictItemDialog |-> DictItemDialog("create"), EditDictItemDialog |-> DictItemDialog("edit"),
   DeleteDictItemDialog |-> DeleteDictItemDialog,
   CreateParamDialog |-> ParamDialog("create"), EditParamDialog |-> ParamDialog("edit"),
   DeleteParamDialog |-> DeleteParamDialog,
   EditApiDialog |-> EditApiDialog, DeleteApiDialog |-> DeleteApiDialog, SyncButton |-> SyncButton,
   UploadDialog |-> UploadDialog, DeleteFileDialog |-> DeleteFileDialog, EnabledSwitch |-> EnabledSwitch,
   InstallButton |-> InstallButton, UninstallDialog |-> UninstallDialog,
   RevokeButton |-> RevokeButton, CleanDialog |-> CleanDialog, CleanLogsDialog |-> CleanLogsDialog,
   SiteSettingsForm |-> SiteSettingsForm, ProfileForm |-> ProfileForm,
   CreateProductDialog |-> ProductDialog("create"), EditProductDialog |-> ProductDialog("edit"),
   RemoveProductButton |-> RemoveProductButton,
   CreateCategory |-> CreateCategory, RemoveCategoryButton |-> RemoveCategoryButton]

Pages ==
  [UsersPage |-> UsersPage, JobsPage |-> JobsPage, MenusPage |-> MenusPage, RolesPage |-> RolesPage,
   PermissionsDialog |-> PermissionsDialog, DictsPage |-> DictsPage, DictItemsTable |-> DictItemsTable,
   ParamsPage |-> ParamsPage, ApisPage |-> ApisPage, FilesPage |-> FilesPage,
   PluginsPage |-> PluginsPage, SessionsPage |-> SessionsPage,
   OperationLogsPage |-> OperationLogsPage, LoginLogsPage |-> LoginLogsPage,
   ErrorLogsPage |-> ErrorLogsPage, SiteSettingsPage |-> SiteSettingsPage,
   ProfilePage |-> ProfilePage, DashboardPage |-> DashboardPage,
   ForgotPasswordPage |-> ForgotPasswordPage, ResetPasswordPage |-> ResetPasswordPage,
   Products |-> Products, Categories |-> Categories]
=============================================================================
