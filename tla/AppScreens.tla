----------------------------- MODULE AppScreens -----------------------------
(* The screens of the app around the detector: LoginVC and LoginHelper with  *)
(* the Google and Firebase sign-ins, SetNameVC, the storyboard's segues, the *)
(* camera session each DetectionVC owns, and HistoryVC with the rows its     *)
(* listener builds and the images FirebaseHelper.getImage downloads.  Every  *)
(* segue presents a new controller; nothing is ever dismissed.               *)
EXTENDS Naturals, Sequences, SequencesExt, FiniteSetsExt

CONSTANTS Accounts,
          Records,         \* records with a url that may appear on the server
          OwnerOf,         \* the account each is stored under
          MaxScreens, MaxSignIns, MaxEvents, MaxLaunches,       \* bounds
          NULL

VARIABLES googleUser,      \* GIDSignIn.currentUser
          asking,          \* Google's dialog is open
          helperUser,      \* LoginHelper.user
          signIns,         \* Firebase sign-ins under way
          firebaseUser,    \* Auth.currentUser, which survives a relaunch
          screens,         \* the controllers presented, the visible one last
          trapped,         \* a forced unwrap of nil has ended the process
          server,          \* the records on the server
          downloads,       \* getData calls under way
          image,           \* FirebaseHelper.image
          launches
loginVars == <<googleUser, asking, helperUser, signIns, firebaseUser>>
historyVars == <<server, downloads, image>>
appVars == <<loginVars, screens, trapped, historyVars, launches>>

Screen(vc) == [vc |-> vc, running |-> FALSE, login |-> NULL, rows |-> <<>>, seen |-> {}, events |-> 0]
Visible(vc) == ~trapped /\ screens[Len(screens)].vc = vc

Init == /\ googleUser = NULL /\ asking = FALSE /\ helperUser = NULL
        /\ signIns = <<>> /\ firebaseUser = NULL
        /\ screens = <<Screen("LoginVC")>>
        /\ trapped = FALSE
        /\ server = {} /\ downloads = <<>> /\ image = NULL
        /\ launches = 1

-----------------------------------------------------------------------------
(* The button signs out who is signed in to Google, whoever that is.         *)
googleSignInDidTap ==
  /\ Visible("LoginVC") /\ ~asking
  /\ asking' = (googleUser = NULL)
  /\ googleUser' = NULL
  /\ UNCHANGED <<helperUser, signIns, firebaseUser, screens, trapped, historyVars, launches>>

(* loginWithGoogle, whose Firebase request ends later.                       *)
didSignInFor(user) ==
  /\ asking /\ ~trapped /\ Len(signIns) < MaxSignIns
  /\ asking' = FALSE
  /\ googleUser' = user
  /\ helperUser' = user
  /\ signIns' = Append(signIns, user)
  /\ UNCHANGED <<firebaseUser, screens, trapped, historyVars, launches>>

(* The error is not looked at; the user, nil after an error, is unwrapped.   *)
didSignInWithError ==
  /\ asking /\ ~trapped
  /\ asking' = FALSE
  /\ trapped' = TRUE
  /\ UNCHANGED <<googleUser, helperUser, signIns, firebaseUser, screens, historyVars, launches>>

(* switchToSetUserName: UIKit presents nothing on a controller that already  *)
(* presents another.                                                         *)
Present(vc) == IF Len(screens) = 1 THEN Append(screens, vc) ELSE screens

(* Broken variant: an error of the Firebase sign-in is printed only.         *)
SignInIgnoringErrors(i, error) ==
  /\ i \in DOMAIN signIns /\ ~trapped
  /\ signIns' = RemoveAt(signIns, i)
  /\ firebaseUser' = IF error THEN firebaseUser ELSE signIns[i]
  /\ screens' = Present(Screen("SetNameVC"))
  /\ UNCHANGED <<googleUser, asking, helperUser, trapped, historyVars, launches>>

signInCompleted(i, error) ==
  /\ i \in DOMAIN signIns /\ ~trapped
  /\ signIns' = RemoveAt(signIns, i)
  /\ firebaseUser' = IF error THEN firebaseUser ELSE signIns[i]
  /\ screens' = IF error THEN screens ELSE Present(Screen("SetNameVC"))
  /\ UNCHANGED <<googleUser, asking, helperUser, trapped, historyVars, launches>>

-----------------------------------------------------------------------------
Open(screen) == /\ Len(screens) < MaxScreens
                /\ screens' = Append(screens, screen)
Segue(screen) == Open(screen) /\ UNCHANGED <<loginVars, trapped, historyVars, launches>>

startCollectingDidTap == Visible("SetNameVC") /\ Segue(Screen("InstructionsVC"))

(* viewDidLoad and viewDidAppear: the timer and the session start.           *)
OpenDetectionVC == /\ Visible("InstructionsVC")
                   /\ Segue([Screen("DetectionVC") EXCEPT !.running = TRUE])

stopCollectingDidTap ==
  /\ Visible("DetectionVC")
  /\ Len(screens) < MaxScreens
  /\ screens' = Append([screens EXCEPT ![Len(screens)].running = FALSE], Screen("InstructionsVC"))
  /\ UNCHANGED <<loginVars, trapped, historyVars, launches>>

OpenInstructionsVC == (Visible("HistoryVC") \/ Visible("InfoVC")) /\ Segue(Screen("InstructionsVC"))
OpenInfoVC == (Visible("HistoryVC") \/ Visible("InstructionsVC")) /\ Segue(Screen("InfoVC"))

(* populateCells unwraps the current user and starts a listener that is      *)
(* never removed.                                                            *)
OpenHistoryVC ==
  /\ Visible("InstructionsVC") \/ Visible("InfoVC")
  /\ IF firebaseUser = NULL
     THEN trapped' = TRUE /\ UNCHANGED screens
     ELSE Open([Screen("HistoryVC") EXCEPT !.login = firebaseUser]) /\ UNCHANGED trapped
  /\ UNCHANGED <<loginVars, historyVars, launches>>

-----------------------------------------------------------------------------
(* Another detection of the account got its url (module EventStore).         *)
RecordAdded(r) == /\ r \notin server
                  /\ server' = server \cup {r}
                  /\ UNCHANGED <<loginVars, screens, trapped, downloads, image, launches>>

Children(login) == SetToSeq({r \in server : OwnerOf[r] = login})

(* Detection(snapshot:) calls getImage, which starts the download and        *)
(* returns the shared image as it is now.                                    *)
Row(r) == [record |-> r, image |-> image]

(* Broken variant: the children behind those already shown become rows.      *)
ReloadNewRows(i) ==
  LET s == screens[i]  new == Children(s.login)
  IN /\ s.vc = "HistoryVC" /\ ~trapped
     /\ new # <<>> /\ s.events < MaxEvents
     /\ screens' = [screens EXCEPT ![i].rows = @ \o [j \in 1..(Len(new) - Len(@)) |-> Row(new[Len(@) + j])],
                                   ![i].seen = ToSet(new), ![i].events = @ + 1]
     /\ downloads' = downloads \o new
     /\ UNCHANGED <<loginVars, trapped, server, image, launches>>

(* The closure of the listener, at every event, whatever has changed of the  *)
(* account's records (a field of one that was shown before, say): it appends *)
(* all of them to the array of the call of populateCells.                    *)
HistoryEvent(i) ==
  LET s == screens[i]  new == Children(s.login)
  IN /\ s.vc = "HistoryVC" /\ ~trapped
     /\ new # <<>> /\ s.events < MaxEvents
     /\ screens' = [screens EXCEPT ![i].rows = @ \o [j \in DOMAIN new |-> Row(new[j])],
                                   ![i].seen = ToSet(new), ![i].events = @ + 1]
     /\ downloads' = downloads \o new
     /\ UNCHANGED <<loginVars, trapped, server, image, launches>>

(* The completion of getData replaces the shared image; an error is printed. *)
DownloadCompleted(i, error) ==
  /\ i \in DOMAIN downloads /\ ~trapped
  /\ image' = IF error THEN image ELSE downloads[i]
  /\ downloads' = RemoveAt(downloads, i)
  /\ UNCHANGED <<loginVars, screens, trapped, server, launches>>

-----------------------------------------------------------------------------
(* applicationWillTerminate signs out of Google; a process that is killed or *)
(* trapped is not asked, but a new one has not restored its user either.     *)
Relaunch ==
  /\ launches < MaxLaunches
  /\ launches' = launches + 1
  /\ googleUser' = NULL /\ asking' = FALSE /\ helperUser' = NULL /\ signIns' = <<>>
  /\ screens' = <<Screen("LoginVC")>>
  /\ trapped' = FALSE
  /\ downloads' = <<>> /\ image' = NULL
  /\ UNCHANGED <<firebaseUser, server>>

Next == \/ googleSignInDidTap
        \/ \E user \in Accounts : didSignInFor(user)
        \/ didSignInWithError
        \/ \E i \in 1..MaxSignIns, error \in BOOLEAN : signInCompleted(i, error)
        \/ startCollectingDidTap
        \/ OpenDetectionVC
        \/ stopCollectingDidTap
        \/ OpenInstructionsVC
        \/ OpenInfoVC
        \/ OpenHistoryVC
        \/ \E r \in Records : RecordAdded(r)
        \/ \E i \in DOMAIN screens : HistoryEvent(i)
        \/ \E i \in DOMAIN downloads, error \in BOOLEAN : DownloadCompleted(i, error)
        \/ Relaunch

Spec == Init /\ [][Next]_appVars

-----------------------------------------------------------------------------
SignedIn == Len(screens) > 1 => firebaseUser # NULL
OneCamera == \A i \in DOMAIN screens : screens[i].running => i = Len(screens)

(* Every screen but the first unwraps Auth.currentUser (populateCells, the   *)
(* initializers of Detection): no path of taps, failed and repeated sign-ins *)
(* and relaunches leads past LoginVC without a Firebase user; and although   *)
(* controllers pile up, a camera session runs only under the visible one.    *)
ScreensAreServed == SignedIn /\ OneCamera

(* The table of a HistoryVC shows every record its listener was told of, of  *)
(* its own account only, and no image but one downloaded for a record, in    *)
(* spite of the rows that repeat and the image all downloads share.          *)
RowsCoverRecords ==
  \A i \in DOMAIN screens :
    LET s == screens[i]
    IN /\ {row.record : row \in ToSet(s.rows)} = s.seen
       /\ \A row \in ToSet(s.rows) :
            /\ OwnerOf[row.record] = s.login
            /\ row.image \in server \cup {NULL}
=============================================================================
