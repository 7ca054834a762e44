------------------------------- MODULE SettingsPage -------------------------------
(***************************************************************************)
(* The settings of a user (EnhancedSettingsContext, app/settings), which    *)
(* live in localStorage, and what ClientProviders takes from there: the     *)
(* language and the timezone that the dates are shown in. Another tab has   *)
(* the same localStorage.                                                   *)
(***************************************************************************)
EXTENDS PageShell

CONSTANT Values   \* the values of a setting, one of them "default"; each tab of the page has one

-----------------------------------------------------------------------------
\* The tabs of the page, each with the sections of the settings that it changes.

GeneralTab == {"display"}         \* timezone and sound, besides theme and language
NotificationsTab == {"notifications"}
PrivacyTab == {"privacy"}
DisplayTab == {"display"}         \* compact mode
AccountTab == {"account"}
Tabs ==
  [general |-> GeneralTab, notifications |-> NotificationsTab, privacy |-> PrivacyTab,
   display |-> DisplayTab, account |-> AccountTab]
Sections == UNION {Tabs[t] : t \in DOMAIN Tabs}
Defaults == [s \in Sections |-> "default"]
\* What is stored is one of these, and null is not.
SavedSettings == [Sections -> Values \cup {"on", "off"}]

ASSUME SettingsAssumption ==
  "default" \in Values /\ None \notin Values \cup {"on", "off"} /\ None \notin SavedSettings

\* getAutoRedirectPreference: a key of its own decides, not what was stored with the
\* notifications; without it they are not as the defaults say.
Preference(pref) == IF pref = None THEN "off" ELSE pref
\* loadSettings: each stored section over the defaults. Without any the sections are
\* the default objects themselves, but for the notifications, which are copied.
LoadedSettings(stored, pref) ==
  [settings |-> [(IF stored = None THEN Defaults ELSE stored) EXCEPT !["notifications"] = Preference(pref)],
   aliases |-> IF stored = None THEN Sections \ {"notifications"} ELSE {},
   defaults |-> Defaults]
\* getClientSideLocaleData
Locale(stored, language) ==
  [timezone |-> IF stored = None THEN "default" ELSE stored["display"], language |-> language]

SettingsInit ==
  \E stored \in {None, [s \in Sections |-> "on"]} :
    page = LoadedSettings(stored, None)
           ++ [name |-> "settings", clicks |-> 0, tab |-> "general", changed |-> FALSE, theme |-> "system",
               stored |-> stored, pref |-> None, language |-> "en", locale |-> Locale(stored, "en"),
               updates |-> 0, reloads |-> FALSE, elsewhere |-> FALSE]

-----------------------------------------------------------------------------
\* What the user does. Saving, and everything else, is synchronous.

ChooseTab(t) == t # page.tab /\ Click([tab |-> t])
\* updateSetting copies the settings but not the section, which it changes in place:
\* if that is a section of defaultSettings, the defaults change too.
UpdateSetting(s, v) ==
  /\ s \in Tabs[page.tab] /\ v # page.settings[s]
  /\ Click([settings |-> [page.settings EXCEPT ![s] = v], changed |-> TRUE,
            defaults |-> IF s \in page.aliases THEN [page.defaults EXCEPT ![s] = v] ELSE page.defaults])
SetTheme(t) == page.tab = "general" /\ t # page.theme /\ Click([theme |-> t])

\* Wrong: the preference that decides at the next load is left as it is.
WrittenWithoutPreference(settings) == [stored |-> settings]
\* saveSettings: both keys are written.
Written(settings) == [stored |-> settings, pref |-> settings["notifications"]]
\* The button shows while there are changes; the locale follows 50 ms later.
SaveSettings ==
  /\ page.changed
  /\ Click(Written(page.settings) ++ [changed |-> FALSE, updates |-> page.updates + 1, elsewhere |-> FALSE])
\* resetToDefaults: the settings are the default objects now.
ResetToDefaults ==
  /\ page.changed
  /\ Click([settings |-> page.defaults, aliases |-> Sections, changed |-> TRUE, theme |-> "system"])
\* changeLanguage stores it, and the page is reloaded 150 ms later.
ChangeLanguage(l) ==
  /\ page.tab = "general" /\ l # page.language
  /\ Click([language |-> l, updates |-> page.updates + 1, reloads |-> TRUE])

-----------------------------------------------------------------------------
\* What follows.

\* handleSettingsUpdate, for each event of this tab.
LocaleFollows ==
  /\ page.updates > 0
  /\ Change([updates |-> page.updates - 1, locale |-> Locale(page.stored, page.language)])
\* The reload: what was not saved is gone.
Reloads ==
  LoadedSettings(page.stored, page.pref)
  ++ [tab |-> "general", changed |-> FALSE, locale |-> Locale(page.stored, page.language), updates |-> 0,
      reloads |-> FALSE, elsewhere |-> FALSE]
LanguageReload == page.reloads /\ Change(Reloads)
SettingsReload == Click(Reloads)
\* Another tab saves its settings; the storage event only updates the locale here.
OtherTabSaves(v) ==
  LET written == Written([s \in Sections |-> v]) IN
    Click(written ++ [locale |-> Locale(written.stored, page.language), elsewhere |-> TRUE])

SettingsNext ==
  /\ On("settings")
  /\ \/ SaveSettings \/ ResetToDefaults \/ LocaleFollows \/ LanguageReload \/ SettingsReload
     \/ \E t \in DOMAIN Tabs : ChooseTab(t)
     \/ \E s \in Sections, v \in Values : UpdateSetting(s, v)
     \/ \E t \in {"light", "dark", "system"} : SetTheme(t)
     \/ \E l \in {"en", "es", "fr"} : ChangeLanguage(l)
     \/ \E v \in Values : OtherTabSaves(v)

-----------------------------------------------------------------------------
\* Saves, reloads, a language that reloads by itself and another tab cross: while the
\* page has nothing to save, a reload would show what it shows, unless another tab
\* saved since; the dates are in the timezone and language of the storage once the
\* updates under way are done; and the defaults that a reset shows are only those
\* that the code gives for sections never changed in place
\* (EnhancedSettingsContext.tsx:158 writes into defaultSettings itself).
SettingsShownAreSaved ==
  On("settings") =>
    /\ ~page.changed /\ ~page.elsewhere => page.settings = LoadedSettings(page.stored, page.pref).settings
    /\ page.updates = 0 => page.locale = Locale(page.stored, page.language)
    /\ \A s \in Sections \ page.aliases : page.defaults[s] = "default"
=============================================================================
