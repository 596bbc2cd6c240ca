SPECIFICATION Spec
CONSTANTS
  MaxVersion = 2
  Parts = {app}
  Binary = app
  Dirs = {app}
  Runtimes = {camoufox, cloakbrowser, chromium}
  Wrapped = {chromium}
  Default = {camoufox, chromium}
  Listed = {camoufox, cloakbrowser}
INVARIANT UpgradeTakesEffect
