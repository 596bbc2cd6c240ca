SPECIFICATION Spec
CONSTANTS
  MaxVersion = 2
  Parts = {chrome, locales, resources}
  Binary = chrome
  Dirs = {locales, resources}
  Runtimes = {camoufox, cloakbrowser, chromium}
  Wrapped = {chromium}
  Default = {camoufox, chromium}
  Listed = {camoufox, cloakbrowser}
SYMMETRY Symmetry
INVARIANTS
  ServesWhole
  ServesBinary
  FindsBinary
