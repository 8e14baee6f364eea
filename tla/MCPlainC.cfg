\* main returns and the program stops (Terminating stutters).
SPECIFICATION MCSpec
PROPERTY StoresStayInSection
